----------------------------- MODULE MCTalkApp -----------------------------
(***************************************************************************)
(* TalkApp with its history variable.  Two power requests are enough to    *)
(* tell one request from more.                                             *)
(***************************************************************************)
EXTENDS TalkDisturbed
=============================================================================
