----------------------------- MODULE MCGifKeys -----------------------------
(***************************************************************************)
(* Instances of GifKeys for TLC: three screens, animations of two frames.  *)
(***************************************************************************)
EXTENDS GifKeys
=============================================================================
