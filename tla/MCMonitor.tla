----------------------------- MODULE MCMonitor -----------------------------
(***************************************************************************)
(* Instances of Monitor for TLC: two plain values, and the disk that may   *)
(* be missing.                                                             *)
(***************************************************************************)
EXTENDS Monitor

MCFields == <<"cpu_usage", "disk_d", "net_up">>
MCValues == {-1, 0, 1}
=============================================================================
