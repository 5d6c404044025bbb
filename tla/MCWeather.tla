----------------------------- MODULE MCWeather -----------------------------
(***************************************************************************)
(* Weather with answers without a length, empty, smaller than, as large    *)
(* as and larger than the buffer.                                          *)
(***************************************************************************)
EXTENDS Weather

MCLengths == {-1, 0, 2, 3, 7}
=============================================================================
