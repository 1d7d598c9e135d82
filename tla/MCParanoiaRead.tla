--------------------------- MODULE MCParanoiaRead ---------------------------
(* The instances of ParanoiaRead that TLC checks; model values only.       *)
EXTENDS ParanoiaRead
=============================================================================
