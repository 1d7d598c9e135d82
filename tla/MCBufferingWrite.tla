-------------------------- MODULE MCBufferingWrite --------------------------
(* The instances of BufferingWrite that TLC checks; model values only.     *)
EXTENDS BufferingWrite
=============================================================================
