---------------------------- MODULE MCReadBlock -----------------------------
EXTENDS ReadBlock

TargetsDef == {5, 20}
ReadableDef == 0..200
=============================================================================
