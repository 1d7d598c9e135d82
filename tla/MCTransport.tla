---------------------------- MODULE MCTransport ----------------------------
EXTENDS Transport
(* Two places to read, so that a reply may be for the wrong one.           *)
=============================================================================
