----------------------------- MODULE ByteStream -----------------------------
(***************************************************************************)
(* What output buffering promises its caller, without the buffer.  Bytes   *)
(* are offered to a file, some prefix of them is on disk, and a file that  *)
(* is closed without a reported write error holds everything offered.      *)
(***************************************************************************)
EXTENDS Integers

CONSTANT File           \* the files written during one run of the program

VARIABLES phase,        \* "fresh", "open" or "closed", per file
          offered,      \* number of bytes handed over so far, per file
          stored,       \* number of bytes on disk, per file
          damaged       \* files for which a write error was reported

vars == <<phase, offered, stored, damaged>>

Init ==
  /\ phase = [f \in File |-> "fresh"]
  /\ offered = [f \in File |-> 0]
  /\ stored = [f \in File |-> 0]
  /\ damaged = {}

Open(f) ==
  /\ phase[f] = "fresh"
  /\ phase' = [phase EXCEPT ![f] = "open"]
  /\ UNCHANGED <<offered, stored, damaged>>

(* Bytes may reach the disk late, and those of any open file may do so     *)
(* while another is written to, but never ahead of what was offered.       *)
Transfer ==
  /\ \A f \in File :
       /\ stored[f] <= stored'[f]
       /\ stored'[f] <= offered'[f]
       /\ offered[f] <= offered'[f]
       /\ (stored[f] # stored'[f] \/ offered[f] # offered'[f]) => phase[f] = "open"
  /\ damaged \subseteq damaged'

(* An open file takes more bytes.                                          *)
Write ==
  /\ Transfer
  /\ UNCHANGED phase

(* A file closes; only a reported error excuses a short file.              *)
Close(f) ==
  /\ phase[f] = "open"
  /\ phase' = [phase EXCEPT ![f] = "closed"]
  /\ Transfer
  /\ UNCHANGED offered
  /\ f \in damaged' \/ stored'[f] = offered[f]

Next == Write \/ \E f \in File : Open(f) \/ Close(f)

Spec == Init /\ [][Next]_vars

=============================================================================
