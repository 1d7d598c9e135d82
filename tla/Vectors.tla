------------------------------- MODULE Vectors -------------------------------
(***************************************************************************)
(* Vectors of samples and the comparison of two of them: the editing       *)
(* functions of p_block.c, and the runs that paranoia.c and gap.c look     *)
(* for.  Offsets count from 0 as in the code, so that the sample at offset *)
(* i of a vector v is v[i + 1].                                            *)
(***************************************************************************)
EXTENDS Integers, Sequences, FiniteSetsExt

Least(a, b) == IF a < b THEN a ELSE b
Most(a, b) == IF a < b THEN b ELSE a

-----------------------------------------------------------------------------
(* Editing.  Piece is the samples of the offsets [from, to).               *)

Piece(v, from, to) == SubSeq(v, from + 1, to)

Insert(v, pos, b) ==
  IF pos \in 0..Len(v) THEN Piece(v, 0, pos) \o b \o Piece(v, pos, Len(v)) ELSE v

(* A negative size removes all from pos on.                                *)
Remove(v, pos, size) ==
  LET n == IF size < 0 \/ pos + size > Len(v) THEN Len(v) - pos ELSE size IN
  IF pos \in 0..Len(v) THEN Piece(v, 0, pos) \o Piece(v, pos + n, Len(v)) ELSE v

Cut(v, pos) == Remove(v, pos, -1)

Overwrite(v, pos, b) ==
  [i \in 1..Len(v) |-> IF pos < i /\ i <= pos + Len(b) THEN b[i - pos] ELSE v[i]]

-----------------------------------------------------------------------------
(* Runs of samples that agree.                                             *)

Agree(A, B, a, b, n) == \A k \in 0..(n - 1) : A[a + k + 1] = B[b + k + 1]

(* How many samples agree from offsets a and b on, and up to them.         *)
Overlap_f(A, B, a, b) ==
  Max({n \in 0..Most(0, Least(Len(A) - a, Len(B) - b)) : Agree(A, B, a, b, n)})

Overlap_r(A, B, a, b) ==
  Max({n \in 0..Most(0, Least(a, b) + 1) : Agree(A, B, a - n + 1, b - n + 1, n)})

(* The longest run that agrees around two offsets, as offsets of A; empty  *)
(* if the two samples differ.                                              *)
Overlap(A, B, a, b) ==
  [begin |-> a + 1 - Overlap_r(A, B, a, b), end |-> a + Overlap_f(A, B, a, b)]

=============================================================================
