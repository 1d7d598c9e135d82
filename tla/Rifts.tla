-------------------------------- MODULE Rifts --------------------------------
(***************************************************************************)
(* The rift analysis of gap.c: what is wrong where two vectors cease to    *)
(* agree.  A is the verified root, B the copy of the fragment that is      *)
(* merged into it.                                                         *)
(***************************************************************************)
EXTENDS Vectors

CONSTANT MIN_WORDS_RIFT  (* samples that must agree again beyond a rift *)

ASSUME RiftAssumption == MIN_WORDS_RIFT \in Nat \ {0}

-----------------------------------------------------------------------------
(* Rifts.  The result says what is missing from A (a > 0) or superfluous   *)
(* in A (a < 0), likewise b for B, or that c samples just differ.          *)

NoRift == [a |-> 0, b |-> 0, c |-> 0]

(* Seeded fault: what memcmp returns is taken for "equal".                 *)
Differs_Inverted(A, B, a, b, gap) ==
  LET skip == Most(0, -a)
      n == Most(0, Least(gap - skip, Len(A) - (a + skip)))
  IN  {Agree(A, B, a + skip, b + skip, n)}

(* i_stutter_or_gap: the outcomes of comparing gap samples.  Of a vector   *)
(* that begins later the first ones are left out; beyond the end of A the  *)
(* comparison reads memory that holds anything.                            *)
Differs(A, B, a, b, gap) ==
  LET skip == Most(0, -a)
      n == Most(0, Least(gap - skip, Len(A) - (a + skip)))
  IN  IF ~Agree(A, B, a + skip, b + skip, n) THEN {TRUE}
      ELSE IF n < gap - skip THEN BOOLEAN ELSE {FALSE}

(* What is in the rift repeats the good samples next to it, or it does not. *)
MissingFromA(i, differs) == IF differs THEN [NoRift EXCEPT !.a = i] ELSE [NoRift EXCEPT !.b = -i]
MissingFromB(i, differs) == IF differs THEN [NoRift EXCEPT !.b = i] ELSE [NoRift EXCEPT !.a = -i]

(* i_analyze_rift_f: the smallest i so that A and B agree again when i     *)
(* samples of B, of A, or of both are passed over.                         *)
Analyze_f(A, B, a, b) ==
  LET OfB(i) == i < Len(B) - b /\ Overlap_f(A, B, a, b + i) >= MIN_WORDS_RIFT
      OfA(i) == i < Len(A) - a /\ Overlap_f(A, B, a + i, b) >= MIN_WORDS_RIFT
      OfBoth(i) == /\ i < Len(A) - a /\ i < Len(B) - b
                   /\ Overlap_f(A, B, a + i, b + i) >= MIN_WORDS_RIFT
      Sizes == {i \in 1..Most(Len(A) - a, Len(B) - b) : OfB(i) \/ OfA(i) \/ OfBoth(i)}
      Kinds(i) ==
        IF OfB(i) THEN {MissingFromA(i, d) : d \in Differs(A, B, a - i, b, i)}
        ELSE IF OfA(i) THEN {MissingFromB(i, d) : d \in Differs(B, A, b - i, a, i)}
        ELSE {[NoRift EXCEPT !.c = i]}
  IN  IF Sizes = {} THEN {NoRift} ELSE UNION {Kinds(i) : i \in {Min(Sizes)}}

(* i_analyze_rift_r: the same backward from the samples a and b.           *)
Analyze_r(A, B, a, b) ==
  LET OfB(i) == i < b + 1 /\ Overlap_r(A, B, a, b - i) >= MIN_WORDS_RIFT
      OfA(i) == i < a + 1 /\ Overlap_r(A, B, a - i, b) >= MIN_WORDS_RIFT
      OfBoth(i) == /\ i < a + 1 /\ i < b + 1
                   /\ Overlap_r(A, B, a - i, b - i) >= MIN_WORDS_RIFT
      Sizes == {i \in 1..(Most(a, b) + 1) : OfB(i) \/ OfA(i) \/ OfBoth(i)}
      Kinds(i) ==
        IF OfB(i) THEN {MissingFromA(i, d) : d \in Differs(A, B, a + 1, b - i + 1, i)}
        ELSE IF OfA(i) THEN {MissingFromB(i, d) : d \in Differs(B, A, b + 1, a - i + 1, i)}
        ELSE {[NoRift EXCEPT !.c = i]}
  IN  IF Sizes = {} THEN {NoRift} ELSE UNION {Kinds(i) : i \in {Min(Sizes)}}

(* analyze_rift_silence_f for one vector: the next MIN_WORDS_RIFT samples, *)
(* or all that there are, are one value.                                   *)
Silent_f(v, pos) ==
  \A k \in (pos + 1)..(Least(Len(v), pos + MIN_WORDS_RIFT) - 1) : v[k + 1] = v[k]

=============================================================================
