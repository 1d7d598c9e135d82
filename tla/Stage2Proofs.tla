---------------------------- MODULE Stage2Proofs ----------------------------
(***************************************************************************)
(* Proofs about stage 2, for every set of fragments that stage 1 may       *)
(* deliver, whatever the samples are and however they disagree.            *)
(***************************************************************************)
EXTENDS Stage2, SequenceTheorems, WellFoundedInduction, TLAPS

-----------------------------------------------------------------------------
(* Extremes of sets of integers.                                           *)

(* A set of naturals has a least one.                                      *)
LEMMA LeastNat ==
  ASSUME NEW S \in SUBSET Nat, S # {}
  PROVE  \E x \in S : \A y \in S : x <= y
<1>1. PICK x \in S : \A y \in S : ~ (<<y, x>> \in OpToRel(<, Nat))
  BY NatLessThanWellFounded, WFMin
<1>2. \A y \in S : ~ (y < x)
  BY <1>1 DEF OpToRel
<1> QED BY <1>2

(* Min is what its name says of integers with a bound.                     *)
LEMMA MinIs ==
  ASSUME NEW b \in Int, NEW S \in SUBSET Int, S # {}, \A x \in S : b <= x
  PROVE  Min(S) \in S /\ \A x \in S : Min(S) <= x
<1> DEFINE D == {x - b : x \in S}
<1>0. \A x \in S : x \in Int /\ x - b \in Nat
  OBVIOUS
<1>1. D \in SUBSET Nat /\ D # {}
  BY <1>0
<1>2. PICK d \in D : \A y \in D : d <= y
  BY <1>1, LeastNat
<1>3. PICK x \in S : d = x - b
  BY <1>2
<1>4. \A y \in S : x <= y
  <2> TAKE y \in S
  <2>1. d <= y - b
    BY <1>2
  <2> QED BY <1>0, <1>3, <2>1
<1> QED BY <1>4 DEF Min

(* So is Max.                                                              *)
LEMMA MaxIs ==
  ASSUME NEW b \in Int, NEW S \in SUBSET Int, S # {}, \A x \in S : x <= b
  PROVE  Max(S) \in S /\ \A x \in S : x <= Max(S)
<1> DEFINE D == {b - x : x \in S}
<1>0. \A x \in S : x \in Int /\ b - x \in Nat
  OBVIOUS
<1>1. D \in SUBSET Nat /\ D # {}
  BY <1>0
<1>2. PICK d \in D : \A y \in D : d <= y
  BY <1>1, LeastNat
<1>3. PICK x \in S : d = b - x
  BY <1>2
<1>4. \A y \in S : x >= y
  <2> TAKE y \in S
  <2>1. d <= b - y
    BY <1>2
  <2> QED BY <1>0, <1>3, <2>1
<1> QED BY <1>4 DEF Max

-----------------------------------------------------------------------------
(* What an edit does to each sample of a vector.                           *)

Vector == Seq(Int)

(* The samples of a piece are those from its first offset on.              *)
LEMMA PieceIs ==
  ASSUME NEW x \in Vector, NEW from \in 0..Len(x), NEW to \in from..Len(x)
  PROVE  /\ Piece(x, from, to) \in Vector
         /\ Len(Piece(x, from, to)) = to - from
         /\ \A i \in 0..((to - from) - 1) : Piece(x, from, to)[i + 1] = x[from + i + 1]
<1>1. from + 1 \in Int /\ to \in Int /\ \A i \in (from + 1)..to : x[i] \in Int
  BY DEF Vector
<1>2. /\ SubSeq(x, from + 1, to) \in Seq(Int)
      /\ Len(SubSeq(x, from + 1, to)) = IF from + 1 <= to THEN to - (from + 1) + 1 ELSE 0
      /\ \A i \in 1..(to - (from + 1) + 1) : SubSeq(x, from + 1, to)[i] = x[(from + 1 + i) - 1]
  <2>1. from + 1 \in Int
    BY <1>1
  <2> HIDE DEF Vector
  <2> QED BY <1>1, <2>1, SubSeqProperties
<1> DEFINE p == SubSeq(x, from + 1, to)
<1>3. Piece(x, from, to) = p
  BY DEF Piece
<1> HIDE DEF p
<1>4. p \in Vector /\ Len(p) = to - from
  BY <1>2 DEF p, Vector
<1>5. \A i \in 0..((to - from) - 1) : p[i + 1] = x[from + i + 1]
  <2> TAKE i \in 0..((to - from) - 1)
  <2>1. i + 1 \in 1..(to - (from + 1) + 1) /\ (from + 1 + (i + 1)) - 1 = from + i + 1
    OBVIOUS
  <2>2. p[i + 1] = x[(from + 1 + (i + 1)) - 1]
    BY <1>2, <2>1 DEF p
  <2> QED BY <2>1, <2>2
<1> QED BY <1>3, <1>4, <1>5

(* Vectors one after the other.                                            *)
LEMMA JoinIs ==
  ASSUME NEW x \in Vector, NEW y \in Vector
  PROVE  /\ x \o y \in Vector /\ Len(x) \in Nat /\ Len(y) \in Nat
         /\ Len(x \o y) = Len(x) + Len(y)
         /\ \A i \in 0..(Len(x) - 1) : (x \o y)[i + 1] = x[i + 1]
         /\ \A i \in 0..(Len(y) - 1) : (x \o y)[Len(x) + i + 1] = y[i + 1]
<1>1. x \in Seq(Int) /\ y \in Seq(Int)
  BY DEF Vector
<1>2. /\ x \o y \in Seq(Int) /\ Len(x \o y) = Len(x) + Len(y)
      /\ \A i \in 1..(Len(x) + Len(y)) :
           (x \o y)[i] = IF i <= Len(x) THEN x[i] ELSE y[i - Len(x)]
  BY <1>1, ConcatProperties
<1>3. Len(x) \in Nat /\ Len(y) \in Nat
  BY <1>1
<1> DEFINE z == x \o y
<1>4. \A i \in 1..(Len(x) + Len(y)) : z[i] = IF i <= Len(x) THEN x[i] ELSE y[i - Len(x)]
  BY <1>2
<1> HIDE DEF z
<1>5. \A i \in 0..(Len(x) - 1) : z[i + 1] = x[i + 1]
  <2> TAKE i \in 0..(Len(x) - 1)
  <2>1. i + 1 \in 1..(Len(x) + Len(y)) /\ i + 1 <= Len(x)
    BY <1>3
  <2> QED BY <1>4, <2>1
<1>6. \A i \in 0..(Len(y) - 1) : z[Len(x) + i + 1] = y[i + 1]
  <2> TAKE i \in 0..(Len(y) - 1)
  <2>1. /\ Len(x) + i + 1 \in 1..(Len(x) + Len(y)) /\ ~(Len(x) + i + 1 <= Len(x))
        /\ (Len(x) + i + 1) - Len(x) = i + 1
    BY <1>3
  <2> QED BY <1>4, <2>1
<1> QED BY <1>2, <1>3, <1>5, <1>6 DEF z, Vector

(* Insert leaves what is before the place and moves what is behind it.     *)
LEMMA InsertIs ==
  ASSUME NEW x \in Vector, NEW b \in Vector, NEW pos \in 0..Len(x)
  PROVE  LET y == Insert(x, pos, b) IN
         /\ y \in Vector /\ Len(y) = Len(x) + Len(b) /\ Len(b) \in Nat /\ Len(x) \in Nat
         /\ \A i \in 0..(pos - 1) : y[i + 1] = x[i + 1]
         /\ \A i \in pos..(Len(x) - 1) : y[i + Len(b) + 1] = x[i + 1]
<1> DEFINE p == Piece(x, 0, pos)
           q == Piece(x, pos, Len(x))
           h == p \o b
           y == h \o q
<1>1. Len(x) \in Nat /\ Len(b) \in Nat
  BY DEF Vector
<1>2. p \in Vector /\ Len(p) = pos /\ \A i \in 0..(pos - 1) : p[i + 1] = x[i + 1]
  <2>1. 0 \in 0..Len(x) /\ pos \in 0..Len(x) /\ pos - 0 = pos
    BY <1>1
  <2>2. /\ Piece(x, 0, pos) \in Vector /\ Len(Piece(x, 0, pos)) = pos - 0
        /\ \A i \in 0..((pos - 0) - 1) : Piece(x, 0, pos)[i + 1] = x[0 + i + 1]
    BY <2>1, PieceIs
  <2>3. \A i \in 0..(pos - 1) : 0 + i + 1 = i + 1
    OBVIOUS
  <2> QED BY <2>1, <2>2, <2>3
<1>3. q \in Vector /\ Len(q) = Len(x) - pos
      /\ \A i \in 0..((Len(x) - pos) - 1) : q[i + 1] = x[pos + i + 1]
  <2>1. Len(x) \in pos..Len(x)
    BY <1>1
  <2> QED BY <2>1, PieceIs
<1>4. Insert(x, pos, b) = y
  BY DEF Insert
<1> HIDE DEF p, q
<1>5. /\ h \in Vector /\ Len(h) = pos + Len(b)
      /\ \A i \in 0..(pos - 1) : h[i + 1] = x[i + 1]
  BY <1>2, JoinIs
<1> HIDE DEF h
<1>6. /\ y \in Vector /\ Len(y) = Len(h) + Len(q)
      /\ \A i \in 0..(Len(h) - 1) : y[i + 1] = h[i + 1]
      /\ \A i \in 0..(Len(q) - 1) : y[Len(h) + i + 1] = q[i + 1]
  BY <1>3, <1>5, JoinIs
<1> HIDE DEF y
<1>7. Len(y) = Len(x) + Len(b)
  BY <1>1, <1>3, <1>5, <1>6
<1>8. \A i \in 0..(pos - 1) : y[i + 1] = x[i + 1]
  <2> TAKE i \in 0..(pos - 1)
  <2>1. i \in 0..(Len(h) - 1)
    BY <1>1, <1>5
  <2> QED BY <1>5, <1>6, <2>1
<1>9. \A i \in pos..(Len(x) - 1) : y[i + Len(b) + 1] = x[i + 1]
  <2> TAKE i \in pos..(Len(x) - 1)
  <2>1. /\ i - pos \in 0..(Len(q) - 1) /\ Len(h) + (i - pos) + 1 = i + Len(b) + 1
        /\ pos + (i - pos) + 1 = i + 1 /\ i - pos \in 0..((Len(x) - pos) - 1)
    BY <1>1, <1>3, <1>5
  <2>2. y[Len(h) + (i - pos) + 1] = q[(i - pos) + 1]
    BY <1>6, <2>1
  <2>3. q[(i - pos) + 1] = x[pos + (i - pos) + 1]
    BY <1>3, <2>1
  <2> QED BY <2>1, <2>2, <2>3
<1> QED BY <1>1, <1>4, <1>6, <1>7, <1>8, <1>9

(* Remove leaves what is before the place and moves up what is behind.     *)
LEMMA RemoveIs ==
  ASSUME NEW x \in Vector, NEW pos \in 0..Len(x), NEW n \in Nat, pos + n <= Len(x)
  PROVE  LET y == Remove(x, pos, n) IN
         /\ y \in Vector /\ Len(y) = Len(x) - n /\ Len(x) \in Nat
         /\ \A i \in 0..(pos - 1) : y[i + 1] = x[i + 1]
         /\ \A i \in (pos + n)..(Len(x) - 1) : y[(i - n) + 1] = x[i + 1]
<1> DEFINE p == Piece(x, 0, pos)
           q == Piece(x, pos + n, Len(x))
           y == p \o q
<1>1. Len(x) \in Nat /\ pos \in Nat
  BY DEF Vector
<1>2. p \in Vector /\ Len(p) = pos /\ \A i \in 0..(pos - 1) : p[i + 1] = x[i + 1]
  <2>1. 0 \in 0..Len(x) /\ pos \in 0..Len(x) /\ pos - 0 = pos
    BY <1>1
  <2>2. /\ Piece(x, 0, pos) \in Vector /\ Len(Piece(x, 0, pos)) = pos - 0
        /\ \A i \in 0..((pos - 0) - 1) : Piece(x, 0, pos)[i + 1] = x[0 + i + 1]
    BY <2>1, PieceIs
  <2>3. \A i \in 0..(pos - 1) : 0 + i + 1 = i + 1
    OBVIOUS
  <2> QED BY <2>1, <2>2, <2>3
<1>3. q \in Vector /\ Len(q) = Len(x) - (pos + n)
      /\ \A i \in 0..((Len(x) - (pos + n)) - 1) : q[i + 1] = x[pos + n + i + 1]
  <2>1. pos + n \in 0..Len(x) /\ Len(x) \in (pos + n)..Len(x)
    BY <1>1
  <2> QED BY <2>1, PieceIs
<1>4. Remove(x, pos, n) = y
  <2>1. (IF n < 0 \/ pos + n > Len(x) THEN Len(x) - pos ELSE n) = n
    BY <1>1
  <2> QED BY <2>1 DEF Remove
<1> HIDE DEF p, q
<1>5. /\ y \in Vector /\ Len(y) = Len(p) + Len(q)
      /\ \A i \in 0..(Len(p) - 1) : y[i + 1] = p[i + 1]
      /\ \A i \in 0..(Len(q) - 1) : y[Len(p) + i + 1] = q[i + 1]
  BY <1>2, <1>3, JoinIs
<1> HIDE DEF y
<1>6. Len(y) = Len(x) - n
  BY <1>1, <1>2, <1>3, <1>5
<1>7. \A i \in 0..(pos - 1) : y[i + 1] = x[i + 1]
  BY <1>2, <1>5
<1>8. \A i \in (pos + n)..(Len(x) - 1) : y[(i - n) + 1] = x[i + 1]
  <2> TAKE i \in (pos + n)..(Len(x) - 1)
  <2> DEFINE k == i - (pos + n)
  <2>1. /\ k \in 0..(Len(q) - 1) /\ Len(p) + k + 1 = (i - n) + 1
        /\ pos + n + k + 1 = i + 1 /\ k \in 0..((Len(x) - (pos + n)) - 1)
    BY <1>1, <1>2, <1>3
  <2> HIDE DEF k
  <2>2. y[Len(p) + k + 1] = q[k + 1]
    BY <1>5, <2>1
  <2>3. q[k + 1] = x[pos + n + k + 1]
    BY <1>3, <2>1
  <2> QED BY <2>1, <2>2, <2>3
<1> QED BY <1>1, <1>4, <1>5, <1>6, <1>7, <1>8

(* Cut leaves what is before the place, if that is in the vector.          *)
LEMMA CutIs ==
  ASSUME NEW x \in Vector, NEW pos \in 0..Len(x)
  PROVE  /\ Cut(x, pos) \in Vector /\ Len(Cut(x, pos)) = pos
         /\ \A i \in 0..(pos - 1) : Cut(x, pos)[i + 1] = x[i + 1]
<1>1. Len(x) \in Nat /\ pos \in Nat
  BY DEF Vector
<1>2. (IF -1 < 0 \/ pos + (-1) > Len(x) THEN Len(x) - pos ELSE -1) = Len(x) - pos
  BY <1>1
<1> DEFINE n == Len(x) - pos
<1>3. n \in Nat /\ pos + n = Len(x) /\ Len(x) - n = pos
  BY <1>1
<1>4. (IF n < 0 \/ pos + n > Len(x) THEN Len(x) - pos ELSE n) = n
  BY <1>1, <1>3
<1>5. Cut(x, pos) = Remove(x, pos, n)
  BY <1>2, <1>4 DEF Cut, Remove
<1> HIDE DEF n
<1>6. /\ Remove(x, pos, n) \in Vector /\ Len(Remove(x, pos, n)) = Len(x) - n
      /\ \A i \in 0..(pos - 1) : Remove(x, pos, n)[i + 1] = x[i + 1]
  <2>1. n \in Nat /\ pos + n <= Len(x)
    BY <1>1, <1>3
  <2> QED BY <2>1, RemoveIs
<1> QED BY <1>3, <1>5, <1>6

(* Whatever place and size, the result is a vector.                        *)
LEMMA RemoveIsVector ==
  ASSUME NEW x \in Vector, NEW pos \in Int, NEW size \in Int
  PROVE  Remove(x, pos, size) \in Vector
<1> DEFINE n == IF size < 0 \/ pos + size > Len(x) THEN Len(x) - pos ELSE size
<1>1. CASE pos \in 0..Len(x)
  <2>1. Len(x) \in Nat /\ n \in Nat /\ pos + n <= Len(x)
    BY <1>1 DEF Vector
  <2>2. (IF n < 0 \/ pos + n > Len(x) THEN Len(x) - pos ELSE n) = n
    BY <2>1
  <2>3. Remove(x, pos, size) = Remove(x, pos, n)
    <3> HIDE DEF n
    <3>1. Remove(x, pos, n) = Piece(x, 0, pos) \o Piece(x, pos + n, Len(x))
      BY <1>1, <2>2 DEF Remove
    <3>2. Remove(x, pos, size) = Piece(x, 0, pos) \o Piece(x, pos + n, Len(x))
      BY <1>1 DEF Remove, n
    <3> QED BY <3>1, <3>2
  <2> HIDE DEF n
  <2>4. Remove(x, pos, n) \in Vector
    BY <1>1, <2>1, RemoveIs
  <2> QED BY <2>3, <2>4
<1>2. CASE ~(pos \in 0..Len(x))
  BY <1>2 DEF Remove
<1> QED BY <1>1, <1>2

(* Overwrite changes the samples of its place.                             *)
LEMMA OverwriteIs ==
  ASSUME NEW x \in Vector, NEW b \in Vector, NEW pos \in Int
  PROVE  LET y == Overwrite(x, pos, b) IN
         /\ y \in Vector /\ Len(y) = Len(x) /\ Len(x) \in Nat
         /\ \A i \in 0..(Len(x) - 1) : i < pos \/ pos + Len(b) <= i => y[i + 1] = x[i + 1]
<1> DEFINE f == [i \in 1..Len(x) |-> IF pos < i /\ i <= pos + Len(b) THEN b[i - pos] ELSE x[i]]
<1>1. Len(x) \in Nat /\ Len(b) \in Nat
  BY DEF Vector
<1>2. \A i \in 1..Len(x) : f[i] \in Int
  <2> TAKE i \in 1..Len(x)
  <2>1. x[i] \in Int
    BY DEF Vector
  <2>2. pos < i /\ i <= pos + Len(b) => i - pos \in 1..Len(b)
    BY <1>1
  <2>3. pos < i /\ i <= pos + Len(b) => b[i - pos] \in Int
    BY <2>2 DEF Vector
  <2> QED BY <2>1, <2>3
<1>3. f \in [1..Len(x) -> Int]
  BY <1>2
<1>4. f \in Seq(Int) /\ Len(f) = Len(x)
  <2> HIDE DEF f
  <2> QED BY <1>1, <1>3, LenProperties, SeqDef
<1>5. \A i \in 0..(Len(x) - 1) : i < pos \/ pos + Len(b) <= i => f[i + 1] = x[i + 1]
  <2> TAKE i \in 0..(Len(x) - 1)
  <2>1. i + 1 \in 1..Len(x)
    BY <1>1
  <2>2. i < pos \/ pos + Len(b) <= i => ~(pos < i + 1 /\ i + 1 <= pos + Len(b))
    BY <1>1
  <2> QED BY <2>1, <2>2
<1>6. Overwrite(x, pos, b) = f
  BY DEF Overwrite
<1> HIDE DEF f
<1> QED BY <1>1, <1>4, <1>5, <1>6 DEF Vector

-----------------------------------------------------------------------------
(* Runs.                                                                   *)

Run == [begin : Int, end : Int]

(* r is a run of offsets of A, and at off from them of B, that agree.      *)
Shared(A, B, r, off) ==
  /\ r \in Run
  /\ 0 <= r.begin /\ r.begin < r.end /\ r.end <= Len(A)
  /\ 0 <= r.begin + off /\ r.end + off <= Len(B)
  /\ \A i \in r.begin..(r.end - 1) : A[i + 1] = B[i + off + 1]

(* How far samples agree forward.                                          *)
LEMMA ForwardIs ==
  ASSUME NEW A \in Vector, NEW B \in Vector, NEW a \in 0..(Len(A) - 1), NEW b \in 0..(Len(B) - 1),
         A[a + 1] = B[b + 1]
  PROVE  LET n == Overlap_f(A, B, a, b) IN
         /\ n \in Nat \ {0} /\ a + n <= Len(A) /\ b + n <= Len(B)
         /\ Agree(A, B, a, b, n)
<1> DEFINE most == Most(0, Least(Len(A) - a, Len(B) - b))
           S == {n \in 0..most : Agree(A, B, a, b, n)}
<1>1. Len(A) \in Nat /\ Len(B) \in Nat /\ most \in Nat /\ 1 <= most
      /\ most <= Len(A) - a /\ most <= Len(B) - b
  BY DEF Vector, Most, Least
<1>2. 1 \in S
  <2>1. Agree(A, B, a, b, 1)
    <3> SUFFICES ASSUME NEW k \in 0..(1 - 1) PROVE A[a + k + 1] = B[b + k + 1]
      BY DEF Agree
    <3>1. k = 0 /\ a + k + 1 = a + 1 /\ b + k + 1 = b + 1
      BY <1>1
    <3> QED BY <3>1
  <2> HIDE DEF most
  <2> QED BY <1>1, <2>1
<1>3. S \in SUBSET Int /\ S # {} /\ \A x \in S : x <= most
  <2>1. S \subseteq 0..most
    OBVIOUS
  <2> HIDE DEF S, most
  <2> QED BY <1>1, <1>2, <2>1
<1>4. Overlap_f(A, B, a, b) = Max(S)
  BY DEF Overlap_f
<1> HIDE DEF S, most
<1>5. Max(S) \in S /\ 1 <= Max(S)
  <2>1. most \in Int
    BY <1>1
  <2>2. Max(S) \in S /\ \A x \in S : x <= Max(S)
    BY <1>3, <2>1, MaxIs, Zenon
  <2> QED BY <1>2, <2>2
<1>6. Max(S) \in 0..most /\ Agree(A, B, a, b, Max(S))
  BY <1>5 DEF S
<1> QED BY <1>1, <1>4, <1>5, <1>6

(* How far they agree backward.                                            *)
LEMMA BackwardIs ==
  ASSUME NEW A \in Vector, NEW B \in Vector, NEW a \in 0..(Len(A) - 1), NEW b \in 0..(Len(B) - 1),
         A[a + 1] = B[b + 1]
  PROVE  LET n == Overlap_r(A, B, a, b) IN
         /\ n \in Nat \ {0} /\ n <= a + 1 /\ n <= b + 1
         /\ Agree(A, B, a - n + 1, b - n + 1, n)
<1> DEFINE most == Most(0, Least(a, b) + 1)
           S == {n \in 0..most : Agree(A, B, a - n + 1, b - n + 1, n)}
<1>1. Len(A) \in Nat /\ Len(B) \in Nat /\ most \in Nat /\ 1 <= most
      /\ most <= a + 1 /\ most <= b + 1
  BY DEF Vector, Most, Least
<1>2. 1 \in S
  <2>1. Agree(A, B, a - 1 + 1, b - 1 + 1, 1)
    <3> SUFFICES ASSUME NEW k \in 0..(1 - 1) PROVE A[(a - 1 + 1) + k + 1] = B[(b - 1 + 1) + k + 1]
      BY DEF Agree
    <3>1. k = 0 /\ (a - 1 + 1) + k + 1 = a + 1 /\ (b - 1 + 1) + k + 1 = b + 1
      BY <1>1
    <3> QED BY <3>1
  <2> HIDE DEF most
  <2> QED BY <1>1, <2>1
<1>3. S \in SUBSET Int /\ S # {} /\ \A x \in S : x <= most
  <2>1. S \subseteq 0..most
    OBVIOUS
  <2> HIDE DEF S, most
  <2> QED BY <1>1, <1>2, <2>1
<1>4. Overlap_r(A, B, a, b) = Max(S)
  BY DEF Overlap_r
<1> HIDE DEF S, most
<1>5. Max(S) \in S /\ 1 <= Max(S)
  <2>1. most \in Int
    BY <1>1
  <2>2. Max(S) \in S /\ \A x \in S : x <= Max(S)
    BY <1>3, <2>1, MaxIs, Zenon
  <2> QED BY <1>2, <2>2
<1>6. Max(S) \in 0..most /\ Agree(A, B, a - Max(S) + 1, b - Max(S) + 1, Max(S))
  BY <1>5 DEF S
<1> QED BY <1>1, <1>4, <1>5, <1>6

(* The run around two samples that agree is one, and they are in it.       *)
LEMMA OverlapIs ==
  ASSUME NEW A \in Vector, NEW B \in Vector, NEW a \in 0..(Len(A) - 1), NEW b \in 0..(Len(B) - 1),
         A[a + 1] = B[b + 1]
  PROVE  LET r == Overlap(A, B, a, b) IN
         Shared(A, B, r, b - a) /\ r.begin <= a /\ a < r.end
<1> DEFINE back == Overlap_r(A, B, a, b)
           fore == Overlap_f(A, B, a, b)
           r == Overlap(A, B, a, b)
           off == b - a
<1>1. Len(A) \in Nat /\ Len(B) \in Nat
  BY DEF Vector
<1>2. /\ fore \in Nat \ {0} /\ a + fore <= Len(A) /\ b + fore <= Len(B)
      /\ \A k \in 0..(fore - 1) : A[a + k + 1] = B[b + k + 1]
  BY ForwardIs DEF Agree
<1>3. /\ back \in Nat \ {0} /\ back <= a + 1 /\ back <= b + 1
      /\ \A k \in 0..(back - 1) : A[(a - back + 1) + k + 1] = B[(b - back + 1) + k + 1]
  BY BackwardIs DEF Agree
<1>4. r = [begin |-> a + 1 - back, end |-> a + fore]
  BY DEF Overlap
<1> HIDE DEF back, fore, r
<1>5. r.begin = a + 1 - back /\ r.end = a + fore /\ r \in Run
  BY <1>2, <1>3, <1>4 DEF Run
<1>6. /\ 0 <= r.begin /\ r.begin <= a /\ a < r.end /\ r.end <= Len(A)
      /\ 0 <= r.begin + off /\ r.end + off <= Len(B)
  BY <1>1, <1>2, <1>3, <1>5
<1>7. ASSUME NEW i \in r.begin..(r.end - 1) PROVE A[i + 1] = B[i + off + 1]
  <2>0. i \in Int
    BY <1>5 DEF Run
  <2>1. CASE i >= a
    <3> DEFINE k == i - a
    <3>1. k \in 0..(fore - 1) /\ a + k + 1 = i + 1 /\ b + k + 1 = i + off + 1
      BY <1>2, <1>5, <2>0, <2>1
    <3> HIDE DEF k
    <3>2. A[a + k + 1] = B[b + k + 1]
      BY <1>2, <3>1
    <3> QED BY <3>1, <3>2
  <2>2. CASE i < a
    <3> DEFINE k == i - (a - back + 1)
    <3>1. k \in 0..(back - 1)
      BY <1>3, <1>5, <2>0, <2>2
    <3>2. (a - back + 1) + k + 1 = i + 1 /\ (b - back + 1) + k + 1 = i + off + 1
      BY <1>3, <2>0
    <3> HIDE DEF k
    <3>3. A[(a - back + 1) + k + 1] = B[(b - back + 1) + k + 1]
      BY <1>3, <3>1
    <3> QED BY <3>2, <3>3
  <2> QED BY <2>0, <2>1, <2>2
<1>8. r.begin <= a /\ a < r.end
  BY <1>6
<1>9. Shared(A, B, r, off)
  <2>1. off \in Int
    OBVIOUS
  <2>2. \A i \in r.begin..(r.end - 1) : A[i + 1] = B[i + off + 1]
    BY <1>7
  <2>3. r.begin < r.end
    BY <1>5, <1>6 DEF Run
  <2> HIDE DEF off
  <2> QED BY <1>5, <1>6, <2>2, <2>3, Zenon DEF Shared
<1> QED BY <1>8, <1>9 DEF r, off

(* The edge of a repaired rift is extended to the run around it.           *)
LEMMA ExtendedIs ==
  ASSUME NEW A \in Vector, NEW B \in Vector, NEW edge \in 0..(Len(A) - 1), NEW off \in Int,
         edge + off \in 0..(Len(B) - 1), A[edge + 1] = B[edge + off + 1]
  PROVE  LET r == Extended(A, B, edge, off) IN
         Shared(A, B, r, off) /\ r.begin <= edge /\ edge < r.end
<1> DEFINE b == edge + off
<1>1. b \in 0..(Len(B) - 1) /\ b - edge = off /\ A[edge + 1] = B[b + 1]
  OBVIOUS
<1>2. Extended(A, B, edge, off) = Overlap(A, B, edge, b)
  BY DEF Extended
<1> HIDE DEF b
<1>3. /\ Shared(A, B, Overlap(A, B, edge, b), b - edge)
      /\ Overlap(A, B, edge, b).begin <= edge /\ edge < Overlap(A, B, edge, b).end
  BY <1>1, OverlapIs
<1> QED BY <1>1, <1>2, <1>3

(* Whether the samples at the edge agree or not, what Overlap finds lies in *)
(* the first vector.                                                       *)
LEMMA OverlapPlaced ==
  ASSUME NEW A \in Vector, NEW B \in Vector, NEW a \in 0..(Len(A) - 1), NEW b \in 0..(Len(B) - 1)
  PROVE  LET r == Overlap(A, B, a, b) IN
         r \in Run /\ r.begin \in 0..Len(A) /\ r.end \in 0..Len(A)
<1> DEFINE back == Overlap_r(A, B, a, b)
           fore == Overlap_f(A, B, a, b)
           most == Most(0, Least(Len(A) - a, Len(B) - b))
           least == Most(0, Least(a, b) + 1)
           F == {n \in 0..most : Agree(A, B, a, b, n)}
           R == {n \in 0..least : Agree(A, B, a - n + 1, b - n + 1, n)}
<1>1. /\ Len(A) \in Nat /\ Len(B) \in Nat
      /\ most \in Nat /\ most <= Len(A) - a
      /\ least \in Nat /\ least <= a + 1
  BY DEF Vector, Most, Least
<1>2. fore = Max(F) /\ back = Max(R)
  BY DEF Overlap_f, Overlap_r
<1> HIDE DEF fore, back
<1>3. F \in SUBSET Int /\ 0 \in F /\ \A x \in F : x <= most
  <2>1. Agree(A, B, a, b, 0)
    BY DEF Agree
  <2> HIDE DEF most
  <2> QED BY <1>1, <2>1
<1>4. R \in SUBSET Int /\ 0 \in R /\ \A x \in R : x <= least
  <2>1. Agree(A, B, a - 0 + 1, b - 0 + 1, 0)
    BY DEF Agree
  <2> HIDE DEF least
  <2> QED BY <1>1, <2>1
<1>5. Max(F) \in F /\ Max(R) \in R
  <2> HIDE DEF F, R
  <2>1. most \in Int /\ least \in Int /\ F # {} /\ R # {}
    BY <1>1, <1>3, <1>4
  <2>2. Max(F) \in F
    BY <1>3, <2>1, MaxIs, Zenon
  <2>3. Max(R) \in R
    BY <1>4, <2>1, MaxIs, Zenon
  <2> QED BY <2>2, <2>3
<1>6. fore \in 0..most /\ back \in 0..least
  BY <1>2, <1>5 DEF F, R
<1>7. Overlap(A, B, a, b) = [begin |-> a + 1 - back, end |-> a + fore]
  BY DEF Overlap, fore, back
<1> HIDE DEF most, least
<1> QED BY <1>1, <1>6, <1>7 DEF Run

-----------------------------------------------------------------------------
(* What the rift analysis finds lies within the vectors.                   *)

(* What is missing from one vector the other has, and what is superfluous  *)
(* is there: ofA and ofB samples are left beyond the edge.  A repair is of *)
(* one kind.                                                               *)
Within(m, ofA, ofB) ==
  /\ m \in [a : Int, b : Int, c : Int]
  /\ m.a > 0 => m.a <= ofB
  /\ m.a < 0 => -m.a <= ofA
  /\ m.b > 0 => m.b <= ofA
  /\ m.b < 0 => -m.b <= ofB
  /\ m.c # 0 => m.c > 0 /\ m.c <= ofA /\ m.c <= ofB
  /\ m.a = 0 \/ m.b = 0
  /\ m.c = 0 \/ (m.a = 0 /\ m.b = 0)

(* A repair by samples that both or one of the vectors have.               *)
LEMMA WithinIs ==
  ASSUME NEW i \in Nat \ {0}, NEW ofA \in Nat, NEW ofB \in Nat
  PROVE  /\ Within(NoRift, ofA, ofB)
         /\ i <= ofB => \A d : Within(MissingFromA(i, d), ofA, ofB)
         /\ i <= ofA => \A d : Within(MissingFromB(i, d), ofA, ofB)
         /\ i <= ofA /\ i <= ofB => Within([NoRift EXCEPT !.c = i], ofA, ofB)
<1>1. Within([a |-> 0, b |-> 0, c |-> 0], ofA, ofB)
  BY DEF Within
<1>2. i <= ofB => Within([a |-> i, b |-> 0, c |-> 0], ofA, ofB)
                  /\ Within([a |-> 0, b |-> -i, c |-> 0], ofA, ofB)
  BY DEF Within
<1>3. i <= ofA => Within([a |-> -i, b |-> 0, c |-> 0], ofA, ofB)
                  /\ Within([a |-> 0, b |-> i, c |-> 0], ofA, ofB)
  BY DEF Within
<1>4. i <= ofA /\ i <= ofB => Within([a |-> 0, b |-> 0, c |-> i], ofA, ofB)
  BY DEF Within
<1>5. /\ [NoRift EXCEPT !.a = i] = [a |-> i, b |-> 0, c |-> 0]
      /\ [NoRift EXCEPT !.a = -i] = [a |-> -i, b |-> 0, c |-> 0]
      /\ [NoRift EXCEPT !.b = i] = [a |-> 0, b |-> i, c |-> 0]
      /\ [NoRift EXCEPT !.b = -i] = [a |-> 0, b |-> -i, c |-> 0]
      /\ [NoRift EXCEPT !.c = i] = [a |-> 0, b |-> 0, c |-> i]
  BY DEF NoRift
<1>6. ASSUME NEW d
      PROVE  /\ MissingFromA(i, d) = [a |-> i, b |-> 0, c |-> 0]
                \/ MissingFromA(i, d) = [a |-> 0, b |-> -i, c |-> 0]
             /\ MissingFromB(i, d) = [a |-> 0, b |-> i, c |-> 0]
                \/ MissingFromB(i, d) = [a |-> -i, b |-> 0, c |-> 0]
  <2>1. CASE d
    BY <1>5, <2>1 DEF MissingFromA, MissingFromB
  <2>2. CASE ~d
    BY <1>5, <2>2 DEF MissingFromA, MissingFromB
  <2> QED BY <2>1, <2>2
<1>7. i <= ofB => \A d : Within(MissingFromA(i, d), ofA, ofB)
  BY <1>2, <1>6
<1>8. i <= ofA => \A d : Within(MissingFromB(i, d), ofA, ofB)
  BY <1>3, <1>6
<1> QED BY <1>1, <1>4, <1>5, <1>7, <1>8 DEF NoRift

(* Rifts backward from two samples.                                        *)
LEMMA LeadingRiftIs ==
  ASSUME NEW A \in Vector, NEW B \in Vector, NEW a \in 0..(Len(A) - 1), NEW b \in 0..(Len(B) - 1),
         NEW m \in Analyze_r(A, B, a, b)
  PROVE  Within(m, a + 1, b + 1)
<1> DEFINE OfB(i) == i < b + 1 /\ Overlap_r(A, B, a, b - i) >= MIN_WORDS_RIFT
           OfA(i) == i < a + 1 /\ Overlap_r(A, B, a - i, b) >= MIN_WORDS_RIFT
           OfBoth(i) == /\ i < a + 1 /\ i < b + 1
                        /\ Overlap_r(A, B, a - i, b - i) >= MIN_WORDS_RIFT
           Sizes == {i \in 1..(Most(a, b) + 1) : OfB(i) \/ OfA(i) \/ OfBoth(i)}
           Kinds(i) ==
             IF OfB(i) THEN {MissingFromA(i, d) : d \in Differs(A, B, a + 1, b - i + 1, i)}
             ELSE IF OfA(i) THEN {MissingFromB(i, d) : d \in Differs(B, A, b + 1, a - i + 1, i)}
             ELSE {[NoRift EXCEPT !.c = i]}
<1>1. Most(a, b) + 1 \in Nat /\ a + 1 \in Nat /\ b + 1 \in Nat
  BY DEF Vector, Most
<1>2. m \in (IF Sizes = {} THEN {NoRift} ELSE UNION {Kinds(i) : i \in {Min(Sizes)}})
  BY DEF Analyze_r
<1>3. \A i \in Sizes : i \in Nat \ {0} /\ (OfB(i) \/ OfA(i) \/ OfBoth(i))
  BY <1>1
<1>4. \A i : (OfB(i) => i < b + 1) /\ (OfA(i) => i < a + 1) /\ (OfBoth(i) => i < a + 1 /\ i < b + 1)
  OBVIOUS
<1>5. CASE Sizes = {}
  <2>1. m = NoRift
    BY <1>2, <1>5
  <2>2. 1 \in Nat \ {0}
    OBVIOUS
  <2>3. Within(NoRift, a + 1, b + 1)
    BY <1>1, <2>2, WithinIs, Zenon
  <2> QED BY <2>1, <2>3
<1>6. CASE Sizes # {}
  <2> DEFINE i == Min(Sizes)
  <2>1. m \in Kinds(i)
    BY <1>2, <1>6
  <2>2. i \in Sizes
    <3>1. Sizes \in SUBSET Int /\ \A x \in Sizes : 0 <= x
      BY <1>3
    <3> HIDE DEF Sizes
    <3> QED BY <1>6, <3>1, MinIs
  <2> HIDE DEF i, Sizes
  <2>3. i \in Nat \ {0} /\ (OfB(i) \/ OfA(i) \/ OfBoth(i))
    BY <1>3, <2>2
  <2>4. CASE OfB(i)
    <3>1. PICK d \in Differs(A, B, a + 1, b - i + 1, i) : m = MissingFromA(i, d)
      BY <2>1, <2>4
    <3>2. i <= b + 1
      BY <1>4, <2>3, <2>4
    <3> QED BY <1>1, <2>3, <3>1, <3>2, WithinIs
  <2>5. CASE ~OfB(i) /\ OfA(i)
    <3>1. PICK d \in Differs(B, A, b + 1, a - i + 1, i) : m = MissingFromB(i, d)
      BY <2>1, <2>5
    <3>2. i <= a + 1
      BY <1>4, <2>3, <2>5
    <3> QED BY <1>1, <2>3, <3>1, <3>2, WithinIs
  <2>6. CASE ~OfB(i) /\ ~OfA(i)
    <3>1. m = [NoRift EXCEPT !.c = i]
      BY <2>1, <2>6
    <3>2. i <= a + 1 /\ i <= b + 1
      BY <1>4, <2>3, <2>6
    <3>3. Within([NoRift EXCEPT !.c = i], a + 1, b + 1)
      BY <1>1, <2>3, <3>2, WithinIs
    <3> QED BY <3>1, <3>3
  <2> QED BY <2>4, <2>5, <2>6
<1> QED BY <1>5, <1>6

(* Rifts forward from two samples.                                         *)
LEMMA TrailingRiftIs ==
  ASSUME NEW A \in Vector, NEW B \in Vector, NEW a \in 0..(Len(A) - 1), NEW b \in 0..(Len(B) - 1),
         NEW m \in Analyze_f(A, B, a, b)
  PROVE  Within(m, Len(A) - a, Len(B) - b)
<1> DEFINE OfB(i) == i < Len(B) - b /\ Overlap_f(A, B, a, b + i) >= MIN_WORDS_RIFT
           OfA(i) == i < Len(A) - a /\ Overlap_f(A, B, a + i, b) >= MIN_WORDS_RIFT
           OfBoth(i) == /\ i < Len(A) - a /\ i < Len(B) - b
                        /\ Overlap_f(A, B, a + i, b + i) >= MIN_WORDS_RIFT
           Sizes == {i \in 1..Most(Len(A) - a, Len(B) - b) : OfB(i) \/ OfA(i) \/ OfBoth(i)}
           Kinds(i) ==
             IF OfB(i) THEN {MissingFromA(i, d) : d \in Differs(A, B, a - i, b, i)}
             ELSE IF OfA(i) THEN {MissingFromB(i, d) : d \in Differs(B, A, b - i, a, i)}
             ELSE {[NoRift EXCEPT !.c = i]}
<1>1. Most(Len(A) - a, Len(B) - b) \in Nat /\ Len(A) - a \in Nat /\ Len(B) - b \in Nat
  BY DEF Vector, Most
<1>2. m \in (IF Sizes = {} THEN {NoRift} ELSE UNION {Kinds(i) : i \in {Min(Sizes)}})
  BY DEF Analyze_f
<1>3. \A i \in Sizes : i \in Nat \ {0} /\ (OfB(i) \/ OfA(i) \/ OfBoth(i))
  BY <1>1
<1>4. \A i : (OfB(i) => i < Len(B) - b) /\ (OfA(i) => i < Len(A) - a)
             /\ (OfBoth(i) => i < Len(A) - a /\ i < Len(B) - b)
  OBVIOUS
<1>5. CASE Sizes = {}
  <2>1. m = NoRift
    BY <1>2, <1>5
  <2>2. 1 \in Nat \ {0}
    OBVIOUS
  <2>3. Within(NoRift, Len(A) - a, Len(B) - b)
    BY <1>1, <2>2, WithinIs, Zenon
  <2> QED BY <2>1, <2>3
<1>6. CASE Sizes # {}
  <2> DEFINE i == Min(Sizes)
  <2>1. m \in Kinds(i)
    BY <1>2, <1>6
  <2>2. i \in Sizes
    <3>1. Sizes \in SUBSET Int /\ \A x \in Sizes : 0 <= x
      BY <1>3
    <3> HIDE DEF Sizes
    <3> QED BY <1>6, <3>1, MinIs
  <2> HIDE DEF i, Sizes
  <2>3. i \in Nat \ {0} /\ (OfB(i) \/ OfA(i) \/ OfBoth(i))
    BY <1>3, <2>2
  <2>4. CASE OfB(i)
    <3>1. PICK d \in Differs(A, B, a - i, b, i) : m = MissingFromA(i, d)
      BY <2>1, <2>4
    <3>2. i <= Len(B) - b
      BY <1>1, <1>4, <2>3, <2>4
    <3> QED BY <1>1, <2>3, <3>1, <3>2, WithinIs
  <2>5. CASE ~OfB(i) /\ OfA(i)
    <3>1. PICK d \in Differs(B, A, b - i, a, i) : m = MissingFromB(i, d)
      BY <2>1, <2>5
    <3>2. i <= Len(A) - a
      BY <1>1, <1>4, <2>3, <2>5
    <3> QED BY <1>1, <2>3, <3>1, <3>2, WithinIs
  <2>6. CASE ~OfB(i) /\ ~OfA(i)
    <3>1. m = [NoRift EXCEPT !.c = i]
      BY <2>1, <2>6
    <3>2. i <= Len(A) - a /\ i <= Len(B) - b
      BY <1>1, <1>4, <2>3, <2>6
    <3>3. Within([NoRift EXCEPT !.c = i], Len(A) - a, Len(B) - b)
      BY <1>1, <2>3, <3>2, WithinIs
    <3> QED BY <3>1, <3>3
  <2> QED BY <2>4, <2>5, <2>6
<1> QED BY <1>5, <1>6

-----------------------------------------------------------------------------
(* No pass visits a fragment that was freed in it.                         *)

(* list[] may be gone through again, by i_silence_match, only if nothing   *)
(* of it was freed in the pass: what was merged sets the flag, and what    *)
(* should have matched is not freed while there may be silence in the way. *)
ListLive ==
  pc \in {"pass", "leading", "trailing", "glom"} /\ flag = FALSE /\ silenceflag = TRUE =>
    list \subseteq frags

(* Outside of i_stage2 there is no list[].                                 *)
Rested == pc = "idle" => todo = {}

VisitsInv == VisitsLive /\ ListLive /\ Rested

(* A drift moves and tears the fragments of a list as it does all others.  *)
LEMMA AfterGrows ==
  ASSUME NEW S, NEW T, S \subseteq T, NEW d
  PROVE  After(S, d) \subseteq After(T, d)
BY DEF After

(* It holds when nothing was read, and every step keeps it.                *)
LEMMA VisitsInvInit == Init => VisitsInv
BY DEF Init, VisitsInv, VisitsLive, ListLive, Rested

(* The steps that neither visit nor free a fragment.                       *)
LEMMA VisitsInvKept ==
  ASSUME VisitsInv,
         UNCHANGED <<frags, list, todo, flag, silenceflag>>,
         pc' \in {"pass", "leading", "trailing", "glom"} => pc \in {"pass", "leading", "trailing", "glom"},
         pc' = "idle" => pc = "idle"
  PROVE  VisitsInv'
BY DEF VisitsInv, VisitsLive, ListLive, Rested

(* A fragment that is merged is gone, and no longer to be visited.         *)
LEMMA VisitsInvMerged ==
  ASSUME VisitsInv, NEW f, flag' = TRUE, Free(f), Visited(f), pc' # "idle"
  PROVE  VisitsInv'
BY DEF VisitsInv, VisitsLive, ListLive, Rested, Free, Visited

(* So it is when a drift follows.                                          *)
LEMMA VisitsInvLeft ==
  ASSUME VisitsInv, NEW f, NEW d, flag' = TRUE, Left(d, {f}), pc' # "idle"
  PROVE  VisitsInv'
<1>1. todo \ {f} \subseteq frags \ {f}
  BY DEF VisitsInv, VisitsLive
<1>2. todo' \subseteq frags'
  BY <1>1, AfterGrows DEF Left
<1> QED BY <1>2 DEF VisitsInv, VisitsLive, ListLive, Rested

(* Another pass is over the fragments that are left.                       *)
LEMMA VisitsInvNextPass ==
  ASSUME NEW again, NextPass(again), UNCHANGED frags
  PROVE  VisitsInv'
BY DEF NextPass, VisitsInv, VisitsLive, ListLive, Rested

(* Every step of stage 2 and of its caller keeps it.                       *)
LEMMA VisitsInvNext ==
  ASSUME VisitsInv, [Next]_vars
  PROVE  VisitsInv'
<1>1. CASE \E f \in drive.fragments : \E d \in Drifts : Verify(f, d)
  <2>1. pc = "idle" /\ UNCHANGED <<pc, todo>>
    BY <1>1 DEF Verify
  <2> QED BY <2>1 DEF VisitsInv, VisitsLive, ListLive, Rested
<1>2. CASE ReturnSector
  <2>1. UNCHANGED <<frags, list, todo, flag, silenceflag, pc>>
    BY <1>2 DEF ReturnSector
  <2> QED BY <2>1, VisitsInvKept
<1>3. CASE StartStage2
  <2>1. list' = frags' /\ todo' = frags' /\ pc' = "pass"
    BY <1>3 DEF StartStage2
  <2> QED BY <2>1 DEF VisitsInv, VisitsLive, ListLive, Rested
<1>4. CASE pc = "pass" /\ VisitStep
  <2> PICK f \in todo :
         \/ InitRoot(f) \/ PassBy(f)
         \/ \E d \in Drifts, m \in MatchFound(f) : BeginMerge(f, m, d)
         \/ NoMatch(f)
    BY <1>4 DEF VisitStep
  <2>1. CASE InitRoot(f)
    BY <2>1, VisitsInvMerged DEF InitRoot
  <2>2. CASE PassBy(f)
    BY <2>2 DEF PassBy, Visited, rootVars, VisitsInv, VisitsLive, ListLive, Rested
  <2>3. CASE \E d \in Drifts, m \in MatchFound(f) : BeginMerge(f, m, d)
    <3> PICK d \in Drifts, m \in MatchFound(f) : BeginMerge(f, m, d)
      BY <2>3
    <3> DEFINE e == [d EXCEPT !.torn = @ \ {f}]
    <3>1. /\ pc = "pass" /\ pc' = "leading" /\ UNCHANGED <<flag, silenceflag>>
          /\ Left(e, {})
      BY DEF BeginMerge, rootVars
    <3> HIDE DEF e
    <3>2. frags' = After(frags, e) /\ list' = After(list, e) /\ todo' = After(todo, e)
      <4>1. frags \ {} = frags /\ todo \ {} = todo
        OBVIOUS
      <4> QED BY <3>1, <4>1 DEF Left
    <3>3. todo' \subseteq frags'
      BY <3>2, AfterGrows DEF VisitsInv, VisitsLive
    <3>4. list \subseteq frags => list' \subseteq frags'
      BY <3>2, AfterGrows
    <3> QED BY <3>1, <3>3, <3>4 DEF VisitsInv, VisitsLive, ListLive, Rested
  <2>4. CASE NoMatch(f)
    <3>1. /\ pc = "pass" /\ Visited(f)
          /\ UNCHANGED <<pc, list, flag, silenceflag>>
          /\ (~silenceflag /\ Free(f)) \/ UNCHANGED frags
      BY <2>4 DEF NoMatch, rootVars
    <3> QED BY <3>1 DEF Free, Visited, VisitsInv, VisitsLive, ListLive, Rested
  <2> QED BY <2>1, <2>2, <2>3, <2>4
<1>5. CASE EndPass
  <2>1. /\ pc = "pass" /\ UNCHANGED <<frags, silenceflag>>
        /\ IF ~flag /\ silenceflag /\ root # NoRoot THEN SilencePass ELSE NextPass(flag)
    BY <1>5 DEF EndPass, rootVars
  <2>2. CASE NextPass(flag)
    BY <2>1, <2>2, VisitsInvNextPass
  <2>3. CASE ~flag /\ silenceflag /\ SilencePass
    BY <2>1, <2>3 DEF SilencePass, VisitsInv, VisitsLive, ListLive, Rested
  <2> QED BY <2>1, <2>2, <2>3
<1>6. CASE pc = "silence" /\ SilenceStep
  <2>1. CASE EndSilence
    BY <2>1, VisitsInvNextPass DEF EndSilence
  <2>2. ASSUME NEW f \in todo, NEW d \in Drifts, SilenceMatch(f, d) PROVE VisitsInv'
    BY <2>2, VisitsInvLeft DEF SilenceMatch
  <2>3. ASSUME NEW f \in todo, NoSilenceMatch(f) PROVE VisitsInv'
    BY <2>3 DEF NoSilenceMatch, Visited, VisitsInv, VisitsLive, ListLive, Rested
  <2> QED BY <1>6, <2>1, <2>2, <2>3 DEF SilenceStep
<1>7. CASE pc = "leading" /\ LeadingStep
  <2>1. PICK m \in LeadingRifts \cup {NoRift} :
          LeadingInRoot(m) \/ LeadingInFragment(m) \/ LeadingGarbage(m) \/ EndLeading(m)
    BY <1>7 DEF LeadingStep
  <2>2. UNCHANGED <<frags, list, todo, flag, silenceflag>> /\ (pc' = pc \/ pc' = "trailing")
    BY <2>1 DEF LeadingInRoot, LeadingInFragment, LeadingGarbage, EndLeading, rootVars
  <2> QED BY <1>7, <2>2, VisitsInvKept
<1>8. CASE pc = "trailing" /\ TrailingStep
  <2>1. CASE \E m \in TrailingRifts \cup {NoRift} :
               TrailingInRoot(m) \/ TrailingInFragment(m) \/ TrailingGarbage(m) \/ EndTrailing(m)
    <3>1. UNCHANGED <<frags, list, todo, flag, silenceflag>> /\ (pc' = pc \/ pc' = "glom")
      BY <2>1 DEF TrailingInRoot, TrailingInFragment, TrailingGarbage, EndTrailing, rootVars
    <3> QED BY <1>8, <3>1, VisitsInvKept
  <2>2. CASE CutRootSilence
    <3>1. UNCHANGED <<frags, list, todo, flag, silenceflag>> /\ pc' = "glom"
      BY <2>2 DEF CutRootSilence
    <3> QED BY <1>8, <3>1, VisitsInvKept
  <2>3. CASE DropFragmentSilence
    BY <2>3, VisitsInvMerged DEF DropFragmentSilence, Merged
  <2> QED BY <1>8, <2>1, <2>2, <2>3 DEF TrailingStep
<1>9. CASE pc = "glom" /\ \E d \in Drifts : Glom(d)
  <2> PICK d \in Drifts : Glom(d)
    BY <1>9
  <2> QED BY VisitsInvLeft DEF Glom, Merged
<1>10. CASE NoGrowth
  BY <1>10, VisitsInvMerged DEF NoGrowth, Merged
<1>11. CASE UNCHANGED vars
  BY <1>11 DEF vars, rootVars, VisitsInv, VisitsLive, ListLive, Rested
<1>12. CASE GoAstray
  <2>1. UNCHANGED <<frags, list, todo, flag, silenceflag>> /\ pc' = "undefined"
    BY <1>12 DEF GoAstray, rootVars
  <2> QED BY <2>1, VisitsInvKept
<1> QED
  BY <1>1, <1>2, <1>3, <1>4, <1>5, <1>6, <1>7, <1>8, <1>9, <1>10, <1>11, <1>12
     DEF Next, Step

(* No pass of i_stage2, and none of i_silence_match over the same list[],  *)
(* follows the pointer of a fragment that free_v_fragment gave back.       *)
THEOREM FreedNotVisited == Spec => []VisitsLive
<1>1. Init => VisitsInv
  BY VisitsInvInit
<1>2. VisitsInv /\ [Next]_vars => VisitsInv'
  BY VisitsInvNext
<1>3. VisitsInv => VisitsLive
  BY DEF VisitsInv
<1> QED BY <1>1, <1>2, <1>3, PTL DEF Spec

-----------------------------------------------------------------------------
(* Type correctness, and that the run agrees.                              *)

Root == [begin : Int, vec : Vector]

(* What stage 1 delivered and what the root is made of.                    *)
FragmentsTyped ==
  /\ drive \in Drives
  /\ frags \subseteq Fragment /\ list \subseteq Fragment /\ todo \subseteq Fragment
  /\ dyndrift \in Int
RootTyped == root \in Root /\ returnedlimit \in Int /\ silencebegin \in Int
MergeTyped == v \in Fragment /\ l \in Vector /\ run \in Run /\ offset \in Int
Typed == FragmentsTyped /\ RootTyped /\ MergeTyped

(* RunAgrees, with the offset from the root to the fragment apart.  If a   *)
(* drift moved the fragment, all that is known is that the run ends in the *)
(* root.                                                                   *)
Lined(A, B, r, off) ==
  /\ r \in Run /\ r.begin \in Nat /\ r.end \in 0..Len(A)
  /\ upset # "moved" => Shared(A, B, r, off)

RunShared == Merging => Lined(root.vec, l, run, offset)

RunInv == Typed /\ RunShared

(* The fields of a fragment and of the root.                               *)
LEMMA FieldsIs ==
  ASSUME NEW x \in Root \cup Fragment
  PROVE  /\ x.begin \in Int /\ x.vec \in Vector /\ Len(x.vec) \in Nat
         /\ End(x) \in Int /\ x.begin <= End(x) /\ End(x) = x.begin + Len(x.vec)
<1>1. x.begin \in Int /\ x.vec \in Vector
  BY DEF Root, Fragment, Vector, Sample
<1>2. Len(x.vec) \in Nat
  BY <1>1 DEF Vector
<1> QED BY <1>1, <1>2 DEF End

(* A drift is a number, and a fragment that it moves differs by that.      *)
LEMMA DriftIs ==
  ASSUME drive \in Drives, NEW d \in Drifts
  PROVE  d.by \in Int
<1>1. drive.drifts \subseteq Int
  BY DriveAssumption DEF Drive
<1> QED BY <1>1 DEF Drifts, NoDrift

LEMMA MovedIs ==
  ASSUME NEW f \in Fragment, NEW d, d.by \in Int
  PROVE  /\ Moved(f, d) \in Fragment
         /\ Moved(f, d).vec = f.vec /\ Moved(f, d).last = f.last
         /\ f \notin d.moved => Moved(f, d) = f
         /\ f \in d.moved => Moved(f, d).begin = f.begin - d.by
<1>1. [f EXCEPT !.begin = @ - d.by] = [begin |-> f.begin - d.by, vec |-> f.vec, last |-> f.last]
  BY DEF Fragment
<1> QED BY <1>1 DEF Moved, Fragment, Sample

LEMMA AfterIs ==
  ASSUME NEW S, S \subseteq Fragment, NEW d, d.by \in Int
  PROVE  After(S, d) \subseteq Fragment
BY MovedIs DEF After

(* What is left after one is made of fragments.                            *)
LEMMA LeftTyped ==
  ASSUME FragmentsTyped, NEW d \in Drifts, NEW e, e.by = d.by, NEW used,
         DriftBy(d), Left(e, used), UNCHANGED drive
  PROVE  FragmentsTyped'
<1>1. d.by \in Int
  BY DriftIs DEF FragmentsTyped
<1>2. /\ frags' = After(frags \ used, e) /\ list' = After(list, e)
      /\ todo' = After(todo \ used, e)
  BY DEF Left
<1>3. frags \ used \subseteq Fragment /\ list \subseteq Fragment /\ todo \ used \subseteq Fragment
  BY DEF FragmentsTyped
<1>4. frags' \subseteq Fragment /\ list' \subseteq Fragment /\ todo' \subseteq Fragment
  BY <1>1, <1>2, <1>3, AfterIs
<1>5. dyndrift' \in Int
  BY <1>1 DEF DriftBy, FragmentsTyped
<1> QED BY <1>4, <1>5 DEF FragmentsTyped

(* The root with another vector.                                           *)
LEMMA EditedIs ==
  ASSUME NEW r \in Root, NEW y \in Vector
  PROVE  LET s == [r EXCEPT !.vec = y] IN s \in Root /\ s.begin = r.begin /\ s.vec = y
BY DEF Root

(* A run with another end.                                                 *)
LEMMA ReachedIs ==
  ASSUME NEW A \in Vector, NEW B \in Vector, NEW r \in Run, NEW off \in Int, NEW x \in Run,
         Shared(A, B, x, off), x.begin <= r.begin, r.begin < x.end, 0 <= r.begin, 0 <= r.begin + off
  PROVE  Shared(A, B, [r EXCEPT !.end = x.end], off)
<1> DEFINE y == [r EXCEPT !.end = x.end]
<1>1. y \in Run /\ y.begin = r.begin /\ y.end = x.end /\ x.begin \in Int /\ x.end \in Int /\ r.begin \in Int
  BY DEF Run
<1> HIDE DEF y
<1>2. /\ x.end <= Len(A) /\ x.end + off <= Len(B)
      /\ \A i \in x.begin..(x.end - 1) : A[i + 1] = B[i + off + 1]
  BY DEF Shared
<1>3. \A i \in y.begin..(y.end - 1) : A[i + 1] = B[i + off + 1]
  <2>1. \A i \in y.begin..(y.end - 1) : i \in x.begin..(x.end - 1)
    BY <1>1
  <2> QED BY <1>2, <2>1
<1>4. Shared(A, B, y, off)
  BY <1>1, <1>2, <1>3 DEF Shared
<1> QED BY <1>4 DEF y

(* The first sound of a fragment is in it or at its end.                   *)
LEMMA SoundIs ==
  ASSUME NEW f \in Fragment
  PROVE  Sound(f) \in f.begin..End(f)
<1> DEFINE S == {i \in f.begin..(End(f) - 1) : At(f, i) # 0}
<1>1. f.begin \in Int /\ End(f) \in Int /\ f.begin <= End(f)
  BY FieldsIs
<1>2. S \in SUBSET Int /\ \A x \in S : f.begin <= x
  BY <1>1
<1>3. Sound(f) = IF S = {} THEN End(f) ELSE Min(S)
  BY DEF Sound
<1>4. S # {} => Min(S) \in f.begin..(End(f) - 1)
  <2>1. S # {} => Min(S) \in S
    <3> HIDE DEF S
    <3> QED BY <1>1, <1>2, MinIs
  <2> QED BY <2>1
<1> HIDE DEF S
<1>5. S # {} => Min(S) \in f.begin..End(f)
  BY <1>1, <1>4
<1>6. End(f) \in f.begin..End(f)
  BY <1>1
<1> QED BY <1>3, <1>5, <1>6, Zenon

(* The silence test finds an integer.                                      *)
LEMMA SilenceTestIs ==
  ASSUME NEW r \in Root, NEW lit, NEW from \in Int, returnedlimit \in Int, SilenceTest(r, lit, from)
  PROVE  silencebegin' \in Int
<1> DEFINE last == Len(r.vec) - 1
           Heard == {j \in 0..(last - 1) : r.vec[j + 1] # 0}
           j == IF Heard = {} THEN -1 ELSE Max(Heard)
<1>1. last \in Int /\ r.begin \in Int
  BY FieldsIs
<1>2. j \in Int
  <2>1. Heard \in SUBSET Int /\ \A x \in Heard : x <= last
    BY <1>1
  <2>2. Heard # {} => Max(Heard) \in Heard
    <3> HIDE DEF Heard, last
    <3> QED BY <1>1, <2>1, MaxIs
  <2> HIDE DEF Heard, last
  <2>3. Heard # {} => Max(Heard) \in Int
    BY <2>1, <2>2
  <2> QED BY <2>3
<1>3. silencebegin' = Most(r.begin + j + 1, returnedlimit) \/ silencebegin' = from
  BY DEF SilenceTest
<1> HIDE DEF j
<1> QED BY <1>1, <1>2, <1>3 DEF Most

-----------------------------------------------------------------------------
(* A match of a fragment is a sample that it shares with the root.         *)

(* The search begins in the fragment or at its end.                        *)
LEMMA FirstSoundIs ==
  ASSUME NEW f \in Fragment, root \in Root
  PROVE  FirstSound(f) \in f.begin..End(f)
<1> DEFINE low == Most(f.begin, root.begin - DYNOVERLAP)
           S == {i \in low..(End(f) - 1) : At(f, i) # 0}
<1>1. f.begin \in Int /\ End(f) \in Int /\ f.begin <= End(f) /\ root.begin \in Int
  BY FieldsIs
<1>2. low \in Int /\ f.begin <= low
  BY <1>1, Stage2Assumption DEF Most
<1>3. FirstSound(f) = IF S = {} THEN End(f) ELSE Min(S)
  BY DEF FirstSound
<1> HIDE DEF low
<1>4. S \in SUBSET Int /\ \A x \in S : x \in low..(End(f) - 1) /\ low <= x
  BY <1>1, <1>2
<1>5. S # {} => Min(S) \in S
  <2> HIDE DEF S
  <2> QED BY <1>2, <1>4, MinIs
<1> HIDE DEF S
<1>6. S # {} => Min(S) \in f.begin..End(f)
  <2> HAVE S # {}
  <2>1. Min(S) \in low..(End(f) - 1)
    BY <1>4, <1>5
  <2> QED BY <1>1, <1>2, <2>1
<1>7. End(f) \in f.begin..End(f)
  BY <1>1
<1> QED BY <1>3, <1>6, <1>7, Zenon

(* The place that fits a post is in the fragment, and the samples are the  *)
(* same.                                                                   *)
LEMMA PlaceFoundIs ==
  ASSUME NEW f \in Fragment, root \in Root, NEW post, NEW i \in PlaceFound(f, post)
  PROVE  i \in f.begin..(End(f) - 1) /\ At(f, i) = At(root, post)
<1>1. CASE SamePlaceFits(f, post)
  <2>1. i = post
    BY <1>1 DEF PlaceFound
  <2> QED BY <1>1, <2>1 DEF SamePlaceFits
<1>2. CASE ~SamePlaceFits(f, post)
  <2>1. Fits(f, post) # {} /\ i = Min(Fits(f, post))
    BY <1>2 DEF PlaceFound
  <2>2. \A x \in Fits(f, post) : x \in FirstSound(f)..(WindowEnd(f) - 1) /\ At(f, x) = At(root, post)
    BY DEF Fits, PlacesFor
  <2>3. FirstSound(f) \in Int /\ f.begin <= FirstSound(f) /\ f.begin \in Int
    BY FirstSoundIs, FieldsIs
  <2>4. WindowEnd(f) \in Int /\ WindowEnd(f) <= End(f) /\ End(f) \in Int
    <3>1. End(root) \in Int /\ End(f) \in Int
      BY FieldsIs
    <3> QED BY <2>3, <3>1, Stage2Assumption DEF WindowEnd, Least
  <2>5. i \in Fits(f, post)
    <3>1. Fits(f, post) \in SUBSET Int /\ \A x \in Fits(f, post) : FirstSound(f) <= x
      BY <2>2, <2>3, <2>4
    <3> QED BY <2>1, <2>3, <3>1, MinIs
  <2> QED BY <2>2, <2>3, <2>4, <2>5
<1> QED BY <1>1, <1>2

(* What i_iterate_stage2 finds, as offsets.                                *)
LEMMA MatchFoundIs ==
  ASSUME NEW f \in Fragment, root \in Root, NEW m \in MatchFound(f)
  PROVE  /\ m[1] - root.begin \in 0..(Len(root.vec) - 1)
         /\ m[2] - f.begin \in 0..(Len(f.vec) - 1)
         /\ root.vec[m[1] - root.begin + 1] = f.vec[m[2] - f.begin + 1]
         /\ root.vec[m[1] - root.begin + 1] # 0
         /\ m[2] \in Int
<1> DEFINE from == Most(FirstSound(f) - DYNOVERLAP, root.begin)
<1>1. m \in UNION {{post} \X PlaceFound(f, post) : post \in FirstPost(f, from)}
  BY DEF MatchFound
<1> HIDE DEF from
<1>2. PICK post \in FirstPost(f, from) : m \in {post} \X PlaceFound(f, post)
  BY <1>1
<1>3. m[1] = post /\ m[2] \in PlaceFound(f, post)
  BY <1>2
<1>4. post \in root.begin..(End(root) - 1) /\ At(root, post) # 0
  BY DEF FirstPost
<1>5. m[2] \in f.begin..(End(f) - 1) /\ At(f, m[2]) = At(root, post)
  BY <1>3, PlaceFoundIs
<1>6. /\ f.begin \in Int /\ Len(f.vec) \in Nat /\ End(f) = f.begin + Len(f.vec)
      /\ root.begin \in Int /\ Len(root.vec) \in Nat /\ End(root) = root.begin + Len(root.vec)
  BY FieldsIs
<1>7. m[1] - root.begin \in 0..(Len(root.vec) - 1) /\ m[2] - f.begin \in 0..(Len(f.vec) - 1)
  <2>1. m[2] \in f.begin..(End(f) - 1)
    BY <1>5
  <2>2. post - root.begin \in 0..(Len(root.vec) - 1)
    BY <1>4, <1>6
  <2>3. m[2] - f.begin \in 0..(Len(f.vec) - 1)
    BY <1>6, <2>1
  <2> QED BY <1>3, <2>2, <2>3
<1>8. /\ root.vec[m[1] - root.begin + 1] = f.vec[m[2] - f.begin + 1]
      /\ root.vec[m[1] - root.begin + 1] # 0
  BY <1>3, <1>4, <1>5 DEF At
<1>9. m[2] \in Int
  BY <1>5, <1>6
<1> QED BY <1>7, <1>8, <1>9, Zenon

(* A merge begins with a run that agrees, unless a drift moved f.          *)
LEMMA BeginMergeShares ==
  ASSUME Typed, NEW f \in todo, NEW m \in MatchFound(f), NEW d \in Drifts, BeginMerge(f, m, d)
  PROVE  /\ run' \in Run /\ offset' \in Int /\ l' \in Vector /\ v' \in Fragment
         /\ run'.begin \in 0..Len(root.vec) /\ run'.end \in 0..Len(root.vec)
         /\ f \notin d.moved => Shared(root.vec, l', run', offset')
<1>1. f \in Fragment /\ root \in Root /\ f.vec \in Vector /\ root.vec \in Vector
  BY FieldsIs DEF Typed, FragmentsTyped, RootTyped
<1>2. /\ run' = RunAt(f, m[1], m[2]) /\ v' = Moved(f, d)
      /\ offset' = (m[2] - v'.begin) - (m[1] - root.begin)
      /\ l' = f.vec
  BY DEF BeginMerge
<1>3. /\ Moved(f, d) \in Fragment /\ Moved(f, d).begin \in Int /\ f.begin \in Int
      /\ f \notin d.moved => Moved(f, d) = f
  <2>1. d.by \in Int
    BY DriftIs DEF Typed, FragmentsTyped
  <2>2. Moved(f, d) \in Fragment /\ (f \notin d.moved => Moved(f, d) = f)
    BY <1>1, <2>1, MovedIs
  <2> QED BY <1>1, <2>2, FieldsIs
<1> DEFINE a == m[1] - root.begin
           b == m[2] - f.begin
<1>4. a \in 0..(Len(root.vec) - 1) /\ b \in 0..(Len(f.vec) - 1) /\ root.vec[a + 1] = f.vec[b + 1]
  BY <1>1, MatchFoundIs
<1>5. run' = Overlap(root.vec, f.vec, a, b)
  BY <1>2 DEF RunAt
<1>6. offset' = (m[2] - v'.begin) - a /\ (f \notin d.moved => offset' = b - a)
  BY <1>2, <1>3
<1>7. m[2] \in Int
  BY <1>1, MatchFoundIs
<1> HIDE DEF a, b
<1>8. Shared(root.vec, f.vec, Overlap(root.vec, f.vec, a, b), b - a)
  BY <1>1, <1>4, OverlapIs
<1>9. run' \in Run /\ run'.begin \in 0..Len(root.vec) /\ run'.end \in 0..Len(root.vec)
  BY <1>1, <1>4, <1>5, OverlapPlaced
<1>10. offset' \in Int
  <2>1. a \in Int /\ v'.begin \in Int
    BY <1>2, <1>3, <1>4
  <2> QED BY <1>6, <1>7, <2>1
<1> QED BY <1>1, <1>2, <1>3, <1>5, <1>6, <1>8, <1>9, <1>10

-----------------------------------------------------------------------------
(* Repairs.                                                                *)

(* No sample of r below the limit is another, elsewhere or gone in s.      *)
Spares(r, s, limit) == SameBelow(r, s, limit) /\ End(s) >= Least(End(r), limit)

(* An edit at an offset spares what is before it.                          *)
LEMMA EditSpares ==
  ASSUME NEW r \in Root, NEW s \in Root, NEW limit \in Int, s.begin = r.begin,
         NEW p \in 0..Len(s.vec), p <= Len(r.vec), limit <= r.begin + p,
         \A i \in 0..(p - 1) : s.vec[i + 1] = r.vec[i + 1]
  PROVE  Spares(r, s, limit)
<1>1. /\ r.begin \in Int /\ s.begin \in Int /\ End(r) \in Int /\ End(s) \in Int
      /\ End(s) = s.begin + Len(s.vec) /\ Len(s.vec) \in Nat
  BY FieldsIs
<1>2. End(s) >= Least(End(r), limit)
  BY <1>1 DEF Least
<1>3. ASSUME NEW pos \in Most(r.begin, s.begin)..(Least(Least(End(r), End(s)), limit) - 1)
      PROVE  At(r, pos) = At(s, pos)
  <2>1. pos \in r.begin..(limit - 1)
    BY <1>1 DEF Most, Least
  <2>2. pos - r.begin \in 0..(p - 1)
    BY <1>1, <2>1
  <2>3. s.vec[pos - r.begin + 1] = r.vec[pos - r.begin + 1]
    BY <2>2
  <2> QED BY <2>3 DEF At
<1> QED BY <1>2, <1>3 DEF Spares, SameBelow

(* So does no edit at all.                                                 *)
LEMMA SameSpares ==
  ASSUME NEW r \in Root, NEW limit \in Int
  PROVE  Spares(r, r, limit)
<1>1. End(r) \in Int
  BY FieldsIs
<1>2. End(r) >= Least(End(r), limit)
  BY <1>1 DEF Least
<1> QED BY <1>2 DEF Spares, SameBelow

(* k samples are put before the offset e of x, or those before it are      *)
(* removed; z is the outcome, p the place of the edit.                     *)
EditsBefore(x, e, k, b, z, p) ==
  /\ x \in Vector /\ e \in 0..(Len(x) - 1) /\ k \in Int /\ k # 0
  /\ k > 0 => b \in Vector /\ Len(b) = k /\ z = Insert(x, e, b) /\ p = e
  /\ k < 0 => -k <= e /\ z = Remove(x, e + k, -k) /\ p = e + k

(* The sample at e moves with them, those before the place do not.         *)
LEMMA EditBefore ==
  ASSUME NEW x, NEW e, NEW k, NEW b, NEW z, NEW p, EditsBefore(x, e, k, b, z, p)
  PROVE  /\ z \in Vector /\ e + k \in 0..(Len(z) - 1) /\ z[e + k + 1] = x[e + 1]
         /\ p \in 0..Len(z) /\ p <= Len(x)
         /\ \A i \in 0..(p - 1) : z[i + 1] = x[i + 1]
<1> USE DEF EditsBefore
<1>0. Len(x) \in Nat
  BY DEF Vector
<1>1. CASE k > 0
  <2>0. z = Insert(x, e, b)
    BY <1>1
  <2>1. /\ z \in Vector /\ Len(z) = Len(x) + Len(b)
        /\ \A i \in 0..(e - 1) : z[i + 1] = x[i + 1]
        /\ \A i \in e..(Len(x) - 1) : z[i + Len(b) + 1] = x[i + 1]
    <3>1. e \in 0..Len(x) /\ b \in Vector
      BY <1>0, <1>1
    <3> DEFINE y == Insert(x, e, b)
    <3>2. /\ y \in Vector /\ Len(y) = Len(x) + Len(b)
          /\ \A i \in 0..(e - 1) : y[i + 1] = x[i + 1]
          /\ \A i \in e..(Len(x) - 1) : y[i + Len(b) + 1] = x[i + 1]
      BY <3>1, InsertIs
    <3>3. z = y
      BY <2>0
    <3> HIDE DEF y
    <3> QED BY <3>2, <3>3
  <2>2. e \in e..(Len(x) - 1)
    OBVIOUS
  <2>3. z[e + k + 1] = x[e + 1]
    BY <1>1, <2>1, <2>2
  <2>4. p = e
    BY <1>1
  <2>5. e + k \in 0..(Len(z) - 1) /\ e \in 0..Len(z) /\ e <= Len(x)
    BY <1>0, <1>1, <2>1
  <2> QED BY <2>1, <2>3, <2>4, <2>5
<1>2. CASE ~(k > 0)
  <2> DEFINE n == -k
             pos == e + k
  <2>6. z = Remove(x, pos, n)
    BY <1>2
  <2>1. n \in Nat /\ pos \in 0..Len(x) /\ pos + n = e /\ k < 0
    BY <1>0, <1>2
  <2> HIDE DEF n, pos
  <2>2. /\ z \in Vector /\ Len(z) = Len(x) - n
        /\ \A i \in 0..(pos - 1) : z[i + 1] = x[i + 1]
        /\ \A i \in (pos + n)..(Len(x) - 1) : z[(i - n) + 1] = x[i + 1]
    <3>1. pos + n <= Len(x)
      BY <1>0, <2>1
    <3> DEFINE y == Remove(x, pos, n)
    <3>2. /\ y \in Vector /\ Len(y) = Len(x) - n
          /\ \A i \in 0..(pos - 1) : y[i + 1] = x[i + 1]
          /\ \A i \in (pos + n)..(Len(x) - 1) : y[(i - n) + 1] = x[i + 1]
      BY <2>1, <3>1, RemoveIs
    <3>3. z = y
      BY <2>6
    <3> HIDE DEF y
    <3> QED BY <3>2, <3>3
  <2>3. e \in (pos + n)..(Len(x) - 1) /\ e - n = pos
    BY <2>1
  <2>4. z[pos + 1] = x[e + 1]
    BY <2>2, <2>3
  <2>5. p = pos /\ e + k = pos
    BY <2>1 DEF pos
  <2>7. pos \in 0..(Len(z) - 1) /\ pos \in 0..Len(z) /\ pos <= Len(x)
    BY <1>0, <2>1, <2>2
  <2> QED BY <2>2, <2>4, <2>5, <2>7
<1> QED BY <1>1, <1>2

(* k samples are put at the offset e of x, or those from it on are removed. *)
EditsBehind(x, e, k, b, z) ==
  /\ x \in Vector /\ e \in 0..Len(x) /\ k \in Int /\ k # 0
  /\ k > 0 => b \in Vector /\ Len(b) = k /\ z = Insert(x, e, b)
  /\ k < 0 => -k <= Len(x) - e /\ z = Remove(x, e, -k)

(* The samples before the place do not move.                               *)
LEMMA EditBehind ==
  ASSUME NEW x, NEW e, NEW k, NEW b, NEW z, EditsBehind(x, e, k, b, z)
  PROVE  /\ z \in Vector /\ e \in 0..Len(z) /\ Len(z) = Len(x) + k
         /\ \A i \in 0..(e - 1) : z[i + 1] = x[i + 1]
<1> USE DEF EditsBehind
<1>0. Len(x) \in Nat
  BY DEF Vector
<1>1. CASE k > 0
  <2>0. z = Insert(x, e, b)
    BY <1>1
  <2>1. /\ z \in Vector /\ Len(z) = Len(x) + Len(b)
        /\ \A i \in 0..(e - 1) : z[i + 1] = x[i + 1]
    <3>1. b \in Vector
      BY <1>1
    <3> DEFINE y == Insert(x, e, b)
    <3>2. /\ y \in Vector /\ Len(y) = Len(x) + Len(b)
          /\ \A i \in 0..(e - 1) : y[i + 1] = x[i + 1]
      BY <3>1, InsertIs
    <3>3. z = y
      BY <2>0
    <3> HIDE DEF y
    <3> QED BY <3>2, <3>3
  <2>3. e \in 0..Len(z) /\ Len(z) = Len(x) + k
    BY <1>0, <1>1, <2>1
  <2> QED BY <2>1, <2>3
<1>2. CASE ~(k > 0)
  <2> DEFINE n == -k
  <2>1. n \in Nat /\ e + n <= Len(x) /\ k \in Int /\ k = -n
    BY <1>0, <1>2
  <2>2. z = Remove(x, e, n)
    BY <1>2
  <2> HIDE DEF n
  <2>3. /\ z \in Vector /\ Len(z) = Len(x) - n
        /\ \A i \in 0..(e - 1) : z[i + 1] = x[i + 1]
    <3> DEFINE y == Remove(x, e, n)
    <3>1. /\ y \in Vector /\ Len(y) = Len(x) - n
          /\ \A i \in 0..(e - 1) : y[i + 1] = x[i + 1]
      BY <2>1, RemoveIs
    <3>3. z = y
      BY <2>2
    <3> HIDE DEF y
    <3> QED BY <3>1, <3>3
  <2>4. e \in 0..Len(z) /\ Len(z) = Len(x) + k
    BY <1>0, <2>1, <2>3
  <2> QED BY <2>3, <2>4
<1> QED BY <1>1, <1>2

(* The edge of a repaired rift, extended, if both vectors hold it.         *)
LEMMA ExtendedLined ==
  ASSUME NEW A \in Vector, NEW B \in Vector, NEW edge \in 0..(Len(A) - 1), NEW off \in Int,
         edge + off \in 0..(Len(B) - 1), upset # "moved" => A[edge + 1] = B[edge + off + 1]
  PROVE  Lined(A, B, Extended(A, B, edge, off), off)
<1> DEFINE r == Extended(A, B, edge, off)
<1>1. r \in Run /\ r.begin \in 0..Len(A) /\ r.end \in 0..Len(A)
  <2> DEFINE b == edge + off
  <2>1. r = Overlap(A, B, edge, b) /\ b \in 0..(Len(B) - 1)
    BY DEF Extended
  <2> HIDE DEF b, r
  <2> QED BY <2>1, OverlapPlaced
<1>2. upset # "moved" => Shared(A, B, r, off)
  BY ExtendedIs
<1> HIDE DEF r
<1>3. Lined(A, B, r, off)
  BY <1>1, <1>2 DEF Lined
<1> QED BY <1>3 DEF r

(* After a repair root and fragment agree where the run now is, and what   *)
(* was returned is spared.                                                 *)
Repaired ==
  /\ root' \in Root /\ l' \in Vector /\ run' \in Run /\ offset' \in Int
  /\ Lined(root'.vec, l', run', offset')
  /\ Spares(root, root', returnedlimit)

(* What holds at a leading rift.                                           *)
LEMMA AtLeadingRift ==
  ASSUME RunInv, NEW m \in LeadingRifts, EdgesHeld(0, 0)
  PROVE  /\ root \in Root /\ root.vec \in Vector /\ Len(root.vec) \in Nat /\ root.begin \in Int
         /\ l \in Vector /\ Len(l) \in Nat /\ returnedlimit \in Int
         /\ run \in Run /\ run.begin \in Int /\ offset \in Int /\ beginL \in Int
         /\ beginL = run.begin + offset
         /\ run.begin \in 0..(Len(root.vec) - 1) /\ beginL \in 0..(Len(l) - 1)
         /\ upset # "moved" => root.vec[run.begin + 1] = l[beginL + 1]
         /\ m.a \in Int /\ m.b \in Int /\ m.c \in Int
         /\ Within(m, run.begin, beginL)
<1>1. /\ root \in Root /\ root.vec \in Vector /\ Len(root.vec) \in Nat /\ root.begin \in Int
      /\ l \in Vector /\ Len(l) \in Nat /\ returnedlimit \in Int
      /\ run \in Run /\ offset \in Int
  <2>1. root \in Root /\ returnedlimit \in Int /\ l \in Vector /\ run \in Run /\ offset \in Int
    BY DEF RunInv, Typed, RootTyped, MergeTyped
  <2> QED BY <2>1, FieldsIs DEF Vector
<1>2. LeadingRift /\ run.begin > 0 /\ beginL > 0 /\ m \in Analyze_r(root.vec, l, run.begin - 1, beginL - 1)
  BY DEF LeadingRifts, LeadingRift
<1>3. Lined(root.vec, l, run, offset)
  BY <1>2 DEF RunInv, RunShared, Merging, LeadingRift
<1>4. run.begin \in Int /\ run.end \in Int /\ beginL \in Int /\ beginL = run.begin + offset
  BY <1>1 DEF Run, beginL
<1>6. run.begin \in 0..(Len(root.vec) - 1) /\ beginL \in 0..(Len(l) - 1)
  <2>1. run.begin < Len(root.vec) + 0 /\ beginL < Len(l) + 0
    BY DEF EdgesHeld
  <2> QED BY <1>1, <1>2, <1>4, <2>1
<1>7. upset # "moved" => root.vec[run.begin + 1] = l[beginL + 1]
  <2> HAVE upset # "moved"
  <2>0. Shared(root.vec, l, run, offset)
    BY <1>3 DEF Lined
  <2>1. run.begin \in run.begin..(run.end - 1)
    BY <1>4, <2>0 DEF Shared
  <2>2. root.vec[run.begin + 1] = l[run.begin + offset + 1]
    BY <2>0, <2>1 DEF Shared
  <2> QED BY <1>4, <2>2
<1>8. Within(m, run.begin, beginL)
  <2> DEFINE a == run.begin - 1
             b == beginL - 1
  <2>1. /\ a \in 0..(Len(root.vec) - 1) /\ b \in 0..(Len(l) - 1)
        /\ a + 1 = run.begin /\ b + 1 = beginL
    BY <1>1, <1>2, <1>6
  <2>2. m \in Analyze_r(root.vec, l, a, b)
    BY <1>2
  <2> HIDE DEF a, b
  <2>3. Within(m, a + 1, b + 1)
    BY <1>1, <2>1, <2>2, LeadingRiftIs
  <2> QED BY <2>1, <2>3
<1>9. m.a \in Int /\ m.b \in Int /\ m.c \in Int
  BY <1>8 DEF Within
<1> QED BY <1>1, <1>4, <1>6, <1>7, <1>8, <1>9

(* The root is repaired by samples of the fragment, or some of its own are *)
(* removed.                                                                *)
LEMMA LeadingInRootRepairs ==
  ASSUME RunInv, NEW m, LeadingInRoot(m)
  PROVE  Repaired
<1>1. /\ m \in LeadingRifts /\ EdgesHeld(0, 0) /\ m.a # 0
      /\ EdgePosition + Least(m.a, 0) >= returnedlimit
      /\ root' = [root EXCEPT !.vec =
                 IF m.a > 0 THEN Insert(@, run.begin, Piece(l, beginL - m.a, beginL))
                 ELSE Remove(@, run.begin + m.a, -m.a)]
      /\ offset' = offset - m.a
      /\ run' = Extended(root'.vec, l, run.begin + m.a, offset')
      /\ UNCHANGED <<returnedlimit, l>>
  BY DEF LeadingInRoot
<1> DEFINE x == root.vec
           e == run.begin
           k == m.a
           b == Piece(l, beginL - k, beginL)
           z == IF k > 0 THEN Insert(x, e, b) ELSE Remove(x, e + k, -k)
           p == e + Least(k, 0)
<1>2. /\ root \in Root /\ x \in Vector /\ Len(x) \in Nat /\ root.begin \in Int
      /\ l \in Vector /\ Len(l) \in Nat /\ returnedlimit \in Int
      /\ e \in Int /\ offset \in Int /\ beginL \in Int /\ beginL = e + offset
      /\ e \in 0..(Len(x) - 1) /\ beginL \in 0..(Len(l) - 1)
      /\ k \in Int
      /\ upset # "moved" => x[e + 1] = l[beginL + 1]
  BY <1>1, AtLeadingRift
<1>3. /\ k > 0 => k <= beginL
      /\ k < 0 => -k <= e
  BY <1>1, AtLeadingRift DEF Within
<1> HIDE DEF x, e, k
<1>4. k > 0 => b \in Vector /\ Len(b) = k
  <2> HAVE k > 0
  <2> DEFINE from == beginL - k
  <2>1. from \in 0..Len(l) /\ beginL \in from..Len(l) /\ beginL - from = k
    BY <1>2, <1>3
  <2> HIDE DEF from
  <2>2. Piece(l, from, beginL) \in Vector /\ Len(Piece(l, from, beginL)) = beginL - from
    BY <1>2, <2>1, PieceIs
  <2> QED BY <2>1, <2>2 DEF from
<1>5. root' = [root EXCEPT !.vec = z]
  BY <1>1 DEF x, e, k
<1>6. k # 0 /\ root.begin + p >= returnedlimit
  <2>1. EdgePosition + Least(k, 0) = root.begin + p
    BY <1>2 DEF EdgePosition, Least, e
  <2> QED BY <1>1, <2>1 DEF k
<1>7. run' = Extended(root'.vec, l, e + k, offset - k)
  BY <1>1 DEF e, k
<1> HIDE DEF b
<1>a. /\ k > 0 => z = Insert(x, e, b) /\ p = e
      /\ k < 0 => z = Remove(x, e + k, -k) /\ p = e + k
  BY <1>2 DEF Least
<1> HIDE DEF z, p
<1>8. /\ z \in Vector /\ e + k \in 0..(Len(z) - 1) /\ z[e + k + 1] = x[e + 1]
      /\ p \in 0..Len(z) /\ p <= Len(x)
      /\ \A i \in 0..(p - 1) : z[i + 1] = x[i + 1]
  <2>1. EditsBefore(x, e, k, b, z, p)
    BY <1>a, <1>2, <1>3, <1>4, <1>6 DEF EditsBefore
  <2> QED BY <2>1, EditBefore
<1>9. root' \in Root /\ root'.begin = root.begin /\ root'.vec = z
  BY <1>2, <1>5, <1>8, EditedIs
<1> DEFINE edge == e + k
           off == offset - k
<1>10. edge + off = beginL /\ off \in Int
  BY <1>2
<1>11. Lined(z, l, Extended(z, l, edge, off), off)
  <2>1. /\ edge \in 0..(Len(z) - 1) /\ edge + off \in 0..(Len(l) - 1)
        /\ upset # "moved" => z[edge + 1] = l[edge + off + 1]
    BY <1>2, <1>8, <1>10
  <2> HIDE DEF edge, off
  <2> QED BY <1>2, <1>8, <1>10, <2>1, ExtendedLined
<1>12. Spares(root, root', returnedlimit)
  <2>1. p \in 0..Len(root'.vec) /\ p <= Len(root.vec) /\ returnedlimit <= root.begin + p
    BY <1>2, <1>6, <1>8, <1>9 DEF x
  <2>2. \A i \in 0..(p - 1) : root'.vec[i + 1] = root.vec[i + 1]
    BY <1>8, <1>9 DEF x
  <2> QED BY <1>2, <1>9, <2>1, <2>2, EditSpares
<1>13. offset' = off /\ run' = Extended(z, l, edge, off) /\ l' = l
  BY <1>1, <1>7, <1>9 DEF k
<1> HIDE DEF edge, off
<1> QED BY <1>2, <1>9, <1>10, <1>11, <1>12, <1>13 DEF Repaired, Lined

(* The samples before an offset, and those from it on.                     *)
LEMMA PieceAround ==
  ASSUME NEW x \in Vector, NEW e \in 0..Len(x), NEW k \in Int, k > 0
  PROVE  /\ k <= e => Piece(x, e - k, e) \in Vector /\ Len(Piece(x, e - k, e)) = k
         /\ k <= Len(x) - e => Piece(x, e, e + k) \in Vector /\ Len(Piece(x, e, e + k)) = k
<1>0. Len(x) \in Nat
  BY DEF Vector
<1>1. ASSUME k <= e PROVE Piece(x, e - k, e) \in Vector /\ Len(Piece(x, e - k, e)) = k
  <2> DEFINE from == e - k
  <2>1. from \in 0..Len(x) /\ e \in from..Len(x) /\ e - from = k
    BY <1>0, <1>1
  <2> HIDE DEF from
  <2>2. Piece(x, from, e) \in Vector /\ Len(Piece(x, from, e)) = e - from
    BY <2>1, PieceIs
  <2> QED BY <2>1, <2>2 DEF from
<1>2. ASSUME k <= Len(x) - e PROVE Piece(x, e, e + k) \in Vector /\ Len(Piece(x, e, e + k)) = k
  <2> DEFINE to == e + k
  <2>1. to \in e..Len(x) /\ to - e = k
    BY <1>0, <1>2
  <2> HIDE DEF to
  <2>2. Piece(x, e, to) \in Vector /\ Len(Piece(x, e, to)) = to - e
    BY <2>1, PieceIs
  <2> QED BY <2>1, <2>2 DEF to
<1> QED BY <1>1, <1>2

(* The fragment is repaired by samples of the root, or some of its own are *)
(* removed: no sample of the root changes.                                 *)
LEMMA LeadingInFragmentRepairs ==
  ASSUME RunInv, NEW m, LeadingInFragment(m)
  PROVE  Repaired
<1>1. /\ m \in LeadingRifts /\ EdgesHeld(0, 0) /\ m.b # 0
      /\ l' = IF m.b > 0
                THEN Insert(l, beginL, Piece(root.vec, run.begin - m.b, run.begin))
                ELSE Remove(l, beginL + m.b, -m.b)
      /\ offset' = offset + m.b
      /\ run' = Extended(root.vec, l', run.begin, offset')
      /\ root' = root
  BY DEF LeadingInFragment, rootVars
<1> DEFINE x == root.vec
           e == run.begin
           k == m.b
           b == Piece(x, e - k, e)
           z == l'
           p == beginL + Least(k, 0)
           off == offset + k
<1>2. /\ root \in Root /\ x \in Vector /\ Len(x) \in Nat
      /\ l \in Vector /\ Len(l) \in Nat /\ returnedlimit \in Int
      /\ e \in Int /\ offset \in Int /\ beginL \in Int /\ beginL = e + offset
      /\ e \in 0..(Len(x) - 1) /\ beginL \in 0..(Len(l) - 1)
      /\ k \in Int
      /\ upset # "moved" => x[e + 1] = l[beginL + 1]
  BY <1>1, AtLeadingRift
<1>3. /\ k > 0 => k <= e
      /\ k < 0 => -k <= beginL
      /\ k # 0
  BY <1>1, AtLeadingRift DEF Within
<1>4. /\ k > 0 => z = Insert(l, beginL, b) /\ p = beginL
      /\ k < 0 => z = Remove(l, beginL + k, -k) /\ p = beginL + k
  BY <1>1, <1>2 DEF Least
<1>5. run' = Extended(x, z, e, off) /\ offset' = off
  BY <1>1
<1> HIDE DEF x, e, k, z, p
<1>6. k > 0 => b \in Vector /\ Len(b) = k
  <2>1. e \in 0..Len(x)
    BY <1>2
  <2> QED BY <1>2, <1>3, <2>1, PieceAround
<1> HIDE DEF b
<1>7. EditsBefore(l, beginL, k, b, z, p)
  BY <1>2, <1>3, <1>4, <1>6 DEF EditsBefore
<1>8. z \in Vector /\ beginL + k \in 0..(Len(z) - 1) /\ z[beginL + k + 1] = l[beginL + 1]
  BY <1>7, EditBefore
<1>9. e + off = beginL + k /\ off \in Int
  BY <1>2
<1> HIDE DEF off
<1>10. Lined(x, z, Extended(x, z, e, off), off)
  <2>1. /\ e + off \in 0..(Len(z) - 1)
        /\ upset # "moved" => x[e + 1] = z[e + off + 1]
    BY <1>2, <1>8, <1>9
  <2> QED BY <1>2, <1>8, <1>9, <2>1, ExtendedLined
<1>11. Spares(root, root', returnedlimit)
  BY <1>1, <1>2, SameSpares
<1> QED BY <1>1, <1>2, <1>5, <1>8, <1>9, <1>10, <1>11 DEF Repaired, Lined, x, z

(* Samples of the root are overwritten by those of the fragment.           *)
LEMMA LeadingGarbageRepairs ==
  ASSUME RunInv, NEW m, LeadingGarbage(m)
  PROVE  Repaired
<1>1. /\ m \in LeadingRifts /\ EdgesHeld(0, 0) /\ m.c # 0
      /\ EdgePosition - m.c >= returnedlimit
      /\ root' = [root EXCEPT !.vec =
                 Overwrite(@, run.begin - m.c, Piece(l, beginL - m.c, beginL))]
      /\ run' = Extended(root'.vec, l, run.begin, offset)
      /\ l' = l /\ offset' = offset
  BY DEF LeadingGarbage
<1> DEFINE x == root.vec
           e == run.begin
           k == m.c
           b == Piece(l, beginL - k, beginL)
           p == e - k
           z == Overwrite(x, p, b)
<1>2. /\ root \in Root /\ x \in Vector /\ Len(x) \in Nat /\ root.begin \in Int
      /\ l \in Vector /\ Len(l) \in Nat /\ returnedlimit \in Int
      /\ e \in Int /\ offset \in Int /\ beginL \in Int /\ beginL = e + offset
      /\ e \in 0..(Len(x) - 1) /\ beginL \in 0..(Len(l) - 1)
      /\ k \in Int
      /\ upset # "moved" => x[e + 1] = l[beginL + 1]
  BY <1>1, AtLeadingRift
<1>3. k > 0 /\ k <= e /\ k <= beginL
  BY <1>1, AtLeadingRift DEF Within
<1>4. root' = [root EXCEPT !.vec = z] /\ run' = Extended(root'.vec, l, e, offset)
  BY <1>1
<1>5. root.begin + p >= returnedlimit
  BY <1>1, <1>2 DEF EdgePosition
<1> HIDE DEF x, e, k
<1>6. b \in Vector /\ Len(b) = k
  <2>1. beginL \in 0..Len(l)
    BY <1>2
  <2> QED BY <1>2, <1>3, <2>1, PieceAround
<1> HIDE DEF b
<1>7. p \in Int /\ p \in 0..Len(x) /\ p + k = e
  BY <1>2, <1>3
<1> HIDE DEF p
<1>8. /\ z \in Vector /\ Len(z) = Len(x)
      /\ \A i \in 0..(Len(x) - 1) : i < p \/ p + Len(b) <= i => z[i + 1] = x[i + 1]
  <2>1. x \in Vector /\ b \in Vector /\ p \in Int
    BY <1>2, <1>6, <1>7
  <2> QED BY <2>1, OverwriteIs
<1> HIDE DEF z
<1>9. root' \in Root /\ root'.begin = root.begin /\ root'.vec = z
  BY <1>2, <1>4, <1>8, EditedIs
<1>10. z[e + 1] = x[e + 1]
  BY <1>2, <1>6, <1>7, <1>8
<1>11. Lined(z, l, Extended(z, l, e, offset), offset)
  <2>1. /\ e \in 0..(Len(z) - 1) /\ e + offset \in 0..(Len(l) - 1)
        /\ upset # "moved" => z[e + 1] = l[e + offset + 1]
    BY <1>2, <1>8, <1>10
  <2> QED BY <1>2, <1>8, <2>1, ExtendedLined
<1>12. Spares(root, root', returnedlimit)
  <2>1. p \in 0..Len(root'.vec) /\ p <= Len(root.vec) /\ returnedlimit <= root.begin + p
    BY <1>2, <1>5, <1>7, <1>8, <1>9 DEF x
  <2>2. ASSUME NEW i \in 0..(p - 1) PROVE z[i + 1] = x[i + 1]
    <3>1. i \in 0..(Len(x) - 1) /\ i < p
      BY <1>2, <1>7
    <3> QED BY <1>8, <3>1
  <2>3. \A i \in 0..(p - 1) : root'.vec[i + 1] = root.vec[i + 1]
    BY <1>9, <2>2 DEF x
  <2> QED BY <1>2, <1>9, <2>1, <2>3, EditSpares
<1>13. run' = Extended(z, l, e, offset)
  BY <1>4, <1>9
<1> QED BY <1>1, <1>2, <1>9, <1>11, <1>12, <1>13 DEF Repaired, Lined

(* The run that is extended from its beginning.                            *)
LEMMA ReachesIs ==
  ASSUME NEW A \in Vector, NEW B \in Vector, run \in Run, offset \in Int,
         run.begin \in 0..(Len(A) - 1), run.begin + offset \in 0..(Len(B) - 1),
         A[run.begin + 1] = B[run.begin + offset + 1]
  PROVE  Shared(A, B, Reaches(A, B), offset)
<1> DEFINE e == run.begin
           x == Extended(A, B, e, offset)
<1>1. Shared(A, B, x, offset) /\ x.begin <= e /\ e < x.end
  <2> HIDE DEF e
  <2>1. e \in 0..(Len(A) - 1) /\ e + offset \in 0..(Len(B) - 1) /\ A[e + 1] = B[e + offset + 1]
    BY DEF e
  <2> QED BY <2>1, ExtendedIs
<1>2. Reaches(A, B) = [run EXCEPT !.end = x.end]
  BY DEF Reaches
<1> HIDE DEF x
<1>3. x \in Run /\ 0 <= run.begin /\ 0 <= run.begin + offset
  BY <1>1 DEF Shared
<1> QED BY <1>1, <1>2, <1>3, ReachedIs

(* So it ends in the root, if both vectors hold the beginning.             *)
LEMMA ReachesLined ==
  ASSUME NEW A \in Vector, NEW B \in Vector, run \in Run, offset \in Int,
         run.begin \in 0..(Len(A) - 1), run.begin + offset \in 0..(Len(B) - 1),
         upset # "moved" => A[run.begin + 1] = B[run.begin + offset + 1]
  PROVE  Lined(A, B, Reaches(A, B), offset)
<1> DEFINE e == run.begin
           x == Extended(A, B, e, offset)
           y == Reaches(A, B)
<1>1. x \in Run /\ x.end \in 0..Len(A)
  <2> HIDE DEF e
  <2>1. e \in 0..(Len(A) - 1) /\ e + offset \in 0..(Len(B) - 1)
        /\ (upset # "moved" => A[e + 1] = B[e + offset + 1])
    BY DEF e
  <2> QED BY <2>1, ExtendedLined DEF Lined
<1>2. y = [run EXCEPT !.end = x.end]
  BY DEF Reaches
<1>3. x.end \in Int /\ run.begin \in 0..Len(A)
  BY <1>1 DEF Run, Vector
<1> HIDE DEF x
<1>4. y \in Run /\ y.begin = run.begin /\ y.end = x.end
  BY <1>2, <1>3 DEF Run
<1>5. upset # "moved" => Shared(A, B, y, offset)
  BY ReachesIs
<1> HIDE DEF y
<1>6. Lined(A, B, y, offset)
  BY <1>1, <1>3, <1>4, <1>5 DEF Lined
<1> QED BY <1>6 DEF y

(* What holds at a trailing rift.                                          *)
LEMMA AtTrailingRift ==
  ASSUME RunInv, NEW m \in TrailingRifts
  PROVE  /\ root \in Root /\ root.vec \in Vector /\ Len(root.vec) \in Nat /\ root.begin \in Int
         /\ l \in Vector /\ Len(l) \in Nat /\ returnedlimit \in Int
         /\ run \in Run /\ run.begin \in Int /\ run.end \in Int /\ offset \in Int /\ endL \in Int
         /\ endL = run.end + offset
         /\ run.end \in 0..(Len(root.vec) - 1) /\ endL \in 0..(Len(l) - 1)
         /\ 0 <= run.begin /\ beginL = run.begin + offset
         /\ upset # "moved" => /\ run.begin < run.end
                               /\ root.vec[run.begin + 1] = l[run.begin + offset + 1]
         /\ m.a \in Int /\ m.b \in Int /\ m.c \in Int
         /\ Within(m, Len(root.vec) - run.end, Len(l) - endL)
<1>1. /\ root \in Root /\ root.vec \in Vector /\ Len(root.vec) \in Nat /\ root.begin \in Int
      /\ l \in Vector /\ Len(l) \in Nat /\ returnedlimit \in Int
      /\ run \in Run /\ offset \in Int
  <2>1. root \in Root /\ returnedlimit \in Int /\ l \in Vector /\ run \in Run /\ offset \in Int
    BY DEF RunInv, Typed, RootTyped, MergeTyped
  <2> QED BY <2>1, FieldsIs DEF Vector
<1>2. /\ TrailingRift /\ run.end < Len(root.vec) /\ endL < Len(l) /\ 0 <= endL
      /\ m \in Analyze_f(root.vec, l, run.end, endL)
  BY DEF TrailingRifts, TrailingRift, TrailingRead
<1>3. Lined(root.vec, l, run, offset)
  BY <1>2 DEF RunInv, RunShared, Merging, TrailingRift
<1>4. run.begin \in Int /\ run.end \in Int /\ endL \in Int /\ endL = run.end + offset
  BY <1>1 DEF Run, endL
<1>5. 0 <= run.begin /\ 0 <= run.end /\ beginL = run.begin + offset
  BY <1>1, <1>3 DEF Lined, beginL
<1>6. run.end \in 0..(Len(root.vec) - 1) /\ endL \in 0..(Len(l) - 1)
  BY <1>1, <1>2, <1>4, <1>5
<1>7. upset # "moved" => /\ run.begin < run.end
                         /\ root.vec[run.begin + 1] = l[run.begin + offset + 1]
  <2> HAVE upset # "moved"
  <2>0. Shared(root.vec, l, run, offset)
    BY <1>3 DEF Lined
  <2>1. run.begin \in run.begin..(run.end - 1)
    BY <1>4, <2>0 DEF Shared
  <2> QED BY <2>0, <2>1 DEF Shared
<1>8. Within(m, Len(root.vec) - run.end, Len(l) - endL)
  <2>1. m \in Analyze_f(root.vec, l, run.end, endL)
    BY <1>2
  <2> QED BY <1>1, <1>6, <2>1, TrailingRiftIs
<1>9. m.a \in Int /\ m.b \in Int /\ m.c \in Int
  BY <1>8 DEF Within
<1> QED BY <1>1, <1>4, <1>5, <1>6, <1>7, <1>8, <1>9

(* The root after an edit at the end of the run.                           *)
LEMMA TrailingEditRepairs ==
  ASSUME RunInv, NEW m \in TrailingRifts, ~EndReturned,
         NEW z \in Vector, Len(z) \in Nat, run.end <= Len(z), run.begin < Len(z),
         0 <= beginL, beginL < Len(l),
         \A i \in 0..(run.end - 1) : z[i + 1] = root.vec[i + 1],
         root' = [root EXCEPT !.vec = z], run' = Reaches(root'.vec, l), UNCHANGED <<l, offset>>
  PROVE  Repaired
<1>1. /\ root \in Root /\ root.vec \in Vector /\ Len(root.vec) \in Nat /\ root.begin \in Int
      /\ l \in Vector /\ Len(l) \in Nat /\ returnedlimit \in Int
      /\ run \in Run /\ run.begin \in Int /\ run.end \in Int /\ offset \in Int /\ endL \in Int
      /\ endL = run.end + offset
      /\ run.end \in 0..(Len(root.vec) - 1) /\ endL \in 0..(Len(l) - 1)
      /\ 0 <= run.begin /\ beginL = run.begin + offset
      /\ upset # "moved" => /\ run.begin < run.end
                            /\ root.vec[run.begin + 1] = l[run.begin + offset + 1]
  BY AtTrailingRift
<1>2. root' \in Root /\ root'.begin = root.begin /\ root'.vec = z
  BY <1>1, EditedIs
<1>3. Lined(z, l, Reaches(z, l), offset)
  <2>1. run.begin \in 0..(Len(z) - 1) /\ run.begin + offset \in 0..(Len(l) - 1)
    BY <1>1
  <2>2. upset # "moved" => run.begin \in 0..(run.end - 1)
    BY <1>1
  <2>3. upset # "moved" => z[run.begin + 1] = l[run.begin + offset + 1]
    BY <1>1, <2>2
  <2> QED BY <1>1, <2>1, <2>3, ReachesLined
<1>4. returnedlimit <= root.begin + run.end
  BY <1>1 DEF EndReturned, EndPosition
<1>5. Spares(root, root', returnedlimit)
  <2> DEFINE p == run.end
  <2>1. /\ p \in 0..Len(root'.vec) /\ p <= Len(root.vec) /\ returnedlimit <= root.begin + p
        /\ \A i \in 0..(p - 1) : root'.vec[i + 1] = root.vec[i + 1]
    BY <1>1, <1>2, <1>4
  <2> HIDE DEF p
  <2> QED BY <1>1, <1>2, <2>1, EditSpares
<1> QED BY <1>1, <1>2, <1>3, <1>5 DEF Repaired, Lined

(* Samples of the fragment are put into the root, or some are removed.     *)
LEMMA TrailingInRootRepairs ==
  ASSUME RunInv, NEW m, TrailingInRoot(m)
  PROVE  Repaired
<1>1. /\ m \in TrailingRifts /\ EdgesHeld(m.a, m.b) /\ m.a # 0 /\ ~EndReturned
      /\ root' = [root EXCEPT !.vec =
                 IF m.a > 0 THEN Insert(@, run.end, Piece(l, endL, endL + m.a))
                 ELSE Remove(@, run.end, -m.a)]
      /\ run' = Reaches(root'.vec, l)
      /\ UNCHANGED <<l, offset>>
  BY DEF TrailingInRoot
<1> DEFINE x == root.vec
           e == run.end
           k == m.a
           b == Piece(l, endL, endL + k)
           z == IF k > 0 THEN Insert(x, e, b) ELSE Remove(x, e, -k)
<1>2. /\ x \in Vector /\ Len(x) \in Nat /\ l \in Vector /\ Len(l) \in Nat
      /\ e \in 0..(Len(x) - 1) /\ endL \in 0..(Len(l) - 1) /\ k \in Int /\ k # 0
      /\ k > 0 => k <= Len(l) - endL
      /\ k < 0 => -k <= Len(x) - e
      /\ m.b = 0 /\ run.begin \in Int /\ beginL \in Int
  BY <1>1, AtTrailingRift DEF Within, beginL
<1>11. run.begin < Len(x) + k /\ 0 <= beginL /\ beginL < Len(l)
  <2>1. run.begin < Len(x) + k /\ 0 <= beginL /\ beginL < Len(l) + m.b
    BY <1>1 DEF EdgesHeld
  <2> QED BY <1>2, <2>1
<1>3. root' = [root EXCEPT !.vec = z]
  BY <1>1
<1> HIDE DEF x, e, k
<1>4. k > 0 => b \in Vector /\ Len(b) = k
  <2>1. endL \in 0..Len(l)
    BY <1>2
  <2> QED BY <1>2, <2>1, PieceAround
<1> HIDE DEF b
<1>5. k > 0 => z = Insert(x, e, b)
  OBVIOUS
<1>6. k < 0 => z = Remove(x, e, -k)
  BY <1>2
<1> HIDE DEF z
<1>7. EditsBehind(x, e, k, b, z)
  BY <1>2, <1>4, <1>5, <1>6 DEF EditsBehind
<1>8. z \in Vector /\ e \in 0..Len(z) /\ Len(z) = Len(x) + k /\ \A i \in 0..(e - 1) : z[i + 1] = x[i + 1]
  BY <1>7, EditBehind
<1>9. Len(z) \in Nat /\ run.end <= Len(z) /\ run.begin < Len(z)
  BY <1>8, <1>11 DEF Vector, e
<1>10. \A i \in 0..(run.end - 1) : z[i + 1] = root.vec[i + 1]
  BY <1>8 DEF e, x
<1> QED BY <1>1, <1>3, <1>8, <1>9, <1>10, <1>11, TrailingEditRepairs

(* Samples of the root are overwritten by those of the fragment.           *)
LEMMA TrailingGarbageRepairs ==
  ASSUME RunInv, NEW m, TrailingGarbage(m)
  PROVE  Repaired
<1>1. /\ m \in TrailingRifts /\ EdgesHeld(m.a, m.b) /\ m.c # 0 /\ ~EndReturned
      /\ root' = [root EXCEPT !.vec = Overwrite(@, run.end, Piece(l, endL, endL + m.c))]
      /\ run' = Reaches(root'.vec, l)
      /\ UNCHANGED <<l, offset>>
  BY DEF TrailingGarbage
<1> DEFINE x == root.vec
           e == run.end
           k == m.c
           b == Piece(l, endL, endL + k)
           z == Overwrite(x, e, b)
<1>2. /\ x \in Vector /\ Len(x) \in Nat /\ l \in Vector /\ Len(l) \in Nat
      /\ e \in 0..(Len(x) - 1) /\ endL \in 0..(Len(l) - 1) /\ k \in Int
      /\ k > 0 /\ k <= Len(l) - endL
      /\ m.a = 0 /\ m.b = 0 /\ run.begin \in Int /\ beginL \in Int
  BY <1>1, AtTrailingRift DEF Within, beginL
<1>9. run.begin < Len(x) /\ 0 <= beginL /\ beginL < Len(l)
  <2>1. run.begin < Len(x) + m.a /\ 0 <= beginL /\ beginL < Len(l) + m.b
    BY <1>1 DEF EdgesHeld
  <2> QED BY <1>2, <2>1
<1>3. root' = [root EXCEPT !.vec = z]
  BY <1>1
<1> HIDE DEF x, e, k
<1>4. b \in Vector
  <2>1. endL \in 0..Len(l)
    BY <1>2
  <2> QED BY <1>2, <2>1, PieceAround
<1> HIDE DEF b
<1>5. /\ z \in Vector /\ Len(z) = Len(x)
      /\ \A i \in 0..(Len(x) - 1) : i < e \/ e + Len(b) <= i => z[i + 1] = x[i + 1]
  <2>1. x \in Vector /\ b \in Vector /\ e \in Int
    BY <1>2, <1>4
  <2> QED BY <2>1, OverwriteIs
<1> HIDE DEF z
<1>6. ASSUME NEW i \in 0..(e - 1) PROVE z[i + 1] = x[i + 1]
  <2>1. i \in 0..(Len(x) - 1) /\ i < e
    BY <1>2
  <2> QED BY <1>5, <2>1
<1>7. Len(z) \in Nat /\ run.end <= Len(z) /\ run.begin < Len(z)
  BY <1>2, <1>5, <1>9 DEF e
<1>8. \A i \in 0..(run.end - 1) : z[i + 1] = root.vec[i + 1]
  BY <1>6 DEF e, x
<1> QED BY <1>1, <1>3, <1>5, <1>7, <1>8, <1>9, TrailingEditRepairs

(* The fragment is repaired by samples of the root, or some are removed.   *)
LEMMA TrailingInFragmentRepairs ==
  ASSUME RunInv, NEW m, TrailingInFragment(m)
  PROVE  Repaired
<1>1. /\ m \in TrailingRifts /\ EdgesHeld(m.a, m.b) /\ m.b # 0
      /\ l' = IF m.b > 0 THEN Insert(l, endL, Piece(root.vec, run.end, run.end + m.b))
              ELSE Remove(l, endL, -m.b)
      /\ run' = Reaches(root.vec, l')
      /\ root' = root /\ offset' = offset
  BY DEF TrailingInFragment, rootVars
<1> DEFINE x == root.vec
           e == run.end
           k == m.b
           b == Piece(x, e, e + k)
           z == l'
<1>2. /\ root \in Root /\ returnedlimit \in Int
      /\ x \in Vector /\ Len(x) \in Nat /\ l \in Vector /\ Len(l) \in Nat
      /\ e \in 0..(Len(x) - 1) /\ endL \in 0..(Len(l) - 1) /\ k \in Int /\ k # 0
      /\ run \in Run /\ run.begin \in Int /\ offset \in Int /\ endL = e + offset
      /\ 0 <= run.begin /\ beginL = run.begin + offset
      /\ upset # "moved" => /\ run.begin < e
                            /\ x[run.begin + 1] = l[run.begin + offset + 1]
  BY <1>1, AtTrailingRift
<1>3. /\ k > 0 => k <= Len(x) - e
      /\ k < 0 => -k <= Len(l) - endL
      /\ m.a = 0
  BY <1>1, AtTrailingRift DEF Within
<1>11. run.begin < Len(x) /\ 0 <= beginL /\ beginL < Len(l) + k
  <2>1. run.begin < Len(x) + m.a /\ 0 <= beginL /\ beginL < Len(l) + k
    BY <1>1 DEF EdgesHeld
  <2> QED BY <1>2, <1>3, <2>1
<1>4. /\ k > 0 => z = Insert(l, endL, b)
      /\ k < 0 => z = Remove(l, endL, -k)
  BY <1>1, <1>2
<1> HIDE DEF x, e, k, z
<1>5. k > 0 => b \in Vector /\ Len(b) = k
  <2>1. e \in 0..Len(x)
    BY <1>2
  <2> QED BY <1>2, <1>3, <2>1, PieceAround
<1> HIDE DEF b
<1>6. EditsBehind(l, endL, k, b, z)
  BY <1>2, <1>3, <1>4, <1>5 DEF EditsBehind
<1>7. z \in Vector /\ endL \in 0..Len(z) /\ Len(z) = Len(l) + k /\ \A i \in 0..(endL - 1) : z[i + 1] = l[i + 1]
  BY <1>6, EditBehind
<1>8. Lined(x, z, Reaches(x, z), offset)
  <2>1. run.begin \in 0..(Len(x) - 1) /\ run.begin + offset \in 0..(Len(z) - 1)
    BY <1>2, <1>7, <1>11
  <2>2. upset # "moved" => run.begin + offset \in 0..(endL - 1)
    BY <1>2, <2>1
  <2>3. upset # "moved" => x[run.begin + 1] = z[run.begin + offset + 1]
    BY <1>2, <1>7, <2>2
  <2> QED BY <1>2, <1>7, <2>1, <2>3, ReachesLined
<1>9. Spares(root, root', returnedlimit)
  BY <1>1, <1>2, SameSpares
<1>10. run' = Reaches(x, z)
  BY <1>1 DEF x, z
<1> QED BY <1>1, <1>2, <1>7, <1>8, <1>9, <1>10 DEF Repaired, Lined, x, z

-----------------------------------------------------------------------------
(* The invariant is kept.                                                  *)

(* Nothing is merged at first.                                             *)
LEMMA RunInvInit == Init => RunInv
<1> SUFFICES ASSUME Init PROVE RunInv
  OBVIOUS
<1>1. FragmentsTyped
  BY DEF Init, FragmentsTyped
<1>2. RootTyped
  <2>1. root = [begin |-> -1, vec |-> <<>>] /\ silencebegin = 0 /\ returnedlimit = drive.first
        /\ drive \in Drives
    BY DEF Init, NoRoot
  <2>2. returnedlimit \in Int
    BY <2>1, DriveAssumption DEF Drive
  <2>3. root \in Root
    BY <2>1 DEF Root, Vector
  <2> QED BY <2>1, <2>2, <2>3 DEF RootTyped
<1>3. MergeTyped
  <2>1. /\ v = [begin |-> -1, vec |-> <<>>, last |-> FALSE] /\ l = <<>>
        /\ run = [begin |-> 0, end |-> 0] /\ offset = 0
    BY DEF Init, NoFragment, NoRun
  <2>2. v \in Fragment
    BY <2>1 DEF Fragment, Sample
  <2> QED BY <2>1, <2>2 DEF MergeTyped, Vector, Run
<1>4. RunShared
  BY DEF Init, RunShared, Merging
<1> QED BY <1>1, <1>2, <1>3, <1>4 DEF RunInv, Typed

(* A repair keeps the invariant.                                           *)
LEMMA RepairKeeps ==
  ASSUME RunInv, Repaired,
         UNCHANGED <<drive, frags, list, todo, returnedlimit, silencebegin, v, upset, dyndrift>>
  PROVE  RunInv'
<1>1. FragmentsTyped'
  BY DEF RunInv, Typed, FragmentsTyped
<1>2. RootTyped'
  BY DEF RunInv, Typed, RootTyped, Repaired
<1>3. MergeTyped'
  BY DEF RunInv, Typed, MergeTyped, Repaired
<1>4. RunShared'
  BY DEF Repaired, RunShared, Lined
<1> QED BY <1>1, <1>2, <1>3, <1>4 DEF RunInv, Typed

(* So does what leaves the root and the merge alone.                       *)
LEMMA MergeKept ==
  ASSUME RunInv, FragmentsTyped', UNCHANGED <<root, returnedlimit, silencebegin, mergeVars>>,
         Merging' => Merging
  PROVE  RunInv'
<1>1. UNCHANGED <<v, l, run, offset, upset>>
  BY DEF mergeVars
<1>2. RootTyped' /\ MergeTyped'
  BY <1>1 DEF RunInv, Typed, RootTyped, MergeTyped
<1>3. RunShared'
  BY <1>1 DEF RunInv, RunShared, Lined
<1> QED BY <1>2, <1>3 DEF RunInv, Typed

(* The end of a merge, whatever became of the root.                        *)
LEMMA MergedKeeps ==
  ASSUME RunInv, Merged, RootTyped', FragmentsTyped'
  PROVE  RunInv'
<1>1. /\ v' = [begin |-> -1, vec |-> <<>>, last |-> FALSE] /\ l' = <<>>
      /\ run' = [begin |-> 0, end |-> 0] /\ offset' = 0
      /\ pc' = "pass"
  BY DEF Merged, NoFragment, NoRun
<1>2. MergeTyped'
  <2>1. v' \in Fragment
    BY <1>1 DEF Fragment, Sample
  <2> QED BY <1>1, <2>1 DEF MergeTyped, Vector, Run
<1>3. RunShared'
  BY <1>1 DEF RunShared, Merging
<1> QED BY <1>2, <1>3 DEF RunInv, Typed

(* v is freed without a drift.                                             *)
LEMMA FreedTyped ==
  ASSUME FragmentsTyped, NEW f, Free(f) \/ UNCHANGED frags, Visited(f), UNCHANGED <<drive, list, driftVars>>
  PROVE  FragmentsTyped'
BY DEF FragmentsTyped, Free, Visited, driftVars

(* Outside a merge only the root and the fragments have to be what they    *)
(* are.                                                                    *)
LEMMA OutsideKept ==
  ASSUME RunInv, FragmentsTyped', RootTyped', UNCHANGED mergeVars, ~Merging'
  PROVE  RunInv'
<1>1. UNCHANGED <<v, l, run, offset>>
  BY DEF mergeVars
<1>2. MergeTyped'
  BY <1>1 DEF RunInv, Typed, MergeTyped
<1>3. RunShared'
  BY DEF RunShared
<1> QED BY <1>2, <1>3 DEF RunInv, Typed

(* What is forgotten leaves a root.                                        *)
LEMMA TrimmedIs ==
  ASSUME RootTyped
  PROVE  Trimmed \in Root
<1>1. root \in Root /\ root.begin \in Int /\ root.vec \in Vector /\ returnedlimit \in Int
  BY FieldsIs DEF RootTyped
<1>2. Forgotten \in Int
  BY <1>1, Stage2Assumption DEF Forgotten
<1>3. Remove(root.vec, 0, Forgotten - root.begin) \in Vector
  BY <1>1, <1>2, RemoveIsVector
<1>4. [begin |-> Forgotten, vec |-> Remove(root.vec, 0, Forgotten - root.begin)] \in Root
  BY <1>2, <1>3 DEF Root
<1> QED BY <1>1, <1>4, Zenon DEF Trimmed

(* The cut of the silence at the root's end.                               *)
LEMMA CutRootSilenceIs ==
  ASSUME RunInv, CutRootSilence
  PROVE  Repaired
<1>1. /\ NoRift \in TrailingRifts
      /\ root' = IF EndReturned THEN root ELSE [root EXCEPT !.vec = Cut(@, run.end)]
      /\ UNCHANGED <<returnedlimit, l, run, offset, upset>>
  BY DEF CutRootSilence, Unexplained, mergeVars
<1>2. /\ root \in Root /\ root.vec \in Vector /\ Len(root.vec) \in Nat /\ root.begin \in Int
      /\ l \in Vector /\ returnedlimit \in Int
      /\ run \in Run /\ run.begin \in Int /\ run.end \in Int /\ offset \in Int
      /\ run.end \in 0..(Len(root.vec) - 1)
  BY <1>1, AtTrailingRift
<1>3. Lined(root.vec, l, run, offset)
  BY <1>1 DEF TrailingRifts, TrailingRift, RunInv, RunShared, Merging
<1>4. CASE EndReturned
  <2>1. root' = root
    BY <1>1, <1>4
  <2>2. Spares(root, root', returnedlimit)
    BY <1>2, <2>1, SameSpares
  <2> QED BY <1>1, <1>2, <1>3, <2>1, <2>2 DEF Repaired
<1>5. CASE ~EndReturned
  <2> DEFINE z == Cut(root.vec, run.end)
             p == run.end
  <2>1. root' = [root EXCEPT !.vec = z]
    BY <1>1, <1>5
  <2>2. z \in Vector /\ Len(z) = p /\ \A i \in 0..(p - 1) : z[i + 1] = root.vec[i + 1]
    <3>1. run.end \in 0..Len(root.vec)
      BY <1>2
    <3> QED BY <1>2, <3>1, CutIs
  <2> HIDE DEF z
  <2>3. root' \in Root /\ root'.begin = root.begin /\ root'.vec = z
    BY <1>2, <2>1, <2>2, EditedIs
  <2>4. upset # "moved" => Shared(z, l, run, offset)
    <3> HAVE upset # "moved"
    <3>0. Shared(root.vec, l, run, offset)
      BY <1>3 DEF Lined
    <3>1. /\ 0 <= run.begin /\ run.begin < run.end
          /\ 0 <= run.begin + offset /\ run.end + offset <= Len(l)
          /\ \A i \in run.begin..(run.end - 1) : root.vec[i + 1] = l[i + offset + 1]
      BY <3>0 DEF Shared
    <3>2. \A i \in run.begin..(run.end - 1) : i \in 0..(p - 1)
      BY <1>2, <3>1
    <3>3. \A i \in run.begin..(run.end - 1) : z[i + 1] = l[i + offset + 1]
      BY <2>2, <3>1, <3>2
    <3>4. run.end <= Len(z)
      BY <1>2, <2>2
    <3> QED BY <1>2, <3>1, <3>3, <3>4 DEF Shared
  <2>5. Spares(root, root', returnedlimit)
    <3>1. returnedlimit <= root.begin + p
      BY <1>2, <1>5 DEF EndReturned, EndPosition
    <3>2. p \in 0..Len(root'.vec) /\ p <= Len(root.vec)
      BY <1>2, <2>2, <2>3
    <3>3. \A i \in 0..(p - 1) : root'.vec[i + 1] = root.vec[i + 1]
      BY <2>2, <2>3
    <3> HIDE DEF p
    <3> QED BY <1>2, <2>3, <3>1, <3>2, <3>3, EditSpares
  <2>6. Lined(z, l, run, offset)
    <3>1. run.begin \in Nat /\ run.end \in 0..Len(z)
      BY <1>2, <1>3, <2>2 DEF Lined
    <3> QED BY <1>2, <2>4, <3>1 DEF Lined
  <2> QED BY <1>1, <1>2, <2>3, <2>5, <2>6 DEF Repaired
<1> QED BY <1>4, <1>5

(* What is appended where the run ends leaves a root.                      *)
LEMMA GlommedIs ==
  ASSUME RunInv, TailHeld
  PROVE  Glommed \in Root
<1>1. /\ root \in Root /\ root.vec \in Vector /\ l \in Vector /\ Len(l) \in Nat
      /\ run \in Run /\ offset \in Int /\ endL = run.end + offset
  <2>1. root \in Root /\ l \in Vector /\ run \in Run /\ offset \in Int
    BY DEF RunInv, Typed, RootTyped, MergeTyped
  <2> QED BY <2>1, FieldsIs DEF Vector, endL
<1>2. endL \in 0..Len(l)
  BY <1>1 DEF TailHeld
<1>3. Len(l) \in endL..Len(l) /\ run.end \in Int
  BY <1>1, <1>2 DEF Run
<1>4. Piece(l, endL, Len(l)) \in Vector
  BY <1>1, <1>2, <1>3, PieceIs
<1>5. Cut(root.vec, run.end) \in Vector
  BY <1>1, <1>3, RemoveIsVector DEF Cut
<1> DEFINE z == Cut(root.vec, run.end) \o Piece(l, endL, Len(l))
<1>6. z \in Vector
  BY <1>4, <1>5, JoinIs
<1>7. Glommed = [root EXCEPT !.vec = z]
  BY DEF Glommed
<1> HIDE DEF z
<1> QED BY <1>1, <1>6, <1>7, EditedIs

(* So is the root that is stretched to a fragment's silence.               *)
LEMMA StretchedIs ==
  ASSUME RootTyped, NEW f \in Fragment
  PROVE  Stretched(f) \in Root
<1> DEFINE n == f.begin + MIN_SILENCE_BOUNDARY - End(root)
           q == [i \in 1..n |-> 0]
<1>1. root \in Root /\ root.vec \in Vector /\ f.begin \in Int /\ End(root) \in Int
  BY FieldsIs DEF RootTyped
<1>2. CASE f.begin >= End(root) /\ f.begin - DYNOVERLAP < End(root)
  <2>1. n \in Nat
    BY <1>1, <1>2, Stage2Assumption
  <2> HIDE DEF n
  <2>2. q \in [1..n -> Int]
    OBVIOUS
  <2>3. q \in Vector
    <3> HIDE DEF q
    <3> QED BY <2>1, <2>2, SeqDef DEF Vector
  <2>4. Stretched(f) = [root EXCEPT !.vec = root.vec \o q]
    BY <1>2 DEF Stretched, n
  <2> DEFINE z == root.vec \o q
  <2>5. z \in Vector
    <3> HIDE DEF q
    <3> QED BY <1>1, <2>3, JoinIs
  <2> HIDE DEF z
  <2>6. [root EXCEPT !.vec = z] \in Root
    BY <1>1, <2>5, EditedIs
  <2> QED BY <2>4, <2>6 DEF z
<1>3. CASE ~(f.begin >= End(root) /\ f.begin - DYNOVERLAP < End(root))
  BY <1>1, <1>3 DEF Stretched
<1> QED BY <1>2, <1>3

(* What is appended from a position of a fragment on leaves a root.        *)
LEMMA AppendedIs ==
  ASSUME NEW f \in Fragment, NEW r \in Root, NEW pos \in Int, NEW at \in f.begin..End(f)
  PROVE  [r EXCEPT !.vec = CutAt(r, pos) \o FromOn(f, at)] \in Root
<1>1. /\ f.begin \in Int /\ f.vec \in Vector /\ Len(f.vec) \in Nat /\ End(f) = f.begin + Len(f.vec)
      /\ r.begin \in Int /\ r.vec \in Vector
  BY FieldsIs
<1>2. CutAt(r, pos) \in Vector
  <2>1. pos - r.begin \in Int /\ -1 \in Int
    BY <1>1
  <2> QED BY <1>1, <2>1, RemoveIsVector DEF CutAt, Cut
<1>3. FromOn(f, at) \in Vector
  <2> DEFINE from == at - f.begin
  <2>1. from \in 0..Len(f.vec) /\ Len(f.vec) \in from..Len(f.vec)
    BY <1>1
  <2>2. FromOn(f, at) = Piece(f.vec, from, Len(f.vec))
    BY DEF FromOn
  <2> HIDE DEF from
  <2> QED BY <1>1, <2>1, <2>2, PieceIs
<1> DEFINE z == CutAt(r, pos) \o FromOn(f, at)
<1>4. z \in Vector
  BY <1>2, <1>3, JoinIs
<1> HIDE DEF z
<1>5. [r EXCEPT !.vec = z] \in Root
  BY <1>4, EditedIs
<1> QED BY <1>5 DEF z

(* A match by silence leaves a root.                                       *)
LEMMA SilenceMatchIs ==
  ASSUME RootTyped, NEW f \in Fragment, NEW d, SilenceMatch(f, d)
  PROVE  RootTyped'
<1>1. /\ SilenceOverlaps(f) \/ Sound(f) < SilenceBegins(f)
      /\ root' = IF SilenceOverlaps(f) THEN Superimposed(f, Stretched(f))
                 ELSE Spliced(f, Stretched(f))
      /\ SilenceTest(root', FALSE, silencebegin)
      /\ returnedlimit' = returnedlimit
  BY DEF SilenceMatch
<1> DEFINE r == Stretched(f)
<1>2. r \in Root /\ End(r) \in Int
  BY StretchedIs, FieldsIs
<1>3. /\ f.begin \in Int /\ End(f) \in Int /\ silencebegin \in Int /\ returnedlimit \in Int
      /\ Sound(f) \in f.begin..End(f)
  BY FieldsIs, SoundIs DEF RootTyped
<1>4. SilenceBegins(f) \in Int /\ f.begin <= SilenceBegins(f)
  BY <1>3 DEF SilenceBegins, Most
<1>5. SilenceOverlaps(f) => SilenceBegins(f) <= End(f)
  BY <1>2, <1>3, <1>4 DEF SilenceOverlaps, Least
<1> HIDE DEF r
<1>6. SilenceOverlaps(f) => Superimposed(f, r) \in Root
  <2> HAVE SilenceOverlaps(f)
  <2>1. SilenceBegins(f) \in f.begin..End(f)
    BY <1>3, <1>4, <1>5
  <2> DEFINE s == [r EXCEPT !.vec = CutAt(r, SilenceBegins(f)) \o FromOn(f, SilenceBegins(f))]
  <2>2. s \in Root
    BY <1>2, <1>4, <2>1, AppendedIs
  <2> HIDE DEF s
  <2>3. Superimposed(f, r) = s \/ Superimposed(f, r) = r
    BY DEF Superimposed, s
  <2> QED BY <1>2, <2>2, <2>3
<1>7. Spliced(f, r) \in Root
  <2> DEFINE s == [r EXCEPT !.vec = CutAt(r, silencebegin) \o FromOn(f, Sound(f))]
  <2>2. s \in Root
    BY <1>2, <1>3, AppendedIs
  <2> HIDE DEF s
  <2>3. Spliced(f, r) = s \/ Spliced(f, r) = r
    BY DEF Spliced, s
  <2> QED BY <1>2, <2>2, <2>3
<1>8. root' \in Root
  <2>1. SilenceOverlaps(f) => root' = Superimposed(f, r)
    BY <1>1 DEF r
  <2>2. ~SilenceOverlaps(f) => root' = Spliced(f, r)
    BY <1>1 DEF r
  <2> QED BY <1>6, <1>7, <2>1, <2>2
<1>9. silencebegin' \in Int
  BY <1>1, <1>3, <1>8, SilenceTestIs
<1> QED BY <1>1, <1>3, <1>8, <1>9 DEF RootTyped

(* Every step of a merge keeps the invariant.                              *)
LEMMA MergeStepKeeps ==
  ASSUME RunInv, (pc = "leading" /\ LeadingStep) \/ (pc = "trailing" /\ TrailingStep)
  PROVE  RunInv'
<1>1. CASE pc = "leading" /\ LeadingStep
  <2>1. PICK m \in LeadingRifts \cup {NoRift} :
          LeadingInRoot(m) \/ LeadingInFragment(m) \/ LeadingGarbage(m) \/ EndLeading(m)
    BY <1>1 DEF LeadingStep
  <2>2. CASE LeadingInRoot(m)
    <3>1. UNCHANGED <<drive, frags, list, todo, returnedlimit, silencebegin, v, upset, dyndrift>>
      BY <2>2 DEF LeadingInRoot, driftVars
    <3>2. Repaired
      BY <2>2, LeadingInRootRepairs
    <3> QED BY <3>1, <3>2, RepairKeeps
  <2>3. CASE LeadingInFragment(m)
    <3>1. UNCHANGED <<drive, frags, list, todo, returnedlimit, silencebegin, v, upset, dyndrift>>
      BY <2>3 DEF LeadingInFragment, rootVars, driftVars
    <3>2. Repaired
      BY <2>3, LeadingInFragmentRepairs
    <3> QED BY <3>1, <3>2, RepairKeeps
  <2>4. CASE LeadingGarbage(m)
    <3>1. UNCHANGED <<drive, frags, list, todo, returnedlimit, silencebegin, v, upset, dyndrift>>
      BY <2>4 DEF LeadingGarbage, driftVars
    <3>2. Repaired
      BY <2>4, LeadingGarbageRepairs
    <3> QED BY <3>1, <3>2, RepairKeeps
  <2>5. CASE EndLeading(m)
    <3>1. /\ UNCHANGED <<drive, frags, list, todo, root, returnedlimit, silencebegin, mergeVars, dyndrift>>
          /\ pc = "leading"
      BY <2>5 DEF EndLeading, rootVars, driftVars
    <3>2. FragmentsTyped'
      BY <3>1 DEF RunInv, Typed, FragmentsTyped
    <3> QED BY <3>1, <3>2, MergeKept DEF Merging
  <2> QED BY <2>1, <2>2, <2>3, <2>4, <2>5
<1>2. CASE pc = "trailing" /\ TrailingStep
  <2>1. ASSUME NEW m, TrailingInRoot(m) PROVE RunInv'
    <3>1. UNCHANGED <<drive, frags, list, todo, returnedlimit, silencebegin, v, upset, dyndrift>>
      BY <2>1 DEF TrailingInRoot, driftVars
    <3>2. Repaired
      BY <2>1, TrailingInRootRepairs
    <3> QED BY <3>1, <3>2, RepairKeeps
  <2>2. ASSUME NEW m, TrailingInFragment(m) PROVE RunInv'
    <3>1. UNCHANGED <<drive, frags, list, todo, returnedlimit, silencebegin, v, upset, dyndrift>>
      BY <2>2 DEF TrailingInFragment, rootVars, driftVars
    <3>2. Repaired
      BY <2>2, TrailingInFragmentRepairs
    <3> QED BY <3>1, <3>2, RepairKeeps
  <2>3. ASSUME NEW m, TrailingGarbage(m) PROVE RunInv'
    <3>1. UNCHANGED <<drive, frags, list, todo, returnedlimit, silencebegin, v, upset, dyndrift>>
      BY <2>3 DEF TrailingGarbage, driftVars
    <3>2. Repaired
      BY <2>3, TrailingGarbageRepairs
    <3> QED BY <3>1, <3>2, RepairKeeps
  <2>4. ASSUME NEW m, EndTrailing(m) PROVE RunInv'
    <3>1. /\ UNCHANGED <<drive, frags, list, todo, root, returnedlimit, silencebegin, mergeVars, dyndrift>>
          /\ pc = "trailing"
      BY <2>4 DEF EndTrailing, rootVars, driftVars
    <3>2. FragmentsTyped'
      BY <3>1 DEF RunInv, Typed, FragmentsTyped
    <3> QED BY <3>1, <3>2, MergeKept DEF Merging
  <2>5. CASE CutRootSilence
    <3>1. UNCHANGED <<drive, frags, list, todo, returnedlimit, silencebegin, v, upset, dyndrift>>
      BY <2>5 DEF CutRootSilence, mergeVars, driftVars
    <3>2. Repaired
      BY <2>5, CutRootSilenceIs
    <3> QED BY <3>1, <3>2, RepairKeeps
  <2>6. CASE DropFragmentSilence
    <3>1. /\ Merged /\ Free(v) /\ Visited(v)
          /\ UNCHANGED <<drive, root, returnedlimit, silencebegin, list, driftVars>>
      BY <2>6 DEF DropFragmentSilence, rootVars
    <3>2. RootTyped'
      BY <3>1 DEF RunInv, Typed, RootTyped
    <3>3. FragmentsTyped'
      BY <3>1, FreedTyped DEF RunInv, Typed
    <3> QED BY <3>1, <3>2, <3>3, MergedKeeps
  <2> QED BY <1>2, <2>1, <2>2, <2>3, <2>4, <2>5, <2>6 DEF TrailingStep
<1> QED BY <1>1, <1>2

(* Every step of a visit keeps it.                                         *)
LEMMA VisitStepKeeps ==
  ASSUME RunInv, VisitStep
  PROVE  RunInv'
<1> PICK f \in todo :
       \/ InitRoot(f) \/ PassBy(f)
       \/ \E d \in Drifts, m \in MatchFound(f) : BeginMerge(f, m, d)
       \/ NoMatch(f)
  BY DEF VisitStep
<1>0. f \in Fragment
  BY DEF RunInv, Typed, FragmentsTyped
<1>1. CASE InitRoot(f)
  <2>1. /\ pc = "pass" /\ pc' = pc
        /\ root' = [begin |-> f.begin, vec |-> f.vec]
        /\ SilenceTest(root', silenceflag, silencebegin)
        /\ Free(f) /\ Visited(f)
        /\ UNCHANGED <<drive, returnedlimit, mergeVars, driftVars, list>>
    BY <1>1 DEF InitRoot
  <2>2. root' \in Root
    BY <1>0, <2>1 DEF Fragment, Root, Vector, Sample
  <2>3. RootTyped'
    <3>1. returnedlimit \in Int /\ silencebegin \in Int
      BY DEF RunInv, Typed, RootTyped
    <3>2. silencebegin' \in Int
      BY <2>1, <2>2, <3>1, SilenceTestIs
    <3> QED BY <2>1, <2>2, <3>1, <3>2 DEF RootTyped
  <2>4. FragmentsTyped'
    BY <2>1, FreedTyped DEF RunInv, Typed
  <2> QED BY <2>1, <2>3, <2>4, OutsideKept DEF Merging
<1>2. CASE PassBy(f)
  <2>1. /\ pc' = pc /\ Visited(f)
        /\ UNCHANGED <<drive, frags, root, returnedlimit, silencebegin, mergeVars, driftVars, list>>
    BY <1>2 DEF PassBy, rootVars
  <2>2. FragmentsTyped'
    BY <2>1, FreedTyped DEF RunInv, Typed
  <2> QED BY <2>1, <2>2, MergeKept DEF Merging
<1>3. CASE \E d \in Drifts, m \in MatchFound(f) : BeginMerge(f, m, d)
  <2> PICK d \in Drifts, m \in MatchFound(f) : BeginMerge(f, m, d)
    BY <1>3
  <2> DEFINE e == [d EXCEPT !.torn = @ \ {f}]
  <2>1. /\ DriftBy(d) /\ Left(e, {}) /\ e.by = d.by
        /\ upset' = IF f \in d.moved THEN "moved" ELSE IF f \in d.torn THEN "torn" ELSE "none"
        /\ UNCHANGED <<drive, root, returnedlimit, silencebegin>>
    BY DEF BeginMerge, rootVars, Drifts, NoDrift
  <2> HIDE DEF e
  <2>2. /\ run' \in Run /\ offset' \in Int /\ l' \in Vector /\ v' \in Fragment
        /\ run'.begin \in 0..Len(root.vec) /\ run'.end \in 0..Len(root.vec)
        /\ f \notin d.moved => Shared(root.vec, l', run', offset')
    BY BeginMergeShares DEF RunInv
  <2>3. FragmentsTyped'
    BY <2>1, LeftTyped DEF RunInv, Typed
  <2>4. RootTyped' /\ MergeTyped'
    BY <2>1, <2>2 DEF RunInv, Typed, RootTyped, MergeTyped
  <2>5. RunShared'
    <3>1. upset' # "moved" => f \notin d.moved
      BY <2>1
    <3> QED BY <2>1, <2>2, <3>1 DEF RunShared, Lined
  <2> QED BY <2>3, <2>4, <2>5 DEF RunInv, Typed
<1>4. CASE NoMatch(f)
  <2>1. /\ pc' = pc /\ Visited(f) /\ (Free(f) \/ UNCHANGED frags)
        /\ UNCHANGED <<drive, root, returnedlimit, silencebegin, mergeVars, driftVars, list>>
    BY <1>4 DEF NoMatch, rootVars
  <2>2. FragmentsTyped'
    BY <2>1, FreedTyped DEF RunInv, Typed
  <2> QED BY <2>1, <2>2, MergeKept DEF Merging
<1> QED BY <1>1, <1>2, <1>3, <1>4

(* And every step of the matching by silence.                              *)
LEMMA SilenceStepKeeps ==
  ASSUME RunInv, SilenceStep
  PROVE  RunInv'
<1>1. CASE EndSilence
  <2>1. /\ pc' # "leading" /\ pc' # "trailing" /\ pc' # "glom"
        /\ list' \subseteq frags /\ todo' = list'
        /\ UNCHANGED <<drive, frags, root, returnedlimit, silencebegin, mergeVars, dyndrift>>
    BY <1>1 DEF EndSilence, NextPass, rootVars, driftVars
  <2>2. FragmentsTyped'
    BY <2>1 DEF RunInv, Typed, FragmentsTyped
  <2> QED BY <2>1, <2>2, MergeKept DEF Merging
<1>2. ASSUME NEW f \in todo, NEW d \in Drifts, SilenceMatch(f, d) PROVE RunInv'
  <2>1. /\ pc = "silence" /\ pc' = pc /\ DriftBy(d) /\ Left(d, {f})
        /\ UNCHANGED <<drive, mergeVars>>
    BY <1>2 DEF SilenceMatch
  <2>2. f \in Fragment /\ RootTyped
    BY DEF RunInv, Typed, FragmentsTyped
  <2>3. RootTyped'
    BY <1>2, <2>2, SilenceMatchIs
  <2>4. FragmentsTyped'
    BY <2>1, LeftTyped DEF RunInv, Typed
  <2> QED BY <2>1, <2>3, <2>4, OutsideKept DEF Merging
<1>3. ASSUME NEW f \in todo, NoSilenceMatch(f) PROVE RunInv'
  <2>1. /\ pc = "silence" /\ pc' = pc /\ Visited(f)
        /\ root' = root \/ root' = Stretched(f)
        /\ UNCHANGED <<drive, frags, returnedlimit, silencebegin, mergeVars, driftVars, list>>
    BY <1>3 DEF NoSilenceMatch
  <2>2. f \in Fragment /\ RootTyped
    BY DEF RunInv, Typed, FragmentsTyped
  <2>3. RootTyped'
    BY <2>1, <2>2, StretchedIs DEF RootTyped
  <2>4. FragmentsTyped'
    BY <2>1, FreedTyped DEF RunInv, Typed
  <2> QED BY <2>1, <2>3, <2>4, OutsideKept DEF Merging
<1> QED BY <1>1, <1>2, <1>3 DEF SilenceStep

(* Every step keeps the invariant.                                         *)
LEMMA RunInvNext ==
  ASSUME RunInv, [Next]_vars
  PROVE  RunInv'
<1>1. ASSUME NEW f \in drive.fragments, NEW d \in Drifts, Verify(f, d) PROVE RunInv'
  <2> DEFINE g == [f EXCEPT !.begin = @ - dyndrift']
  <2>1. /\ pc' = pc /\ frags' = After(frags, d) \cup {g} /\ dyndrift' = dyndrift + d.by
        /\ UNCHANGED <<drive, root, returnedlimit, silencebegin, list, todo, mergeVars>>
    BY <1>1 DEF Verify, rootVars, DriftBy
  <2>2. f \in Fragment /\ d.by \in Int /\ frags \subseteq Fragment
    BY DriveAssumption, DriftIs DEF RunInv, Typed, FragmentsTyped, Drive
  <2>3. dyndrift' \in Int
    BY <2>1, <2>2 DEF RunInv, Typed, FragmentsTyped
  <2>4. g \in Fragment
    <3>1. g = [begin |-> f.begin - dyndrift', vec |-> f.vec, last |-> f.last]
      BY <2>2 DEF Fragment
    <3>2. f.begin - dyndrift' \in Int
      BY <2>2, <2>3 DEF Fragment
    <3> HIDE DEF g
    <3> QED BY <2>2, <3>1, <3>2 DEF Fragment
  <2> HIDE DEF g
  <2>5. frags' \subseteq Fragment
    BY <2>1, <2>2, <2>4, AfterIs
  <2>6. FragmentsTyped'
    BY <2>1, <2>3, <2>5 DEF RunInv, Typed, FragmentsTyped
  <2> QED BY <2>1, <2>6, MergeKept DEF Merging
<1>2. CASE ReturnSector
  <2>1. /\ pc = "idle" /\ pc' = pc /\ returnedlimit' = returnedlimit + SECTOR
        /\ UNCHANGED <<drive, frags, root, silencebegin, list, todo, mergeVars, dyndrift>>
    BY <1>2 DEF ReturnSector, driftVars
  <2>2. FragmentsTyped' /\ RootTyped'
    BY <2>1, Stage2Assumption DEF RunInv, Typed, FragmentsTyped, RootTyped
  <2> QED BY <2>1, <2>2, OutsideKept DEF Merging
<1>3. CASE StartStage2
  <2>1. /\ pc' = "pass" /\ root' = Trimmed /\ frags' \subseteq frags
        /\ list' = frags' /\ todo' = frags'
        /\ UNCHANGED <<drive, returnedlimit, silencebegin, mergeVars, dyndrift>>
    BY <1>3 DEF StartStage2, driftVars
  <2>2. FragmentsTyped'
    BY <2>1 DEF RunInv, Typed, FragmentsTyped
  <2>3. RootTyped'
    BY <2>1, TrimmedIs DEF RunInv, Typed, RootTyped
  <2> QED BY <2>1, <2>2, <2>3, OutsideKept DEF Merging
<1>4. CASE VisitStep
  BY <1>4, VisitStepKeeps
<1>5. CASE EndPass
  <2>1. /\ pc' # "leading" /\ pc' # "trailing" /\ pc' # "glom"
        /\ list' \subseteq list \cup frags /\ todo' = list'
        /\ UNCHANGED <<drive, frags, root, returnedlimit, silencebegin, mergeVars, dyndrift>>
    BY <1>5 DEF EndPass, NextPass, SilencePass, rootVars, driftVars
  <2>2. FragmentsTyped'
    BY <2>1 DEF RunInv, Typed, FragmentsTyped
  <2> QED BY <2>1, <2>2, MergeKept DEF Merging
<1>6. CASE SilenceStep
  BY <1>6, SilenceStepKeeps
<1>7. CASE (pc = "leading" /\ LeadingStep) \/ (pc = "trailing" /\ TrailingStep)
  BY <1>7, MergeStepKeeps
<1>8. ASSUME NEW d \in Drifts, Glom(d) PROVE RunInv'
  <2>1. /\ TailHeld /\ root' = Glommed /\ SilenceTest(Glommed, silenceflag, silencebegin)
        /\ Merged /\ DriftBy(d) /\ Left(d, {v}) /\ UNCHANGED <<drive, returnedlimit>>
    BY <1>8 DEF Glom
  <2>2. Glommed \in Root
    BY <2>1, GlommedIs
  <2>3. returnedlimit \in Int /\ silencebegin \in Int
    BY DEF RunInv, Typed, RootTyped
  <2>4. silencebegin' \in Int
    BY <2>1, <2>2, <2>3, SilenceTestIs
  <2>5. RootTyped'
    BY <2>1, <2>2, <2>3, <2>4 DEF RootTyped
  <2>6. FragmentsTyped'
    BY <2>1, LeftTyped DEF RunInv, Typed
  <2> QED BY <2>1, <2>5, <2>6, MergedKeeps
<1>9. CASE NoGrowth
  <2>1. /\ Merged /\ Free(v) /\ Visited(v)
        /\ UNCHANGED <<drive, root, returnedlimit, silencebegin, list, driftVars>>
    BY <1>9 DEF NoGrowth, rootVars
  <2>2. RootTyped'
    BY <2>1 DEF RunInv, Typed, RootTyped
  <2>3. FragmentsTyped'
    BY <2>1, FreedTyped DEF RunInv, Typed
  <2> QED BY <2>1, <2>2, <2>3, MergedKeeps
<1>11. CASE GoAstray
  <2>1. /\ pc' = "undefined"
        /\ UNCHANGED <<drive, frags, root, returnedlimit, silencebegin, list, todo, mergeVars, dyndrift>>
    BY <1>11 DEF GoAstray, rootVars, driftVars
  <2>2. FragmentsTyped'
    BY <2>1 DEF RunInv, Typed, FragmentsTyped
  <2> QED BY <2>1, <2>2, MergeKept DEF Merging
<1>10. CASE UNCHANGED vars
  <2>1. UNCHANGED <<drive, frags, root, returnedlimit, silencebegin, list, todo, mergeVars, dyndrift, pc>>
    BY <1>10 DEF vars, rootVars, driftVars
  <2>2. FragmentsTyped'
    BY <2>1 DEF RunInv, Typed, FragmentsTyped
  <2> QED BY <2>1, <2>2, MergeKept DEF Merging
<1> QED BY <1>1, <1>2, <1>3, <1>4, <1>5, <1>6, <1>7, <1>8, <1>9, <1>10, <1>11 DEF Next, Step

(* The invariant holds always.                                             *)
LEMMA RunInvAlways == Spec => []RunInv
<1>1. Init => RunInv
  BY RunInvInit
<1>2. RunInv /\ [Next]_vars => RunInv'
  BY RunInvNext
<1> QED BY <1>1, <1>2, PTL DEF Spec

(* A run that is shared is one that agrees.                                *)
LEMMA SharedAgrees == RunInv => RunAgrees
<1> SUFFICES ASSUME RunInv, Merging, upset # "moved" PROVE
      /\ 0 <= run.begin /\ run.begin < run.end /\ run.end <= Len(root.vec)
      /\ 0 <= beginL /\ endL <= Len(l)
      /\ Agree(root.vec, l, run.begin, beginL, run.end - run.begin)
  BY DEF RunAgrees
<1>1. run.begin \in Int /\ run.end \in Int /\ offset \in Int
  BY DEF RunInv, Typed, MergeTyped, Run
<1>2. Shared(root.vec, l, run, offset)
  BY DEF RunInv, RunShared, Lined
<1>3. ASSUME NEW k \in 0..((run.end - run.begin) - 1)
      PROVE  root.vec[run.begin + k + 1] = l[beginL + k + 1]
  <2> DEFINE i == run.begin + k
  <2>1. i \in run.begin..(run.end - 1) /\ i + offset = beginL + k
    BY <1>1 DEF beginL
  <2> HIDE DEF i
  <2>2. root.vec[i + 1] = l[i + offset + 1]
    BY <1>2, <2>1 DEF Shared
  <2> QED BY <2>1, <2>2 DEF i
<1>4. Agree(root.vec, l, run.begin, beginL, run.end - run.begin)
  BY <1>3 DEF Agree
<1> QED BY <1>1, <1>2, <1>4 DEF Shared, beginL, endL

(* Whatever rifts there are, and however they are repaired, the run that   *)
(* i_stage2_each goes on from lies in the root and in the fragment, and    *)
(* they agree over it: a rift is never looked for where there is none, nor *)
(* an edit made outside of a vector.  All this unless the search that      *)
(* found the match moved the fragment (paranoia.c 358, 386).               *)
THEOREM MergedRunsAgree == Spec => []RunAgrees
BY RunInvAlways, SharedAgrees, PTL

(* No repair of a rift by i_stage2_each changes, moves or removes a sample *)
(* before returnedlimit, which the caller of paranoia_read was given.      *)
THEOREM RepairsSpare == Spec => RepairsSpareReturned
<1>1. ASSUME RunInv, [Next]_vars, Repairing
      PROVE  /\ SameBelow(root, root', returnedlimit)
             /\ End(root') >= Least(End(root), returnedlimit)
  <2>0. root \in Root /\ returnedlimit \in Int
    BY <1>1 DEF RunInv, Typed, RootTyped
  <2>1. root' = root => Spares(root, root', returnedlimit)
    BY <2>0, SameSpares
  <2>2. ASSUME NEW m, LeadingInRoot(m) \/ LeadingInFragment(m) \/ LeadingGarbage(m)
                      \/ TrailingInRoot(m) \/ TrailingInFragment(m) \/ TrailingGarbage(m)
        PROVE  Repaired
    BY <1>1, <2>2, LeadingInRootRepairs, LeadingInFragmentRepairs, LeadingGarbageRepairs,
       TrailingInRootRepairs, TrailingInFragmentRepairs, TrailingGarbageRepairs
  <2>3. ASSUME NEW m, EndLeading(m) \/ EndTrailing(m) PROVE root' = root
    BY <2>3 DEF EndLeading, EndTrailing, rootVars
  <2>4. DropFragmentSilence => root' = root
    BY DEF DropFragmentSilence, rootVars
  <2>5. CutRootSilence => Repaired
    BY <1>1, CutRootSilenceIs
  <2>6. UNCHANGED vars => root' = root
    BY DEF vars, rootVars
  <2>7. Next => LeadingStep \/ TrailingStep \/ GoAstray
    BY <1>1 DEF Repairing, Next, Step, Verify, ReturnSector, StartStage2, EndPass, NoGrowth
  <2>11. GoAstray => root' = root
    BY DEF GoAstray, rootVars
  <2>8. LeadingStep => Repaired \/ root' = root
    BY <2>2, <2>3 DEF LeadingStep
  <2>9. TrailingStep => Repaired \/ root' = root
    BY <2>2, <2>3, <2>4, <2>5 DEF TrailingStep
  <2>10. Spares(root, root', returnedlimit)
    BY <1>1, <2>1, <2>6, <2>7, <2>8, <2>9, <2>11 DEF Repaired
  <2> QED BY <2>10 DEF Spares
<1>2. RunInv /\ [Next]_vars =>
        [Repairing => /\ SameBelow(root, root', returnedlimit)
                      /\ End(root') >= Least(End(root), returnedlimit)]_vars
  BY <1>1
<1> QED BY <1>2, RunInvAlways, PTL DEF Spec, RepairsSpareReturned

-----------------------------------------------------------------------------
(* Vectors that are a piece of the disc.                                   *)

(* PieceOfDisc, sample by sample.                                          *)
Lies(x, d) ==
  /\ d \in Int /\ 0 <= d /\ d + Len(x) <= Len(Disc)
  /\ \A i \in 0..(Len(x) - 1) : x[i + 1] = Disc[d + i + 1]

(* The disc that is read, and what it may deliver.                         *)
LEMMA DiscIs ==
  ASSUME FragmentsTyped
  PROVE  /\ Disc \in Vector /\ Len(Disc) \in Nat
         /\ drive.first \in Nat /\ drive.fragments \subseteq Fragment
         /\ \A f \in drive.fragments : Len(f.vec) >= 2
<1>1. drive \in Drive
  BY DriveAssumption DEF FragmentsTyped
<1>2. drive.disc \in Vector /\ drive.first \in Nat /\ drive.fragments \subseteq Fragment
  BY <1>1 DEF Drive, Vector, Sample
<1>3. ASSUME NEW f \in drive.fragments PROVE Len(f.vec) >= 2
  <2>1. Len(f.vec) > MIN_WORDS_SEARCH
    BY FragmentAssumption DEF FragmentsTyped
  <2>2. f \in Fragment
    BY <1>2
  <2>3. Len(f.vec) \in Nat
    BY <2>2, FieldsIs
  <2> QED BY <2>1, <2>3, Stage2Assumption, RiftAssumption
<1> QED BY <1>2, <1>3 DEF Disc, Vector

(* They are the same.                                                      *)
LEMMA LiesIs ==
  ASSUME Disc \in Vector, NEW x \in Vector, NEW d \in Int
  PROVE  PieceOfDisc(x, d) <=> Lies(x, d)
<1>1. Len(x) \in Nat /\ Len(Disc) \in Nat
  BY DEF Vector
<1>2. CASE ~(0 <= d /\ d + Len(x) <= Len(Disc))
  BY <1>1, <1>2 DEF PieceOfDisc, Lies
<1>3. CASE 0 <= d /\ d + Len(x) <= Len(Disc)
  <2> DEFINE to == d + Len(x)
             p == Piece(Disc, d, to)
  <2>1. /\ p \in Vector /\ Len(p) = Len(x)
        /\ \A i \in 0..(Len(x) - 1) : p[i + 1] = Disc[d + i + 1]
    <3>1. d \in 0..Len(Disc) /\ to \in d..Len(Disc) /\ to - d = Len(x)
      BY <1>1, <1>3
    <3> HIDE DEF to
    <3>2. /\ p \in Vector /\ Len(p) = to - d
          /\ \A i \in 0..((to - d) - 1) : p[i + 1] = Disc[d + i + 1]
      BY <3>1, PieceIs
    <3> QED BY <3>1, <3>2
  <2>2. PieceOfDisc(x, d) <=> x = p
    BY <1>3 DEF PieceOfDisc
  <2> HIDE DEF p, to
  <2>3. x = p => Lies(x, d)
    BY <1>3, <2>1 DEF Lies
  <2>4. ASSUME Lies(x, d) PROVE x = p
    <3>1. ASSUME NEW k \in 1..Len(x) PROVE x[k] = p[k]
      <4> DEFINE i == k - 1
      <4>1. i \in 0..(Len(x) - 1) /\ i + 1 = k
        BY <1>1
      <4> HIDE DEF i
      <4>2. x[i + 1] = Disc[d + i + 1] /\ p[i + 1] = Disc[d + i + 1]
        BY <2>1, <2>4, <4>1 DEF Lies
      <4> QED BY <4>1, <4>2
    <3>2. x = [k \in 1..Len(x) |-> x[k]] /\ p = [k \in 1..Len(p) |-> p[k]]
      BY <2>1 DEF Vector
    <3> QED BY <2>1, <3>1, <3>2
  <2> QED BY <2>2, <2>3, <2>4
<1> QED BY <1>2, <1>3

(* A piece of a piece, counted from an offset on.                          *)
LEMMA PieceLies ==
  ASSUME NEW x \in Vector, NEW d, Lies(x, d), NEW from \in 0..Len(x), NEW to \in from..Len(x)
  PROVE  Lies(Piece(x, from, to), d + from)
<1>1. Len(x) \in Nat /\ Len(Disc) \in Int /\ d \in Int
  BY DEF Vector, Lies
<1> DEFINE p == Piece(x, from, to)
<1>2. /\ p \in Vector /\ Len(p) = to - from
      /\ \A i \in 0..((to - from) - 1) : p[i + 1] = x[from + i + 1]
  BY PieceIs
<1> HIDE DEF p
<1>3. ASSUME NEW i \in 0..(Len(p) - 1) PROVE p[i + 1] = Disc[d + from + i + 1]
  <2> DEFINE k == from + i
  <2>1. k \in 0..(Len(x) - 1) /\ i \in 0..((to - from) - 1) /\ d + k + 1 = d + from + i + 1
    BY <1>1, <1>2
  <2>2. p[i + 1] = x[k + 1]
    BY <1>2, <2>1
  <2> HIDE DEF k
  <2>3. x[k + 1] = Disc[d + k + 1]
    BY <2>1 DEF Lies
  <2> QED BY <2>1, <2>2, <2>3
<1>4. d + from \in Int /\ 0 <= d + from /\ d + from + Len(p) <= Len(Disc)
  BY <1>1, <1>2 DEF Lies
<1>5. Lies(p, d + from)
  BY <1>3, <1>4 DEF Lies
<1> QED BY <1>5 DEF p

(* Two pieces, the second where the first ends.                            *)
LEMMA JoinLies ==
  ASSUME NEW x \in Vector, NEW y \in Vector, NEW d, Lies(x, d), Lies(y, d + Len(x))
  PROVE  Lies(x \o y, d)
<1>1. Len(x) \in Nat /\ Len(y) \in Nat /\ d \in Int
  BY DEF Vector, Lies
<1> DEFINE z == x \o y
<1>2. /\ Len(z) = Len(x) + Len(y)
      /\ \A i \in 0..(Len(x) - 1) : z[i + 1] = x[i + 1]
      /\ \A i \in 0..(Len(y) - 1) : z[Len(x) + i + 1] = y[i + 1]
  BY JoinIs
<1> HIDE DEF z
<1>3. ASSUME NEW i \in 0..(Len(z) - 1) PROVE z[i + 1] = Disc[d + i + 1]
  <2>1. CASE i < Len(x)
    <3>1. i \in 0..(Len(x) - 1)
      BY <1>1, <2>1
    <3>2. z[i + 1] = x[i + 1]
      BY <1>2, <3>1
    <3>3. x[i + 1] = Disc[d + i + 1]
      BY <3>1 DEF Lies
    <3> QED BY <3>2, <3>3
  <2>2. CASE i >= Len(x)
    <3> DEFINE k == i - Len(x)
    <3>1. k \in 0..(Len(y) - 1) /\ Len(x) + k + 1 = i + 1 /\ d + Len(x) + k + 1 = d + i + 1
      BY <1>1, <1>2, <2>2
    <3> HIDE DEF k
    <3>2. z[Len(x) + k + 1] = y[k + 1]
      BY <1>2, <3>1
    <3>3. y[k + 1] = Disc[d + Len(x) + k + 1]
      BY <3>1 DEF Lies
    <3> QED BY <3>1, <3>2, <3>3
  <2> QED BY <1>1, <2>1, <2>2
<1>4. d + Len(z) <= Len(Disc)
  <2>1. (d + Len(x)) + Len(y) <= Len(Disc)
    BY DEF Lies
  <2>2. d + Len(z) = (d + Len(x)) + Len(y)
    BY <1>1, <1>2
  <2> QED BY <2>1, <2>2
<1>5. Lies(z, d)
  BY <1>1, <1>3, <1>4 DEF Lies
<1> QED BY <1>5 DEF z

(* What is left of a piece before an offset.                               *)
LEMMA CutLies ==
  ASSUME NEW x \in Vector, NEW d, Lies(x, d), NEW pos \in 0..Len(x), Len(Disc) \in Nat
  PROVE  Lies(Cut(x, pos), d)
<1>1. Len(x) \in Nat /\ d \in Int
  BY DEF Vector, Lies
<1> DEFINE z == Cut(x, pos)
<1>2. Len(z) = pos /\ \A i \in 0..(pos - 1) : z[i + 1] = x[i + 1]
  BY CutIs
<1> HIDE DEF z
<1>3. \A i \in 0..(Len(z) - 1) : z[i + 1] = Disc[d + i + 1]
  <2> TAKE i \in 0..(Len(z) - 1)
  <2>1. i \in 0..(pos - 1) /\ i \in 0..(Len(x) - 1)
    BY <1>1, <1>2
  <2> QED BY <1>2, <2>1 DEF Lies
<1>4. d + Len(z) <= Len(Disc)
  BY <1>1, <1>2 DEF Lies
<1>5. Lies(z, d)
  BY <1>1, <1>3, <1>4 DEF Lies
<1> QED BY <1>5 DEF z

-----------------------------------------------------------------------------
(* The run is as long as it can be.                                        *)

(* No more samples agree forward than Overlap_f says.                      *)
LEMMA ForwardMost ==
  ASSUME NEW A \in Vector, NEW B \in Vector, NEW a \in 0..(Len(A) - 1), NEW b \in 0..(Len(B) - 1),
         NEW n \in Nat, a + n <= Len(A), b + n <= Len(B), Agree(A, B, a, b, n)
  PROVE  n <= Overlap_f(A, B, a, b)
<1> DEFINE most == Most(0, Least(Len(A) - a, Len(B) - b))
           S == {k \in 0..most : Agree(A, B, a, b, k)}
<1>1. Len(A) \in Nat /\ Len(B) \in Nat /\ most \in Nat /\ n <= most
  BY DEF Vector, Most, Least
<1>2. Overlap_f(A, B, a, b) = Max(S)
  BY DEF Overlap_f
<1> HIDE DEF most
<1>3. n \in S
  BY <1>1
<1>4. S \in SUBSET Int /\ S # {} /\ \A x \in S : x <= most
  <2>1. S \subseteq 0..most
    OBVIOUS
  <2> HIDE DEF S
  <2> QED BY <1>1, <1>3, <2>1
<1> HIDE DEF S
<1>5. \A x \in S : x <= Max(S)
  <2>1. most \in Int
    BY <1>1
  <2> QED BY <1>4, <2>1, MaxIs, Zenon
<1> QED BY <1>2, <1>3, <1>5

(* Nor backward than Overlap_r says.                                       *)
LEMMA BackwardMost ==
  ASSUME NEW A \in Vector, NEW B \in Vector, NEW a \in 0..(Len(A) - 1), NEW b \in 0..(Len(B) - 1),
         NEW n \in Nat, n <= a + 1, n <= b + 1, Agree(A, B, a - n + 1, b - n + 1, n)
  PROVE  n <= Overlap_r(A, B, a, b)
<1> DEFINE most == Most(0, Least(a, b) + 1)
           S == {k \in 0..most : Agree(A, B, a - k + 1, b - k + 1, k)}
<1>1. most \in Nat /\ n <= most
  BY DEF Vector, Most, Least
<1>2. Overlap_r(A, B, a, b) = Max(S)
  BY DEF Overlap_r
<1> HIDE DEF most
<1>3. n \in S
  BY <1>1
<1>4. S \in SUBSET Int /\ S # {} /\ \A x \in S : x <= most
  <2>1. S \subseteq 0..most
    OBVIOUS
  <2> HIDE DEF S
  <2> QED BY <1>1, <1>3, <2>1
<1> HIDE DEF S
<1>5. \A x \in S : x <= Max(S)
  <2>1. most \in Int
    BY <1>1
  <2> QED BY <1>4, <2>1, MaxIs, Zenon
<1> QED BY <1>2, <1>3, <1>5

(* Two pieces that overlap on the disc agree over all that they share.     *)
LEMMA PiecesAgree ==
  ASSUME NEW A \in Vector, NEW B \in Vector, NEW d, NEW e, Lies(A, d), Lies(B, e),
         NEW a \in 0..Len(A), NEW b \in 0..Len(B), NEW n \in Nat,
         a + n <= Len(A), b + n <= Len(B), d + a = e + b
  PROVE  Agree(A, B, a, b, n)
<1>1. Len(A) \in Nat /\ Len(B) \in Nat /\ d \in Int /\ e \in Int
  BY DEF Vector, Lies
<1>2. ASSUME NEW k \in 0..(n - 1) PROVE A[a + k + 1] = B[b + k + 1]
  <2>0. a + k \in 0..(Len(A) - 1) /\ b + k \in 0..(Len(B) - 1) /\ d + (a + k) + 1 = e + (b + k) + 1
    BY <1>1
  <2>1. A[(a + k) + 1] = Disc[d + (a + k) + 1]
    BY <2>0 DEF Lies
  <2>2. B[(b + k) + 1] = Disc[e + (b + k) + 1]
    BY <2>0 DEF Lies
  <2> QED BY <2>0, <2>1, <2>2
<1> QED BY <1>2 DEF Agree

(* r reaches an end of A or of B at both sides.                            *)
Complete(A, B, r, off) ==
  (r.begin = 0 \/ r.begin + off = 0) /\ (r.end = Len(A) \/ r.end + off = Len(B))

(* The run around one sample of the disc in two pieces of it.              *)
LEMMA OverlapComplete ==
  ASSUME NEW A \in Vector, NEW B \in Vector, NEW d, NEW e, Lies(A, d), Lies(B, e),
         NEW a \in 0..(Len(A) - 1), NEW b \in 0..(Len(B) - 1), d + a = e + b
  PROVE  Complete(A, B, Overlap(A, B, a, b), b - a)
<1> DEFINE back == Overlap_r(A, B, a, b)
           fore == Overlap_f(A, B, a, b)
           r == Overlap(A, B, a, b)
<1>1. Len(A) \in Nat /\ Len(B) \in Nat /\ d \in Int /\ e \in Int /\ a \in 0..Len(A) /\ b \in 0..Len(B)
  BY DEF Vector, Lies
<1>2. A[a + 1] = B[b + 1]
  <2>1. A[a + 1] = Disc[d + a + 1] /\ B[b + 1] = Disc[e + b + 1]
    BY DEF Lies
  <2> QED BY <1>1, <2>1
<1>3. fore \in Nat /\ a + fore <= Len(A) /\ b + fore <= Len(B)
  BY <1>2, ForwardIs
<1>4. back \in Nat /\ back <= a + 1 /\ back <= b + 1
  BY <1>2, BackwardIs
<1>5. r = [begin |-> a + 1 - back, end |-> a + fore]
  BY DEF Overlap
<1>6. a + fore = Len(A) \/ b + fore = Len(B)
  <2> DEFINE n == Least(Len(A) - a, Len(B) - b)
  <2>1. n \in Nat /\ a + n <= Len(A) /\ b + n <= Len(B) /\ (a + n = Len(A) \/ b + n = Len(B))
    BY <1>1 DEF Least
  <2> HIDE DEF n
  <2>2. Agree(A, B, a, b, n)
    BY <1>1, <2>1, PiecesAgree
  <2>3. n <= fore
    BY <2>1, <2>2, ForwardMost
  <2> HIDE DEF fore
  <2> QED BY <1>1, <1>3, <2>1, <2>3
<1>7. back = a + 1 \/ back = b + 1
  <2> DEFINE n == Least(a, b) + 1
             p == a - n + 1
             q == b - n + 1
  <2>1. /\ n \in Nat /\ n <= a + 1 /\ n <= b + 1 /\ (n = a + 1 \/ n = b + 1)
        /\ p \in 0..Len(A) /\ q \in 0..Len(B) /\ p + n <= Len(A) /\ q + n <= Len(B) /\ d + p = e + q
    BY <1>1 DEF Least
  <2> HIDE DEF n
  <2>2. Agree(A, B, p, q, n)
    <3> HIDE DEF p, q
    <3> QED BY <1>1, <2>1, PiecesAgree
  <2>3. n <= back
    BY <2>1, <2>2, BackwardMost
  <2> HIDE DEF back
  <2> QED BY <1>1, <1>4, <2>1, <2>3
<1> HIDE DEF back, fore, r
<1>8. r.begin = a + 1 - back /\ r.end = a + fore
  BY <1>5
<1>9. r.begin = 0 \/ r.begin + (b - a) = 0
  BY <1>1, <1>4, <1>7, <1>8
<1>10. r.end = Len(A) \/ r.end + (b - a) = Len(B)
  BY <1>1, <1>3, <1>6, <1>8
<1> QED BY <1>9, <1>10 DEF Complete, r

-----------------------------------------------------------------------------
(* Merging pieces of the disc.                                             *)

(* The root is the disc from d on, and the fragment that is merged is the  *)
(* disc from where the offset puts it on: there is no rift.                *)
Placed(d) ==
  /\ Lies(root.vec, d)
  /\ Merging => l = v.vec /\ Lies(l, d - offset) /\ Complete(root.vec, l, run, offset)

(* A sound is in one place only.                                           *)
Told == \A i, j \in 1..Len(Disc) : Disc[i] = Disc[j] /\ Disc[i] # 0 => i = j

(* A match puts a fragment where it is on the disc, unless a drift moved   *)
(* it meanwhile.                                                           *)
LEMMA BeginMergePlaces ==
  ASSUME Typed, NEW f \in todo, NEW m \in MatchFound(f), NEW c, BeginMerge(f, m, c),
         f \notin c.moved, NEW d, Lies(root.vec, d), NEW e, Lies(f.vec, e), Told, Disc \in Vector
  PROVE  Placed(d)' /\ offset' = d - e
<1>1. f \in Fragment /\ root \in Root /\ f.vec \in Vector /\ root.vec \in Vector
  BY FieldsIs DEF Typed, FragmentsTyped, RootTyped
<1>3. l' = f.vec /\ v' = f /\ root' = root /\ drive' = drive
  BY DEF BeginMerge, rootVars, Moved
<1>2. /\ run' = RunAt(f, m[1], m[2])
      /\ offset' = (m[2] - f.begin) - (m[1] - root.begin)
  <2>1. offset' = (m[2] - v'.begin) - (m[1] - root.begin) /\ run' = RunAt(f, m[1], m[2])
    BY DEF BeginMerge
  <2> QED BY <1>3, <2>1
<1> DEFINE a == m[1] - root.begin
           b == m[2] - f.begin
<1>4. /\ a \in 0..(Len(root.vec) - 1) /\ b \in 0..(Len(f.vec) - 1)
      /\ root.vec[a + 1] = f.vec[b + 1] /\ root.vec[a + 1] # 0
  BY <1>1, MatchFoundIs
<1>5. run' = Overlap(root.vec, f.vec, a, b) /\ offset' = b - a
  BY <1>2 DEF RunAt
<1> HIDE DEF a, b
<1>6. Len(root.vec) \in Nat /\ Len(f.vec) \in Nat /\ Len(Disc) \in Nat /\ d \in Int /\ e \in Int
  BY <1>1 DEF Vector, Lies
<1>7. d + a = e + b
  <2> DEFINE i == d + a + 1
             j == e + b + 1
  <2>1. root.vec[a + 1] = Disc[i] /\ f.vec[b + 1] = Disc[j]
    BY <1>4 DEF Lies
  <2>2. i \in 1..Len(Disc) /\ j \in 1..Len(Disc)
    BY <1>4, <1>6 DEF Lies
  <2>3. i = j
    <3> HIDE DEF i, j
    <3> QED BY <1>4, <2>1, <2>2 DEF Told
  <2>4. a \in Int /\ b \in Int
    BY <1>4
  <2> QED BY <1>6, <2>3, <2>4
<1>8. Complete(root.vec, f.vec, Overlap(root.vec, f.vec, a, b), b - a)
  BY <1>1, <1>4, <1>7, OverlapComplete
<1>9. offset' = d - e /\ d - offset' = e
  <2>1. a \in Int /\ b \in Int
    BY <1>4, <1>6
  <2>2. b - a = d - e /\ d - (b - a) = e
    BY <1>6, <1>7, <2>1
  <2> QED BY <1>5, <2>2
<1>10. Lies(root.vec, d)' /\ Lies(l, d - offset)' /\ Complete(root.vec, l, run, offset)'
  BY <1>3, <1>5, <1>8, <1>9 DEF Lies, Disc, Complete
<1> QED BY <1>3, <1>9, <1>10 DEF Placed

(* Then the merge goes straight to the glom.                               *)
LEMMA MergeStepPlaced ==
  ASSUME RunInv, upset # "moved", NEW d, Placed(d),
         (pc = "leading" /\ LeadingStep) \/ (pc = "trailing" /\ TrailingStep)
  PROVE  /\ pc' \in {"trailing", "glom"}
         /\ UNCHANGED <<drive, frags, rootVars, list, todo, flag, mergeVars, driftVars>>
<1>1. Merging /\ Complete(root.vec, l, run, offset)
  BY DEF Placed, Merging
<1>2. Shared(root.vec, l, run, offset) /\ run \in Run /\ offset \in Int /\ l \in Vector /\ root \in Root
  BY <1>1 DEF RunInv, RunShared, Lined, Typed, MergeTyped, RootTyped
<1>3. run.begin \in Int /\ run.end \in Int /\ Len(l) \in Nat /\ Len(root.vec) \in Nat
  BY <1>2, FieldsIs DEF Run, Vector
<1>4. ~LeadingRift
  BY <1>1, <1>2, <1>3 DEF LeadingRift, Complete, beginL
<1>5. ~TrailingRift
  BY <1>1, <1>2, <1>3 DEF TrailingRift, Complete, endL
<1>6. CASE pc = "leading" /\ LeadingStep
  <2>1. PICK m \in LeadingRifts \cup {NoRift} :
          LeadingInRoot(m) \/ LeadingInFragment(m) \/ LeadingGarbage(m) \/ EndLeading(m)
    BY <1>6 DEF LeadingStep
  <2>2. EndLeading(m)
    BY <1>4, <2>1 DEF LeadingInRoot, LeadingInFragment, LeadingGarbage, LeadingRifts
  <2> QED BY <2>2 DEF EndLeading
<1>7. CASE pc = "trailing" /\ TrailingStep
  <2>1. ~CutRootSilence /\ ~DropFragmentSilence
    BY <1>5 DEF CutRootSilence, DropFragmentSilence, Unexplained, TrailingRifts
  <2>2. PICK m \in TrailingRifts \cup {NoRift} :
          TrailingInRoot(m) \/ TrailingInFragment(m) \/ TrailingGarbage(m) \/ EndTrailing(m)
    BY <1>7, <2>1 DEF TrailingStep
  <2>3. EndTrailing(m)
    BY <1>5, <2>2 DEF TrailingInRoot, TrailingInFragment, TrailingGarbage, TrailingRifts
  <2> QED BY <2>3 DEF EndTrailing
<1> QED BY <1>6, <1>7

(* The glom ends the root where the fragment ends.                         *)
LEMMA GlommedPlaced ==
  ASSUME RunInv, Merging, upset # "moved", NEW d, Placed(d), Disc \in Vector
  PROVE  /\ Glommed \in Root /\ Glommed.begin = root.begin
         /\ Lies(Glommed.vec, d) /\ Len(Glommed.vec) = Len(l) - offset
<1>1. /\ Shared(root.vec, l, run, offset) /\ run \in Run /\ offset \in Int /\ l \in Vector
      /\ root \in Root /\ root.vec \in Vector
  BY FieldsIs DEF RunInv, RunShared, Lined, Typed, MergeTyped, RootTyped
<1>2. run.begin \in Int /\ run.end \in Int /\ Len(l) \in Nat /\ Len(root.vec) \in Nat /\ endL \in Int
  BY <1>1 DEF Run, Vector, endL
<1>3. /\ run.end \in 0..Len(root.vec) /\ endL \in 0..Len(l) /\ Len(l) \in endL..Len(l)
      /\ endL = run.end + offset
  BY <1>1, <1>2 DEF Shared, endL
<1>4. Lies(root.vec, d) /\ Lies(l, d - offset)
  BY DEF Placed
<1> DEFINE x == Cut(root.vec, run.end)
           y == Piece(l, endL, Len(l))
           z == x \o y
<1>5. x \in Vector /\ Len(x) = run.end /\ Lies(x, d)
  BY <1>1, <1>2, <1>3, <1>4, CutIs, CutLies DEF Vector
<1>6. y \in Vector /\ Len(y) = Len(l) - endL
  BY <1>1, <1>3, PieceIs
<1>7. Lies(y, d - offset + endL)
  <2> DEFINE e == d - offset
  <2> HIDE DEF e
  <2>1. Lies(l, e)
    BY <1>4 DEF e
  <2>2. Lies(y, e + endL)
    BY <1>1, <1>3, <2>1, PieceLies
  <2> QED BY <2>2 DEF e
<1> HIDE DEF x, y
<1>8. d \in Int /\ (d - offset) + endL = d + Len(x)
  BY <1>1, <1>2, <1>3, <1>4, <1>5 DEF Lies
<1>9. z \in Vector /\ Len(z) = Len(l) - offset
  <2>1. z \in Vector /\ Len(z) = Len(x) + Len(y)
    BY <1>5, <1>6, JoinIs
  <2> HIDE DEF z
  <2>2. run.end + (Len(l) - endL) = Len(l) - offset
    BY <1>1, <1>2, <1>3
  <2> QED BY <1>5, <1>6, <2>1, <2>2
<1>10. Lies(z, d)
  BY <1>5, <1>6, <1>7, <1>8, JoinLies
<1>11. Glommed = [root EXCEPT !.vec = z]
  BY DEF Glommed, x, y
<1> HIDE DEF z
<1> QED BY <1>1, <1>9, <1>10, <1>11, EditedIs

-----------------------------------------------------------------------------
(* Only what the drive delivered is merged, and only what is listed; and   *)
(* there is a drift only with drives that may have one.                    *)

Owned(g) ==
  \E f \in drive.fragments :
    g.vec = f.vec /\ g.last = f.last /\ (drive.drifts = {} => g = f)

Steadfast == drive.drifts = {} => dyndrift = 0 /\ lost = FALSE /\ misled = FALSE

OwnInv ==
  /\ \A g \in frags \cup list \cup todo : Owned(g)
  /\ pc # "idle" => frags \subseteq list
  /\ Merging => Owned(v) /\ (upset = "moved" => misled = TRUE)
  /\ Steadfast

(* Where no drift may be there is none.                                    *)
LEMMA NoDriftIs ==
  ASSUME drive.drifts = {}, NEW d \in Drifts
  PROVE  d = NoDrift /\ d.by = 0 /\ d.moved = {} /\ d.torn = {}
<1>1. d = NoDrift
  BY DEF Drifts
<1> QED BY <1>1 DEF NoDrift

LEMMA StaysSteadfast ==
  ASSUME Steadfast, drive.drifts = {}, NEW d \in Drifts, DriftBy(d)
  PROVE  dyndrift' = 0 /\ lost' = FALSE /\ misled = FALSE
<1>1. d.by = 0 /\ d.torn = {}
  BY NoDriftIs
<1>2. dyndrift = 0 /\ lost = FALSE /\ misled = FALSE
  BY DEF Steadfast
<1>3. dyndrift' = 0
  <2>1. dyndrift' = dyndrift + d.by
    BY DEF DriftBy
  <2> QED BY <1>1, <1>2, <2>1
<1>4. lost' = FALSE
  <2>1. lost' = (lost \/ d.torn # {})
    BY DEF DriftBy
  <2> QED BY <1>1, <1>2, <2>1, Zenon
<1> QED BY <1>2, <1>3, <1>4

(* A fragment that a drift moved is still one that was delivered.          *)
LEMMA MovedOwned ==
  ASSUME FragmentsTyped, NEW f \in Fragment, Owned(f), NEW d \in Drifts, NEW e,
         e.by = d.by, e.moved = d.moved
  PROVE  Owned(Moved(f, e))
<1>1. d.by \in Int
  BY DriftIs DEF FragmentsTyped
<1>2. /\ Moved(f, e).vec = f.vec /\ Moved(f, e).last = f.last
      /\ f \notin e.moved => Moved(f, e) = f
  BY <1>1, MovedIs
<1>3. drive.drifts = {} => Moved(f, e) = f
  BY <1>2, NoDriftIs
<1> QED BY <1>2, <1>3 DEF Owned

(* So are those that are left of a list.                                   *)
LEMMA AfterOwned ==
  ASSUME FragmentsTyped, NEW S, S \subseteq Fragment, \A g \in S : Owned(g),
         NEW d \in Drifts, NEW e, e.by = d.by, e.moved = d.moved
  PROVE  \A g \in After(S, e) : Owned(g)
BY MovedOwned DEF After

(* The steps that deliver nothing and list nothing.                        *)
LEMMA OwnKept ==
  ASSUME OwnInv, drive' = drive, frags' \subseteq frags, list' = list, todo' \subseteq todo,
         pc # "idle", Merging' => Merging /\ UNCHANGED <<v, upset>>, UNCHANGED driftVars
  PROVE  OwnInv'
<1>1. \A g \in frags' \cup list' \cup todo' : Owned(g)'
  BY DEF OwnInv, Owned
<1>2. Merging' => Owned(v)'
  BY DEF OwnInv, Owned
<1>3. UNCHANGED <<dyndrift, lost, misled>>
  BY DEF driftVars
<1> QED BY <1>1, <1>2, <1>3 DEF OwnInv, Steadfast

(* The steps that may be followed by a drift.                              *)
LEMMA OwnLeft ==
  ASSUME OwnInv, FragmentsTyped, drive' = drive, pc # "idle", NEW d \in Drifts,
         NEW e, e.by = d.by, e.moved = d.moved, NEW used, DriftBy(d), Left(e, used),
         drive.drifts = {} => misled' = misled,
         Merging' => Owned(v') /\ (upset' = "moved" => misled' = TRUE)
  PROVE  OwnInv'
<1>1. /\ frags' = After(frags \ used, e) /\ list' = After(list, e)
      /\ todo' = After(todo \ used, e)
  BY DEF Left
<1>2. /\ \A g \in frags' : Owned(g)
      /\ \A g \in list' : Owned(g)
      /\ \A g \in todo' : Owned(g)
  <2>1. /\ frags \ used \subseteq Fragment /\ \A g \in frags \ used : Owned(g)
    BY DEF FragmentsTyped, OwnInv
  <2>2. /\ list \subseteq Fragment /\ \A g \in list : Owned(g)
    BY DEF FragmentsTyped, OwnInv
  <2>3. /\ todo \ used \subseteq Fragment /\ \A g \in todo \ used : Owned(g)
    BY DEF FragmentsTyped, OwnInv
  <2>4. \A g \in After(frags \ used, e) : Owned(g)
    BY <2>1, AfterOwned
  <2>5. \A g \in After(list, e) : Owned(g)
    BY <2>2, AfterOwned
  <2>6. \A g \in After(todo \ used, e) : Owned(g)
    BY <2>3, AfterOwned
  <2> QED BY <1>1, <2>4, <2>5, <2>6
<1>3. \A g \in frags' \cup list' \cup todo' : Owned(g)'
  BY <1>2 DEF Owned
<1>4. frags' \subseteq list'
  <2>1. frags \ used \subseteq list
    BY DEF OwnInv
  <2> QED BY <1>1, <2>1, AfterGrows
<1>5. Merging' => Owned(v)' /\ (upset' = "moved" => misled' = TRUE)
  BY DEF Owned
<1>6. Steadfast'
  <2> SUFFICES ASSUME drive.drifts = {} PROVE dyndrift' = 0 /\ lost' = FALSE /\ misled' = FALSE
    BY DEF Steadfast
  <2>1. dyndrift' = 0 /\ lost' = FALSE /\ misled = FALSE
    BY StaysSteadfast DEF OwnInv
  <2> QED BY <2>1
<1> QED BY <1>3, <1>4, <1>5, <1>6 DEF OwnInv

(* Every step keeps it.                                                    *)
LEMMA OwnInvNext ==
  ASSUME OwnInv, RunInv, [Next]_vars
  PROVE  OwnInv'
<1>0. FragmentsTyped
  BY DEF RunInv, Typed
<1>1. ASSUME NEW f \in drive.fragments, NEW d \in Drifts, Verify(f, d) PROVE OwnInv'
  <2> DEFINE g == [f EXCEPT !.begin = @ - dyndrift']
  <2>1. /\ pc = "idle" /\ pc' = pc /\ frags' = After(frags, d) \cup {g} /\ DriftBy(d)
        /\ UNCHANGED <<drive, list, todo, misled>>
    BY <1>1 DEF Verify
  <2>2. f \in Fragment
    BY <1>0, DiscIs
  <2>3. \A h \in After(frags, d) : Owned(h)
    <3>1. frags \subseteq Fragment /\ \A h \in frags : Owned(h)
      BY <1>0 DEF OwnInv, FragmentsTyped
    <3> QED BY <1>0, <3>1, AfterOwned
  <2>4. drive.drifts = {} => dyndrift' = 0 /\ lost' = FALSE
    BY <2>1, StaysSteadfast DEF OwnInv
  <2>5. Owned(g)
    <3>1. g = [begin |-> f.begin - dyndrift', vec |-> f.vec, last |-> f.last]
      BY <2>2 DEF Fragment
    <3>2. drive.drifts = {} => g = f
      <4>1. f = [begin |-> f.begin, vec |-> f.vec, last |-> f.last] /\ f.begin \in Int
        BY <2>2 DEF Fragment
      <4>2. dyndrift' = 0 => f.begin - dyndrift' = f.begin
        BY <4>1
      <4> QED BY <2>4, <3>1, <4>1, <4>2
    <3> HIDE DEF g
    <3> QED BY <3>1, <3>2 DEF Owned
  <2> HIDE DEF g
  <2>6. \A h \in frags' \cup list' \cup todo' : Owned(h)'
    BY <2>1, <2>3, <2>5 DEF OwnInv, Owned
  <2>7. Steadfast'
    BY <2>1, <2>4 DEF OwnInv, Steadfast
  <2> QED BY <2>1, <2>6, <2>7 DEF OwnInv, Merging
<1>2. CASE ReturnSector
  BY <1>2 DEF ReturnSector, OwnInv, Merging, driftVars, Owned, Steadfast
<1>3. CASE StartStage2
  <2>1. /\ frags' \subseteq frags /\ list' = frags' /\ todo' = frags' /\ pc' = "pass" /\ drive' = drive
        /\ UNCHANGED <<dyndrift, lost, misled>>
    BY <1>3 DEF StartStage2, driftVars
  <2> QED BY <2>1 DEF OwnInv, Merging, Owned, Steadfast
<1>4. CASE pc = "pass" /\ VisitStep
  <2>1. PICK f \in todo :
          \/ InitRoot(f) \/ PassBy(f)
          \/ \E d \in Drifts, m \in MatchFound(f) : BeginMerge(f, m, d)
          \/ NoMatch(f)
    BY <1>4 DEF VisitStep
  <2>2. CASE InitRoot(f)
    <3>1. /\ drive' = drive /\ frags' \subseteq frags /\ list' = list /\ todo' \subseteq todo
          /\ pc = "pass" /\ pc' = pc /\ UNCHANGED driftVars
      BY <2>2 DEF InitRoot, Free, Visited
    <3> QED BY <3>1, OwnKept DEF Merging
  <2>3. CASE PassBy(f)
    <3>1. /\ drive' = drive /\ frags' \subseteq frags /\ list' = list /\ todo' \subseteq todo
          /\ pc = "pass" /\ pc' = pc /\ UNCHANGED driftVars
      BY <2>3 DEF PassBy, Visited
    <3> QED BY <3>1, OwnKept DEF Merging
  <2>4. CASE \E d \in Drifts, m \in MatchFound(f) : BeginMerge(f, m, d)
    <3> PICK d \in Drifts, m \in MatchFound(f) : BeginMerge(f, m, d)
      BY <2>4
    <3> DEFINE e == [d EXCEPT !.torn = @ \ {f}]
    <3>1. /\ drive' = drive /\ DriftBy(d) /\ Left(e, {}) /\ v' = Moved(f, d)
          /\ e.by = d.by /\ e.moved = d.moved
          /\ upset' = IF f \in d.moved THEN "moved" ELSE IF f \in d.torn THEN "torn" ELSE "none"
          /\ misled' = (misled \/ f \in d.moved)
      BY DEF BeginMerge, Drifts, NoDrift
    <3> HIDE DEF e
    <3>2. f \in Fragment /\ Owned(f)
      BY <1>0, <2>1 DEF OwnInv, FragmentsTyped
    <3>3. Owned(v')
      BY <1>0, <3>1, <3>2, MovedOwned
    <3>4. upset' = "moved" => misled' = TRUE
      BY <3>1
    <3>5. drive.drifts = {} => misled' = misled
      BY <3>1, NoDriftIs DEF OwnInv, Steadfast
    <3> QED BY <1>0, <1>4, <3>1, <3>3, <3>4, <3>5, OwnLeft
  <2>5. CASE NoMatch(f)
    <3>1. /\ drive' = drive /\ frags' \subseteq frags /\ list' = list /\ todo' \subseteq todo
          /\ pc = "pass" /\ pc' = pc /\ UNCHANGED driftVars
      BY <2>5 DEF NoMatch, Free, Visited
    <3> QED BY <3>1, OwnKept DEF Merging
  <2> QED BY <2>1, <2>2, <2>3, <2>4, <2>5
<1>5. CASE EndPass
  <2>1. /\ drive' = drive /\ frags' = frags /\ pc = "pass" /\ UNCHANGED <<dyndrift, lost, misled>>
        /\ SilencePass \/ NextPass(flag)
    BY <1>5 DEF EndPass, driftVars
  <2>2. CASE SilencePass
    BY <2>1, <2>2 DEF SilencePass, OwnInv, Merging, Owned, Steadfast
  <2>3. CASE NextPass(flag)
    BY <2>1, <2>3 DEF NextPass, OwnInv, Merging, Owned, Steadfast
  <2> QED BY <2>1, <2>2, <2>3
<1>6. CASE pc = "silence" /\ SilenceStep
  <2>1. CASE EndSilence
    <3>1. drive' = drive /\ frags' = frags /\ NextPass(flag) /\ UNCHANGED <<dyndrift, lost, misled>>
      BY <2>1 DEF EndSilence, driftVars
    <3> QED BY <3>1 DEF NextPass, OwnInv, Merging, Owned, Steadfast
  <2>2. ASSUME NEW f \in todo, NEW d \in Drifts, SilenceMatch(f, d) PROVE OwnInv'
    <3>1. /\ drive' = drive /\ pc = "silence" /\ pc' = pc /\ DriftBy(d) /\ Left(d, {f}) /\ misled' = misled
      BY <2>2 DEF SilenceMatch
    <3> QED BY <1>0, <3>1, OwnLeft DEF Merging
  <2>3. ASSUME NEW f \in todo, NoSilenceMatch(f) PROVE OwnInv'
    <3>1. /\ drive' = drive /\ frags' \subseteq frags /\ list' = list /\ todo' \subseteq todo
          /\ pc = "silence" /\ pc' = pc /\ UNCHANGED driftVars
      BY <2>3 DEF NoSilenceMatch, Visited
    <3> QED BY <3>1, OwnKept DEF Merging
  <2> QED BY <1>6, <2>1, <2>2, <2>3 DEF SilenceStep
<1>7. ASSUME Merging, UNCHANGED <<drive, frags, list, todo, v, upset, driftVars>> PROVE OwnInv'
  BY <1>7, OwnKept DEF Merging
<1>8. ASSUME Merging, Merged, Free(v), Visited(v), UNCHANGED <<drive, list, driftVars>> PROVE OwnInv'
  <2>1. frags' \subseteq frags /\ todo' \subseteq todo /\ pc' = "pass"
    BY <1>8 DEF Merged, Free, Visited
  <2> QED BY <1>8, <2>1, OwnKept DEF Merging
<1>9. CASE pc = "leading" /\ LeadingStep
  <2>1. UNCHANGED <<drive, frags, list, todo, v, upset, driftVars>>
    BY <1>9 DEF LeadingStep, LeadingInRoot, LeadingInFragment, LeadingGarbage, EndLeading, mergeVars
  <2> QED BY <1>7, <1>9, <2>1 DEF Merging
<1>10. CASE pc = "trailing" /\ TrailingStep
  <2>1. CASE DropFragmentSilence
    BY <1>8, <1>10, <2>1 DEF DropFragmentSilence, Merging
  <2>2. CASE ~DropFragmentSilence
    <3>1. UNCHANGED <<drive, frags, list, todo, v, upset, driftVars>>
      BY <1>10, <2>2 DEF TrailingStep, TrailingInRoot, TrailingInFragment, TrailingGarbage, EndTrailing,
         CutRootSilence, mergeVars
    <3> QED BY <1>7, <1>10, <3>1 DEF Merging
  <2> QED BY <2>1, <2>2
<1>11. ASSUME NEW d \in Drifts, Glom(d) PROVE OwnInv'
  <2>1. /\ drive' = drive /\ pc = "glom" /\ pc' = "pass" /\ DriftBy(d) /\ Left(d, {v}) /\ misled' = misled
    BY <1>11 DEF Glom, Merged
  <2> QED BY <1>0, <2>1, OwnLeft DEF Merging
<1>12. CASE NoGrowth
  BY <1>8, <1>12 DEF NoGrowth, Merging
<1>14. CASE GoAstray
  <2>1. /\ pc' = "undefined" /\ pc # "idle"
        /\ UNCHANGED <<drive, frags, list, todo, driftVars>>
    BY <1>14 DEF GoAstray, LeadingAstray, TrailingAstray, GlomAstray, LeadingRift, TrailingRift
  <2> QED BY <2>1, OwnKept DEF Merging
<1>13. CASE UNCHANGED vars
  BY <1>13 DEF vars, mergeVars, driftVars, OwnInv, Merging, Owned, Steadfast
<1> QED
  BY <1>1, <1>2, <1>3, <1>4, <1>5, <1>6, <1>9, <1>10, <1>11, <1>12, <1>13, <1>14 DEF Next, Step

(* It holds always.                                                        *)
LEMMA OwnInvAlways == Spec => []OwnInv
<1>1. Init => OwnInv
  BY DEF Init, OwnInv, Merging, Steadfast
<1>2. OwnInv /\ RunInv /\ [Next]_vars => OwnInv'
  BY OwnInvNext
<1> QED BY <1>1, <1>2, RunInvAlways, PTL DEF Spec

-----------------------------------------------------------------------------
(* From whole fragments a whole root.                                      *)

(* What the trim leaves of a root.                                         *)
LEMMA TrimmedLies ==
  ASSUME RootTyped, NEW d, Lies(root.vec, d), Len(Disc) \in Nat
  PROVE  /\ Forgotten \in Int
         /\ Trimmed # root => Trimmed.begin = Forgotten
         /\ Trimmed # root /\ Forgotten <= End(root) =>
              /\ Lies(Trimmed.vec, d + (Forgotten - root.begin))
              /\ Len(Trimmed.vec) = End(root) - Forgotten
         /\ Trimmed # root /\ Forgotten > End(root) => Lies(Trimmed.vec, d)
<1>1. /\ root \in Root /\ root.vec \in Vector /\ root.begin \in Int /\ Len(root.vec) \in Nat
      /\ End(root) = root.begin + Len(root.vec) /\ Forgotten \in Int
  BY FieldsIs, Stage2Assumption DEF RootTyped, Forgotten
<1> SUFFICES ASSUME Trimmed # root
             PROVE  /\ Trimmed.begin = Forgotten
                    /\ Forgotten <= End(root) =>
                         /\ Lies(Trimmed.vec, d + (Forgotten - root.begin))
                         /\ Len(Trimmed.vec) = End(root) - Forgotten
                    /\ Forgotten > End(root) => Lies(Trimmed.vec, d)
  BY <1>1
<1> DEFINE n == Forgotten - root.begin
           x == root.vec
           z == Remove(x, 0, n)
<1>2. Trimmed = [begin |-> Forgotten, vec |-> z] /\ root.begin < Forgotten
  BY <1>1 DEF Trimmed
<1>3. n \in Nat /\ n > 0 /\ (n <= Len(x) <=> Forgotten <= End(root)) /\ d \in Int
      /\ Len(x) - n = End(root) - Forgotten
  BY <1>1, <1>2 DEF Lies
<1> HIDE DEF n, z
<1>4. ASSUME n <= Len(x) PROVE Lies(z, d + n) /\ Len(z) = Len(x) - n
  <2>1. /\ z \in Vector /\ Len(z) = Len(x) - n
        /\ \A i \in (0 + n)..(Len(x) - 1) : z[(i - n) + 1] = x[i + 1]
    <3>1. 0 \in 0..Len(x) /\ 0 + n <= Len(x)
      BY <1>1, <1>3, <1>4
    <3> QED BY <1>1, <1>3, <3>1, RemoveIs DEF z
  <2>2. ASSUME NEW i \in 0..(Len(z) - 1) PROVE z[i + 1] = Disc[(d + n) + i + 1]
    <3> DEFINE k == i + n
    <3>1. /\ k \in (0 + n)..(Len(x) - 1) /\ k \in 0..(Len(x) - 1) /\ (k - n) + 1 = i + 1
          /\ d + k + 1 = (d + n) + i + 1
      BY <1>1, <1>3, <1>4, <2>1
    <3> HIDE DEF k
    <3>2. z[(k - n) + 1] = x[k + 1]
      BY <2>1, <3>1
    <3>3. x[k + 1] = Disc[d + k + 1]
      BY <3>1 DEF Lies
    <3> QED BY <3>1, <3>2, <3>3
  <2>3. d + n \in Int /\ 0 <= d + n /\ d + n + Len(z) <= Len(Disc)
    <3>1. 0 <= d /\ d + Len(x) <= Len(Disc)
      BY DEF Lies
    <3>2. Len(x) \in Nat /\ Len(Disc) \in Nat /\ n \in Nat /\ d \in Int /\ Len(z) = Len(x) - n
      BY <1>1, <1>3, <2>1
    <3> HIDE DEF x
    <3> QED BY <3>1, <3>2
  <2> QED BY <2>1, <2>2, <2>3 DEF Lies
<1>5. ASSUME n > Len(x) PROVE Lies(z, d)
  <2>1. z = Remove(x, 0, Len(x))
    <3>1. (IF n < 0 \/ 0 + n > Len(x) THEN Len(x) - 0 ELSE n) = Len(x)
      BY <1>1, <1>3, <1>5
    <3>2. (IF Len(x) < 0 \/ 0 + Len(x) > Len(x) THEN Len(x) - 0 ELSE Len(x)) = Len(x)
      BY <1>1
    <3> QED BY <3>1, <3>2 DEF Remove, z
  <2>2. Len(Remove(x, 0, Len(x))) = Len(x) - Len(x)
    <3>1. 0 \in 0..Len(x) /\ 0 + Len(x) <= Len(x)
      BY <1>1
    <3> QED BY <1>1, <3>1, RemoveIs
  <2>3. Len(z) = 0
    BY <1>1, <2>1, <2>2
  <2> QED BY <1>1, <2>3 DEF Lies
<1>6. Trimmed.begin = Forgotten /\ Trimmed.vec = z
  BY <1>2
<1> QED BY <1>1, <1>3, <1>4, <1>5, <1>6 DEF n

(* With no silence on the disc, and no fragment that is silent, there is   *)
(* nothing to match by silence.                                            *)
LEMMA NoLeadingSilence ==
  ASSUME NEW f \in Fragment, \A i \in 0..(Len(f.vec) - 1) : f.vec[i + 1] # 0
  PROVE  LeadingSilence(f) = 0
<1> DEFINE S == {i \in f.begin..(End(f) - 1) : At(f, i) # 0}
<1>1. f.begin \in Int /\ End(f) \in Int /\ Len(f.vec) \in Nat /\ End(f) = f.begin + Len(f.vec)
  BY FieldsIs
<1>2. Sound(f) = IF S = {} THEN End(f) ELSE Min(S)
  BY DEF Sound
<1>3. CASE Len(f.vec) = 0
  <2>1. Sound(f) \in f.begin..End(f)
    BY SoundIs
  <2> QED BY <1>1, <1>3, <2>1 DEF LeadingSilence
<1>4. CASE Len(f.vec) > 0
  <2>1. f.begin \in S
    <3>1. f.begin \in f.begin..(End(f) - 1) /\ f.begin - f.begin = 0 /\ 0 \in 0..(Len(f.vec) - 1)
      BY <1>1, <1>4
    <3>2. f.vec[0 + 1] # 0
      BY <3>1
    <3> QED BY <3>1, <3>2 DEF At
  <2>2. S \in SUBSET Int /\ \A x \in S : f.begin <= x
    BY <1>1
  <2> HIDE DEF S
  <2>3. Min(S) \in S /\ \A x \in S : Min(S) <= x
    BY <1>1, <2>1, <2>2, MinIs
  <2>4. Min(S) \in Int /\ Min(S) <= f.begin /\ f.begin <= Min(S)
    BY <2>1, <2>2, <2>3
  <2>5. Sound(f) = f.begin
    BY <1>1, <1>2, <2>1, <2>4
  <2> QED BY <1>1, <2>5 DEF LeadingSilence
<1> QED BY <1>1, <1>3, <1>4

(* The disc has no silence, and the fragments are whole.                   *)
Sounding == Musical /\ Clean

WholeInv == Sounding /\ ~misled /\ root # NoRoot => \E d \in Nat : Placed(d)

(* Of such fragments none begins with silence.                             *)
LEMMA SoundingIs ==
  ASSUME Sounding, FragmentsTyped, NEW f \in Fragment, Owned(f)
  PROVE  /\ Told
         /\ \E e \in Nat : Lies(f.vec, e)
         /\ LeadingSilence(f) < MIN_SILENCE_BOUNDARY
<1>1. Disc \in Vector /\ Len(Disc) \in Nat
  BY DiscIs
<1>2. f.vec \in Vector /\ Len(f.vec) \in Nat
  BY <1>1, FieldsIs
<1>3. PICK e \in 0..Len(Disc) : PieceOfDisc(f.vec, e)
  BY DEF Sounding, Clean, Owned
<1>4. Lies(f.vec, e) /\ e \in Nat
  BY <1>1, <1>2, <1>3, LiesIs
<1>5. \A i \in 0..(Len(f.vec) - 1) : f.vec[i + 1] # 0
  <2> TAKE i \in 0..(Len(f.vec) - 1)
  <2>1. e + i + 1 \in 1..Len(Disc) /\ f.vec[i + 1] = Disc[e + i + 1]
    BY <1>1, <1>2, <1>4 DEF Lies
  <2> QED BY <2>1 DEF Sounding, Musical
<1>6. LeadingSilence(f) < MIN_SILENCE_BOUNDARY
  <2>1. LeadingSilence(f) = 0
    BY <1>1, <1>5, NoLeadingSilence
  <2> QED BY <2>1, Stage2Assumption
<1>7. Told
  BY DEF Sounding, Musical, Distinct, Told
<1> QED BY <1>1, <1>4, <1>6, <1>7

(* A root that stays, or is the disc from somewhere on, with no merge.     *)
LEMMA WholeKept ==
  ASSUME WholeInv, drive' = drive, root' = root, misled' = misled,
         UNCHANGED mergeVars \/ ~Merging', Merging' => Merging
  PROVE  WholeInv'
<1> SUFFICES ASSUME Sounding', ~misled', (root # NoRoot)' PROVE (\E d \in Nat : Placed(d))'
  BY DEF WholeInv
<1>1. Sounding /\ ~misled /\ root # NoRoot
  BY DEF Sounding, Musical, Distinct, Clean, PieceOfDisc, Disc
<1>2. PICK d \in Nat : Placed(d)
  BY <1>1 DEF WholeInv
<1>3. Lies(root.vec, d)'
  BY <1>2 DEF Placed, Lies, Disc
<1>4. Merging' => (l = v.vec /\ Lies(l, d - offset) /\ Complete(root.vec, l, run, offset))'
  <2> HAVE Merging'
  <2>1. UNCHANGED mergeVars /\ Merging
    OBVIOUS
  <2>2. l = v.vec /\ Lies(l, d - offset) /\ Complete(root.vec, l, run, offset)
    BY <1>2, <2>1 DEF Placed
  <2> QED BY <2>1, <2>2 DEF mergeVars, Lies, Disc, Complete
<1> QED BY <1>3, <1>4 DEF Placed

(* A new root, with no merge.                                              *)
LEMMA WholeNew ==
  ASSUME drive' = drive, misled' = misled, ~Merging',
         Sounding /\ ~misled /\ root' # NoRoot => \E d \in Nat : Lies(root'.vec, d)
  PROVE  WholeInv'
<1> SUFFICES ASSUME Sounding', ~misled', (root # NoRoot)' PROVE (\E d \in Nat : Placed(d))'
  BY DEF WholeInv
<1>1. Sounding /\ ~misled
  BY DEF Sounding, Musical, Distinct, Clean, PieceOfDisc, Disc
<1>2. PICK d \in Nat : Lies(root'.vec, d)
  BY <1>1
<1>3. Lies(root.vec, d)'
  BY <1>2 DEF Lies, Disc
<1> QED BY <1>3 DEF Placed

(* While a fragment is merged there is a root.                             *)
LEMMA MergingRoot ==
  ASSUME RunInv, Merging, upset # "moved"
  PROVE  root # NoRoot
<1>1. Shared(root.vec, l, run, offset) /\ run \in Run
  BY DEF RunInv, RunShared, Lined, Typed, MergeTyped
<1>2. Len(root.vec) > 0
  <2>1. root.vec \in Vector
    BY FieldsIs DEF RunInv, Typed, RootTyped
  <2> QED BY <1>1, <2>1 DEF Shared, Run, Vector
<1> QED BY <1>2 DEF NoRoot

(* Every step keeps the root whole.                                        *)
LEMMA WholeInvNext ==
  ASSUME WholeInv, RunInv, OwnInv, [Next]_vars
  PROVE  WholeInv'
<1>0. /\ FragmentsTyped /\ RootTyped /\ root \in Root /\ Disc \in Vector /\ Len(Disc) \in Nat
      /\ todo \subseteq Fragment /\ \A f \in todo : Owned(f)
  BY DiscIs DEF RunInv, Typed, FragmentsTyped, RootTyped, OwnInv
<1>1. ASSUME NEW f \in drive.fragments, NEW d \in Drifts, Verify(f, d) PROVE WholeInv'
  <2>1. drive' = drive /\ root' = root /\ misled' = misled /\ UNCHANGED mergeVars /\ pc' = pc
    BY <1>1 DEF Verify, rootVars
  <2> QED BY <2>1, WholeKept DEF Merging
<1>2. CASE ReturnSector
  <2>1. drive' = drive /\ root' = root /\ misled' = misled /\ UNCHANGED mergeVars /\ pc' = pc
    BY <1>2 DEF ReturnSector, driftVars
  <2> QED BY <2>1, WholeKept DEF Merging
<1>3. CASE StartStage2
  <2>1. drive' = drive /\ misled' = misled /\ root' = Trimmed /\ pc' = "pass" /\ pc = "idle"
    BY <1>3 DEF StartStage2, driftVars
  <2>2. ASSUME Sounding, ~misled, root' # NoRoot PROVE \E d \in Nat : Lies(root'.vec, d)
    <3>1. root # NoRoot
      BY <2>1, <2>2 DEF Trimmed
    <3>2. PICK d \in Nat : Lies(root.vec, d)
      BY <2>2, <3>1 DEF WholeInv, Placed
    <3>3. CASE Trimmed = root
      BY <2>1, <3>2, <3>3
    <3>4. CASE Trimmed # root /\ Forgotten <= End(root)
      <4>1. Lies(Trimmed.vec, d + (Forgotten - root.begin))
        BY <1>0, <3>2, <3>4, TrimmedLies
      <4>2. d + (Forgotten - root.begin) \in Nat
        BY <4>1 DEF Lies
      <4> QED BY <2>1, <4>1, <4>2
    <3>5. CASE Trimmed # root /\ ~(Forgotten <= End(root))
      <4>1. Forgotten > End(root)
        <5>1. Forgotten \in Int
          BY <1>0, <3>2, TrimmedLies
        <5>2. End(root) \in Int
          BY <1>0, FieldsIs
        <5> QED BY <3>5, <5>1, <5>2
      <4>2. Lies(Trimmed.vec, d)
        BY <1>0, <3>2, <3>5, <4>1, TrimmedLies
      <4> QED BY <2>1, <4>2
    <3> QED BY <3>3, <3>4, <3>5
  <2> QED BY <2>1, <2>2, WholeNew DEF Merging
<1>4. CASE pc = "pass" /\ VisitStep
  <2>1. PICK f \in todo :
          \/ InitRoot(f) \/ PassBy(f)
          \/ \E c \in Drifts, m \in MatchFound(f) : BeginMerge(f, m, c)
          \/ NoMatch(f)
    BY <1>4 DEF VisitStep
  <2>2. CASE InitRoot(f)
    <3>1. drive' = drive /\ misled' = misled /\ root'.vec = f.vec /\ pc' = "pass"
      BY <2>2 DEF InitRoot, driftVars
    <3>2. Sounding => \E d \in Nat : Lies(root'.vec, d)
      BY <1>0, <3>1, SoundingIs
    <3> QED BY <3>1, <3>2, WholeNew DEF Merging
  <2>3. CASE PassBy(f)
    <3>1. drive' = drive /\ root' = root /\ misled' = misled /\ UNCHANGED mergeVars /\ pc' = pc
      BY <2>3 DEF PassBy, rootVars, driftVars
    <3> QED BY <3>1, WholeKept DEF Merging
  <2>4. CASE \E c \in Drifts, m \in MatchFound(f) : BeginMerge(f, m, c)
    <3> PICK c \in Drifts, m \in MatchFound(f) : BeginMerge(f, m, c)
      BY <2>4
    <3>1. drive' = drive /\ root' = root /\ root # NoRoot /\ misled' = (misled \/ f \in c.moved)
      BY DEF BeginMerge, rootVars
    <3>2. ASSUME Sounding, ~misled' PROVE \E d \in Nat : Placed(d)'
      <4>0. ~misled /\ f \notin c.moved
        BY <3>1, <3>2
      <4>1. PICK d \in Nat : Lies(root.vec, d)
        BY <3>1, <3>2, <4>0 DEF WholeInv, Placed
      <4>2. PICK e \in Nat : Lies(f.vec, e)
        BY <1>0, <2>1, <3>2, SoundingIs
      <4>3. Typed /\ Told
        BY <1>0, <2>1, <3>2, SoundingIs DEF RunInv
      <4>4. Placed(d)'
        BY <1>0, <4>0, <4>1, <4>2, <4>3, BeginMergePlaces
      <4> QED BY <4>4
    <3>3. Sounding' => Sounding
      BY <3>1 DEF Sounding, Musical, Distinct, Clean, PieceOfDisc, Disc
    <3> QED BY <3>2, <3>3 DEF WholeInv
  <2>5. CASE NoMatch(f)
    <3>1. drive' = drive /\ root' = root /\ misled' = misled /\ UNCHANGED mergeVars /\ pc' = pc
      BY <2>5 DEF NoMatch, rootVars, driftVars
    <3> QED BY <3>1, WholeKept DEF Merging
  <2> QED BY <2>1, <2>2, <2>3, <2>4, <2>5
<1>5. CASE EndPass
  <2>1. drive' = drive /\ root' = root /\ misled' = misled /\ ~Merging'
    BY <1>5 DEF EndPass, rootVars, driftVars, SilencePass, NextPass, Merging
  <2> QED BY <2>1, WholeKept
<1>6. CASE pc = "silence" /\ SilenceStep
  <2>1. CASE EndSilence
    <3>1. drive' = drive /\ root' = root /\ misled' = misled /\ ~Merging'
      BY <2>1 DEF EndSilence, rootVars, driftVars, NextPass, Merging
    <3> QED BY <3>1, WholeKept
  <2>2. ASSUME NEW f \in todo, NEW c \in Drifts, SilenceMatch(f, c) PROVE WholeInv'
    <3>1. drive' = drive /\ misled' = misled /\ pc = "silence" /\ pc' = "silence" /\ LeadingSilence(f) >= MIN_SILENCE_BOUNDARY
      BY <2>2 DEF SilenceMatch
    <3>2. ~Sounding
      <4>1. ASSUME Sounding PROVE FALSE
        <5>1. f \in Fragment /\ LeadingSilence(f) < MIN_SILENCE_BOUNDARY
          BY <1>0, <4>1, SoundingIs
        <5>2. LeadingSilence(f) \in Int
          BY <5>1, SoundIs, FieldsIs DEF LeadingSilence
        <5> QED BY <3>1, <5>1, <5>2, Stage2Assumption
      <4> QED BY <4>1
    <3> QED BY <3>1, <3>2, WholeNew DEF Merging
  <2>3. ASSUME NEW f \in todo, NoSilenceMatch(f) PROVE WholeInv'
    <3>1. /\ drive' = drive /\ misled' = misled /\ pc' = "silence" /\ pc = "silence"
          /\ LeadingSilence(f) < MIN_SILENCE_BOUNDARY => root' = root
      BY <2>3 DEF NoSilenceMatch, driftVars
    <3>2. ASSUME Sounding, ~misled, root' # NoRoot PROVE \E d \in Nat : Lies(root'.vec, d)
      <4>1. root' = root
        BY <1>0, <3>1, <3>2, SoundingIs
      <4> QED BY <3>2, <4>1 DEF WholeInv, Placed
    <3> QED BY <3>1, <3>2, WholeNew DEF Merging
  <2> QED BY <1>6, <2>1, <2>2, <2>3 DEF SilenceStep
<1>7. CASE (pc = "leading" /\ LeadingStep) \/ (pc = "trailing" /\ TrailingStep)
  <2>1. Merging
    BY <1>7 DEF Merging
  <2>2. drive' = drive /\ misled' = misled
    BY <1>7 DEF driftVars, LeadingStep, LeadingInRoot, LeadingInFragment, LeadingGarbage, EndLeading,
       TrailingStep, TrailingInRoot, TrailingInFragment, TrailingGarbage, EndTrailing,
       CutRootSilence, DropFragmentSilence
  <2>3. ASSUME Sounding, ~misled PROVE WholeInv'
    <3>0. upset # "moved"
      BY <2>1, <2>3 DEF OwnInv
    <3>1. PICK d \in Nat : Placed(d)
      BY <2>1, <2>3, <3>0, MergingRoot DEF WholeInv
    <3>2. UNCHANGED <<root, mergeVars>>
      BY <1>7, <3>0, <3>1, MergeStepPlaced DEF rootVars
    <3> QED BY <2>1, <2>2, <3>2, WholeKept
  <2>4. Sounding' => Sounding
    BY <2>2 DEF Sounding, Musical, Distinct, Clean, PieceOfDisc, Disc
  <2> QED BY <2>2, <2>3, <2>4 DEF WholeInv
<1>8. ASSUME NEW c \in Drifts, Glom(c) PROVE WholeInv'
  <2>1. drive' = drive /\ misled' = misled /\ root' = Glommed /\ pc' = "pass" /\ Merging
    BY <1>8 DEF Glom, Merged, Merging
  <2>2. ASSUME Sounding, ~misled PROVE \E d \in Nat : Lies(root'.vec, d)
    <3>0. upset # "moved"
      BY <2>1, <2>2 DEF OwnInv
    <3>1. PICK d \in Nat : Placed(d)
      BY <2>1, <2>2, <3>0, MergingRoot DEF WholeInv
    <3>2. Lies(Glommed.vec, d)
      BY <1>0, <2>1, <3>0, <3>1, GlommedPlaced
    <3> QED BY <2>1, <3>2
  <2> QED BY <2>1, <2>2, WholeNew DEF Merging
<1>9. CASE NoGrowth
  <2>1. drive' = drive /\ root' = root /\ misled' = misled /\ pc' = "pass"
    BY <1>9 DEF NoGrowth, Merged, rootVars, driftVars
  <2> QED BY <2>1, WholeKept DEF Merging
<1>10. CASE UNCHANGED vars
  <2>1. drive' = drive /\ root' = root /\ misled' = misled /\ UNCHANGED mergeVars /\ pc' = pc
    BY <1>10 DEF vars, rootVars, driftVars
  <2> QED BY <2>1, WholeKept DEF Merging
<1>11. CASE GoAstray
  <2>1. drive' = drive /\ root' = root /\ misled' = misled /\ pc' = "undefined"
    BY <1>11 DEF GoAstray, rootVars, driftVars
  <2> QED BY <2>1, WholeKept DEF Merging
<1> QED
  BY <1>1, <1>2, <1>3, <1>4, <1>5, <1>6, <1>7, <1>8, <1>9, <1>10, <1>11 DEF Next, Step

(* From fragments that are whole, but displaced in any way, of a disc that *)
(* has no silence and no sample twice, stage 2 makes a root that is the    *)
(* disc without a gap or a repetition, whatever is delivered in which      *)
(* order, merged, trimmed or kept for the next call, and however often     *)
(* drifts move the fragments; only that none moves a fragment between its  *)
(* match and its merge (paranoia.c 358, 386 and 1206).                     *)
THEOREM RootWhole == Spec => []RootIsWhole
<1>1. Init => WholeInv
  BY DEF Init, WholeInv
<1>2. WholeInv /\ RunInv /\ OwnInv /\ [Next]_vars => WholeInv'
  BY WholeInvNext
<1>3. WholeInv /\ RunInv => RootIsWhole
  <2> SUFFICES ASSUME WholeInv, RunInv, Sounding, ~misled, root # NoRoot
               PROVE  \E from \in 0..Len(Disc) : PieceOfDisc(root.vec, from)
    BY DEF RootIsWhole, Sounding
  <2>1. PICK d \in Nat : Lies(root.vec, d)
    BY DEF WholeInv, Placed
  <2>2. Disc \in Vector /\ Len(Disc) \in Nat /\ root.vec \in Vector /\ Len(root.vec) \in Nat
    BY DiscIs, FieldsIs DEF RunInv, Typed, RootTyped
  <2>3. PieceOfDisc(root.vec, d) /\ d \in 0..Len(Disc)
    BY <2>1, <2>2, LiesIs DEF Lies
  <2> QED BY <2>3
<1> QED BY <1>1, <1>2, <1>3, RunInvAlways, OwnInvAlways, PTL DEF Spec

-----------------------------------------------------------------------------
(* From fragments that are where they say they are, the disc.              *)

(* The fragments are where they say they are, no drift moves them, all     *)
(* silence is in one place, and what is read again reaches no further back *)
(* than what the root keeps.                                               *)
Faithful == OverlapKept /\ Undrifting /\ Exact /\ OneSilence

(* Zeros with nothing but zeros between them.                              *)
Quiet == \A i, j \in 1..Len(Disc) :
           Disc[i] = 0 /\ Disc[j] = 0 => \A k \in i..j : Disc[k] = 0

(* What such fragments are.                                                *)
LEMMA FaithfulIs ==
  ASSUME Faithful, FragmentsTyped, NEW f \in drive.fragments
  PROVE  /\ f \in Fragment /\ Lies(f.vec, f.begin) /\ Len(f.vec) >= 2
         /\ f.begin \in Nat /\ End(f) \in Nat /\ f.begin <= End(f) /\ End(f) <= Len(Disc)
         /\ End(f) = f.begin + Len(f.vec) /\ f.vec \in Vector /\ Len(f.vec) \in Nat
         /\ f.last => End(f) = Len(Disc)
<1>1. Disc \in Vector /\ Len(Disc) \in Nat /\ f \in Fragment /\ Len(f.vec) >= 2
  BY DiscIs
<1>2. /\ f.begin \in Int /\ f.vec \in Vector /\ Len(f.vec) \in Nat
      /\ End(f) \in Int /\ f.begin <= End(f) /\ End(f) = f.begin + Len(f.vec)
  BY <1>1, FieldsIs
<1>3. PieceOfDisc(f.vec, f.begin) /\ (f.last => End(f) = Len(Disc))
  BY DEF Faithful, Exact
<1>4. Lies(f.vec, f.begin)
  BY <1>1, <1>2, <1>3, LiesIs
<1>5. 0 <= f.begin /\ f.begin + Len(f.vec) <= Len(Disc)
  BY <1>4 DEF Lies
<1> QED BY <1>1, <1>2, <1>3, <1>4, <1>5

(* And what the disc is.                                                   *)
LEMMA FaithfulDisc ==
  ASSUME Faithful
  PROVE  Told /\ Quiet
<1>1. \A i, j \in 1..Len(Disc) : Disc[i] = Disc[j] => (i = j \/ \A k \in i..j : Disc[k] = 0)
  BY DEF Faithful, OneSilence
<1>2. ASSUME NEW i \in 1..Len(Disc), NEW j \in 1..Len(Disc), Disc[i] = Disc[j], Disc[i] # 0, i # j
      PROVE FALSE
  <2>1. (\A k \in i..j : Disc[k] = 0) /\ (\A k \in j..i : Disc[k] = 0)
    BY <1>1, <1>2
  <2>2. i \in i..j \/ i \in j..i
    OBVIOUS
  <2> QED BY <1>2, <2>1, <2>2
<1>3. ASSUME NEW i \in 1..Len(Disc), NEW j \in 1..Len(Disc), Disc[i] = 0, Disc[j] = 0,
             NEW k \in i..j
      PROVE  Disc[k] = 0
  <2>1. CASE i = j
    <3>1. k = i
      BY <2>1
    <3> QED BY <1>3, <3>1
  <2>2. CASE i # j
    <3>1. Disc[i] = Disc[j]
      BY <1>3
    <3> QED BY <1>1, <2>2, <3>1
  <2> QED BY <2>1, <2>2
<1> QED BY <1>2, <1>3 DEF Told, Quiet

(* A fragment is silent before its first sound.                            *)
LEMMA LeadingZeros ==
  ASSUME NEW f \in Fragment, Lies(f.vec, f.begin)
  PROVE  /\ Sound(f) \in f.begin..End(f)
         /\ \A i \in f.begin..(Sound(f) - 1) : Disc[i + 1] = 0
         /\ Sound(f) < End(f) => Disc[Sound(f) + 1] # 0
<1> DEFINE S == {i \in f.begin..(End(f) - 1) : At(f, i) # 0}
<1>1. f.begin \in Int /\ End(f) \in Int /\ Len(f.vec) \in Nat /\ End(f) = f.begin + Len(f.vec)
  BY FieldsIs
<1>2. Sound(f) = IF S = {} THEN End(f) ELSE Min(S)
  BY DEF Sound
<1>3. Sound(f) \in f.begin..End(f) /\ Sound(f) \in Int
  BY <1>1, SoundIs
<1>4. \A i \in f.begin..(End(f) - 1) : At(f, i) = Disc[i + 1]
  <2> TAKE i \in f.begin..(End(f) - 1)
  <2> DEFINE k == i - f.begin
  <2>1. k \in 0..(Len(f.vec) - 1) /\ f.begin + k + 1 = i + 1
    BY <1>1
  <2>2. At(f, i) = f.vec[k + 1]
    BY DEF At
  <2> HIDE DEF k
  <2>3. f.vec[k + 1] = Disc[f.begin + k + 1]
    BY <2>1 DEF Lies
  <2> QED BY <2>1, <2>2, <2>3
<1>5. S # {} => Min(S) \in S /\ \A x \in S : Min(S) <= x
  <2>1. S \in SUBSET Int /\ \A x \in S : f.begin <= x
    BY <1>1
  <2> HIDE DEF S
  <2> QED BY <1>1, <2>1, MinIs
<1>6. ASSUME NEW i \in f.begin..(Sound(f) - 1) PROVE Disc[i + 1] = 0
  <2>1. i \in f.begin..(End(f) - 1)
    BY <1>1, <1>3
  <2>2. i \notin S
    <3>1. CASE S = {}
      BY <3>1
    <3>2. CASE S # {}
      <4>1. ~(Sound(f) <= i)
        BY <1>1, <1>3
      <4> HIDE DEF S
      <4> QED BY <1>2, <1>5, <3>2, <4>1
    <3> QED BY <3>1, <3>2
  <2> QED BY <1>4, <2>1, <2>2
<1>7. Sound(f) < End(f) => Disc[Sound(f) + 1] # 0
  <2> HAVE Sound(f) < End(f)
  <2>1. S # {}
    <3> HIDE DEF S
    <3> QED BY <1>1, <1>2
  <2>2. Sound(f) \in S
    <3> HIDE DEF S
    <3> QED BY <1>2, <1>5, <2>1
  <2> QED BY <1>4, <2>2
<1> QED BY <1>3, <1>6, <1>7

(* The silence that was found begins before the end of the root, where the *)
(* disc is silent, and not before the first position that was asked for.   *)
Calm(r, from) ==
  /\ from >= drive.first
  /\ \E p \in Nat : p + 2 <= End(r) /\ Disc[p + 1] = 0 /\ from <= p + 1

(* What the silence test finds of a piece of the disc is such silence, and *)
(* not before what was returned.                                           *)
LEMMA SilenceTestFinds ==
  ASSUME NEW r \in Root, Lies(r.vec, r.begin), Len(r.vec) >= 2, returnedlimit \in Int,
         returnedlimit < End(r), drive.first \in Nat, drive.first <= returnedlimit,
         NEW lit, NEW from \in Int, SilenceTest(r, lit, from)
  PROVE  \/ silenceflag' = TRUE /\ silencebegin' >= returnedlimit /\ Calm(r, silencebegin')
         \/ silenceflag' = lit /\ silencebegin' = from
<1> DEFINE end == Len(r.vec) - 1
           Heard == {j \in 0..(end - 1) : r.vec[j + 1] # 0}
           j == IF Heard = {} THEN -1 ELSE Max(Heard)
<1>1. r.begin \in Int /\ Len(r.vec) \in Nat /\ end \in Int /\ End(r) = r.begin + Len(r.vec)
  BY FieldsIs
<1>2. \/ /\ silenceflag' = TRUE /\ silencebegin' = Most(r.begin + j + 1, returnedlimit)
         /\ j < 0 \/ end - j > MIN_SILENCE_BOUNDARY
      \/ silenceflag' = lit /\ silencebegin' = from
  BY DEF SilenceTest
<1>3. Heard # {} => Max(Heard) \in Heard /\ \A x \in Heard : x <= Max(Heard)
  <2>1. Heard \in SUBSET Int /\ \A x \in Heard : x <= end
    BY <1>1
  <2> HIDE DEF Heard, end
  <2> QED BY <1>1, <2>1, MaxIs
<1>4. j \in Int /\ -1 <= j /\ j <= end - 1 /\ \A x \in Heard : x <= j
  <2>1. CASE Heard = {}
    <3>1. j = -1
      BY <2>1
    <3> HIDE DEF j, Heard
    <3> QED BY <1>1, <2>1, <3>1
  <2>2. CASE Heard # {}
    <3>1. j = Max(Heard)
      BY <2>2
    <3>2. Max(Heard) \in 0..(end - 1) /\ \A x \in Heard : x <= Max(Heard)
      BY <1>3, <2>2
    <3> HIDE DEF j, Heard, end
    <3> QED BY <1>1, <3>1, <3>2
  <2> QED BY <2>1, <2>2
<1> HIDE DEF j
<1>5. ASSUME j < 0 \/ end - j > MIN_SILENCE_BOUNDARY PROVE r.vec[(end - 1) + 1] = 0
  <2>1. end - 1 > j
    BY <1>1, <1>4, <1>5, Stage2Assumption
  <2>2. end - 1 \notin Heard
    <3> HIDE DEF Heard
    <3> QED BY <1>1, <1>4, <2>1
  <2>3. end - 1 \in 0..(end - 1)
    BY <1>1
  <2> HIDE DEF end
  <2> QED BY <2>2, <2>3
<1> DEFINE p == r.begin + (end - 1)
<1>6. p \in Nat /\ p + 2 = End(r)
  BY <1>1 DEF Lies
<1>7. r.vec[(end - 1) + 1] = Disc[p + 1]
  <2>1. end - 1 \in 0..(Len(r.vec) - 1)
    BY <1>1
  <2> HIDE DEF end
  <2> QED BY <2>1 DEF Lies
<1>8. ASSUME silenceflag' = TRUE, silencebegin' = Most(r.begin + j + 1, returnedlimit),
             j < 0 \/ end - j > MIN_SILENCE_BOUNDARY
      PROVE  silencebegin' >= returnedlimit /\ Calm(r, silencebegin')
  <2>1. silencebegin' \in Int /\ silencebegin' >= returnedlimit
        /\ (silencebegin' = r.begin + j + 1 \/ silencebegin' = returnedlimit)
    BY <1>1, <1>4, <1>8 DEF Most
  <2>2. silencebegin' <= p + 1
    BY <1>1, <1>4, <1>6, <2>1
  <2>3. Disc[p + 1] = 0
    BY <1>5, <1>7, <1>8
  <2>4. silencebegin' >= drive.first
    BY <2>1
  <2>5. p + 2 <= End(r)
    BY <1>1, <1>6
  <2> HIDE DEF p
  <2> QED BY <1>6, <2>1, <2>2, <2>3, <2>4, <2>5 DEF Calm
<1> QED BY <1>2, <1>8

(* A root and a fragment of the disc while silence is matched.             *)
SilentPair(f) ==
  /\ root \in Root /\ Lies(root.vec, root.begin)
  /\ f \in Fragment /\ Lies(f.vec, f.begin)
  /\ LeadingSilence(f) >= MIN_SILENCE_BOUNDARY
  /\ silencebegin \in Int /\ Calm(root, silencebegin)
  /\ Quiet /\ Disc \in Vector /\ drive.first \in Nat

(* The numbers of such a pair.                                             *)
LEMMA SilentPairIs ==
  ASSUME NEW f, SilentPair(f)
  PROVE  /\ root.begin \in Int /\ End(root) \in Int /\ End(root) = root.begin + Len(root.vec)
         /\ root.vec \in Vector /\ Len(root.vec) \in Nat
         /\ f.begin \in Int /\ End(f) \in Int /\ End(f) = f.begin + Len(f.vec)
         /\ f.vec \in Vector /\ Len(f.vec) \in Nat
         /\ 0 <= root.begin /\ End(root) <= Len(Disc) /\ 0 <= f.begin /\ End(f) <= Len(Disc)
         /\ Sound(f) \in Int /\ f.begin + MIN_SILENCE_BOUNDARY <= Sound(f) /\ Sound(f) <= End(f)
         /\ f.begin < Sound(f) /\ silencebegin < End(root) /\ Len(Disc) \in Nat
         /\ SilenceBegins(f) \in Int /\ f.begin <= SilenceBegins(f) /\ silencebegin <= SilenceBegins(f)
         /\ SilenceBegins(f) = f.begin \/ SilenceBegins(f) = silencebegin
<1>1. /\ root.begin \in Int /\ End(root) \in Int /\ End(root) = root.begin + Len(root.vec)
      /\ root.vec \in Vector /\ Len(root.vec) \in Nat
      /\ f.begin \in Int /\ End(f) \in Int /\ End(f) = f.begin + Len(f.vec)
      /\ f.vec \in Vector /\ Len(f.vec) \in Nat
  BY FieldsIs DEF SilentPair
<1>2. 0 <= root.begin /\ root.begin + Len(root.vec) <= Len(Disc)
      /\ 0 <= f.begin /\ f.begin + Len(f.vec) <= Len(Disc)
  BY DEF SilentPair, Lies
<1>3. Sound(f) \in Int /\ Sound(f) <= End(f)
  BY <1>1, SoundIs DEF SilentPair
<1>4. f.begin + MIN_SILENCE_BOUNDARY <= Sound(f) /\ f.begin < Sound(f)
  <2>1. Sound(f) - f.begin >= MIN_SILENCE_BOUNDARY
    BY DEF SilentPair, LeadingSilence
  <2> QED BY <1>1, <1>3, <2>1, Stage2Assumption
<1>5. silencebegin < End(root)
  <2>1. PICK p \in Nat : p + 2 <= End(root) /\ silencebegin <= p + 1
    BY DEF SilentPair, Calm
  <2> QED BY <1>1, <2>1 DEF SilentPair
<1>6. /\ SilenceBegins(f) \in Int /\ f.begin <= SilenceBegins(f) /\ silencebegin <= SilenceBegins(f)
      /\ SilenceBegins(f) = f.begin \/ SilenceBegins(f) = silencebegin
  BY <1>1 DEF SilentPair, SilenceBegins, Most
<1>7. Len(Disc) \in Nat
  BY DEF SilentPair, Vector
<1> QED BY <1>1, <1>2, <1>3, <1>4, <1>5, <1>6, <1>7

(* All is silence between the silence of the root and that of a fragment.  *)
LEMMA SilenceBetween ==
  ASSUME NEW f, SilentPair(f)
  PROVE  \E p \in Nat : /\ p + 2 <= End(root) /\ silencebegin <= p + 1 /\ Disc[p + 1] = 0
                        /\ \A k \in p..(Sound(f) - 1) : Disc[k + 1] = 0
                        /\ \A k \in f.begin..p : Disc[k + 1] = 0
<1>1. PICK p \in Nat : p + 2 <= End(root) /\ Disc[p + 1] = 0 /\ silencebegin <= p + 1
  BY DEF SilentPair, Calm
<1>2. /\ f.begin \in Int /\ End(f) \in Int /\ Sound(f) \in Int /\ f.begin < Sound(f) /\ Sound(f) <= End(f)
      /\ 0 <= f.begin /\ End(f) <= Len(Disc) /\ End(root) \in Int /\ End(root) <= Len(Disc)
      /\ Len(Disc) \in Nat
  BY SilentPairIs
<1>3. \A i \in f.begin..(Sound(f) - 1) : Disc[i + 1] = 0
  BY LeadingZeros DEF SilentPair
<1>4. p + 1 \in 1..Len(Disc) /\ f.begin + 1 \in 1..Len(Disc)
  BY <1>1, <1>2
<1>5. Disc[f.begin + 1] = 0
  BY <1>2, <1>3
<1>6. /\ \A k \in (p + 1)..(f.begin + 1) : Disc[k] = 0
      /\ \A k \in (f.begin + 1)..(p + 1) : Disc[k] = 0
  BY <1>1, <1>4, <1>5 DEF SilentPair, Quiet
<1>7. ASSUME NEW k \in p..(Sound(f) - 1) PROVE Disc[k + 1] = 0
  <2>1. CASE k >= f.begin
    <3>1. k \in f.begin..(Sound(f) - 1)
      BY <1>2, <2>1
    <3> QED BY <1>3, <3>1
  <2>2. CASE k < f.begin
    <3>1. k + 1 \in (p + 1)..(f.begin + 1)
      BY <1>2, <2>2
    <3> QED BY <1>6, <3>1
  <2> QED BY <1>2, <2>1, <2>2
<1>8. ASSUME NEW k \in f.begin..p PROVE Disc[k + 1] = 0
  <2>1. k + 1 \in (f.begin + 1)..(p + 1)
    BY <1>2
  <2> QED BY <1>6, <2>1
<1> QED BY <1>1, <1>7, <1>8

(* What is put between a root and a fragment beyond it is the silence that *)
(* the disc has there.                                                     *)
LEMMA StretchedPlaced ==
  ASSUME NEW f, SilentPair(f)
  PROVE  /\ Stretched(f) \in Root /\ Stretched(f).begin = root.begin
         /\ Lies(Stretched(f).vec, root.begin)
         /\ f.begin < End(root) => Stretched(f) = root
         /\ Stretched(f) # root => End(Stretched(f)) = f.begin + MIN_SILENCE_BOUNDARY
         /\ End(root) <= End(Stretched(f)) /\ End(Stretched(f)) \in Int
<1>1. /\ root.begin \in Int /\ End(root) \in Int /\ End(root) = root.begin + Len(root.vec)
      /\ root.vec \in Vector /\ Len(root.vec) \in Nat
      /\ f.begin \in Int /\ End(f) \in Int /\ 0 <= root.begin
      /\ Sound(f) \in Int /\ f.begin + MIN_SILENCE_BOUNDARY <= Sound(f) /\ Sound(f) <= End(f)
      /\ End(f) <= Len(Disc) /\ Len(Disc) \in Nat
  BY SilentPairIs
<1>2. root \in Root /\ Lies(root.vec, root.begin)
  BY DEF SilentPair
<1>3. CASE f.begin >= End(root) /\ f.begin - DYNOVERLAP < End(root)
  <2> DEFINE n == f.begin + MIN_SILENCE_BOUNDARY - End(root)
             q == [i \in 1..n |-> 0]
             z == root.vec \o q
  <2>1. n \in Nat /\ End(root) + n = f.begin + MIN_SILENCE_BOUNDARY
    <3>1. MIN_SILENCE_BOUNDARY \in Nat
      BY Stage2Assumption
    <3>2. f.begin \in Int /\ End(root) \in Int
      BY <1>1
    <3>3. f.begin >= End(root)
      BY <1>3
    <3>4. f.begin + MIN_SILENCE_BOUNDARY \in Int /\ f.begin + MIN_SILENCE_BOUNDARY >= End(root)
      BY <3>1, <3>2, <3>3
    <3>5. n = (f.begin + MIN_SILENCE_BOUNDARY) - End(root)
      BY <3>1, <3>2
    <3> QED BY <3>1, <3>2, <3>4, <3>5
  <2> HIDE DEF n
  <2>2. q \in [1..n -> Int] /\ Len(q) = n
    <3>1. q \in [1..n -> Int]
      OBVIOUS
    <3> HIDE DEF q
    <3> QED BY <2>1, <3>1, LenProperties, SeqDef
  <2>3. q \in Vector
    <3> HIDE DEF q
    <3> QED BY <2>1, <2>2, SeqDef DEF Vector
  <2>4. Stretched(f) = [root EXCEPT !.vec = z]
    BY <1>3 DEF Stretched, n
  <2>5. \A i \in 0..(n - 1) : q[i + 1] = 0
    <3> TAKE i \in 0..(n - 1)
    <3>1. i + 1 \in 1..n
      BY <2>1
    <3> QED BY <3>1
  <2> HIDE DEF q
  <2>6. PICK p \in Nat : /\ p + 2 <= End(root)
                         /\ \A k \in p..(Sound(f) - 1) : Disc[k + 1] = 0
    BY SilenceBetween
  <2>7. Lies(q, End(root))
    <3>1. ASSUME NEW i \in 0..(Len(q) - 1) PROVE q[i + 1] = Disc[End(root) + i + 1]
      <4> DEFINE k == End(root) + i
      <4>1. i \in 0..(n - 1)
        BY <2>2
      <4>2. p + 2 <= End(root) /\ p \in Nat
        BY <2>6
      <4>3. k \in p..(Sound(f) - 1)
        <5>1. MIN_SILENCE_BOUNDARY \in Nat
          BY Stage2Assumption
        <5>2. End(root) + n <= Sound(f) /\ End(root) \in Int /\ Sound(f) \in Int /\ n \in Nat
          BY <1>1, <2>1, <5>1
        <5>3. i \in Int /\ 0 <= i /\ i < n
          BY <2>1, <4>1
        <5> QED BY <4>2, <5>2, <5>3
      <4> HIDE DEF k
      <4>4. Disc[k + 1] = 0
        BY <2>6, <4>3
      <4> QED BY <2>5, <4>1, <4>4 DEF k
    <3>2. 0 <= End(root) /\ End(root) + Len(q) <= Len(Disc)
      BY <1>1, <2>1, <2>2
    <3> QED BY <1>1, <3>1, <3>2 DEF Lies
  <2>8. z \in Vector /\ Len(z) = Len(root.vec) + n
    BY <1>1, <2>2, <2>3, JoinIs
  <2>9. Lies(z, root.begin)
    <3>1. Lies(q, root.begin + Len(root.vec))
      BY <1>1, <2>7
    <3> QED BY <1>1, <1>2, <2>3, <3>1, JoinLies
  <2> HIDE DEF z
  <2>10. Stretched(f) \in Root /\ Stretched(f).begin = root.begin /\ Stretched(f).vec = z
    BY <1>2, <2>4, <2>8, EditedIs
  <2>11. End(Stretched(f)) = f.begin + MIN_SILENCE_BOUNDARY
    <3>1. End(Stretched(f)) = root.begin + (Len(root.vec) + n)
      BY <2>8, <2>10 DEF End
    <3> QED BY <1>1, <2>1, <3>1
  <2> QED BY <1>1, <1>3, <2>1, <2>9, <2>10, <2>11
<1>4. CASE ~(f.begin >= End(root) /\ f.begin - DYNOVERLAP < End(root))
  <2>1. Stretched(f) = root
    BY <1>4 DEF Stretched
  <2> QED BY <1>1, <1>2, <2>1
<1> QED BY <1>3, <1>4

(* Where a root is cut and the rest of a fragment appended, at a position  *)
(* of both, the disc goes on.                                              *)
LEMMA SplicePlaced ==
  ASSUME NEW r \in Root, Lies(r.vec, r.begin), NEW f \in Fragment, Lies(f.vec, f.begin),
         Disc \in Vector, NEW pos \in r.begin..End(r), pos \in f.begin..End(f)
  PROVE  LET s == [r EXCEPT !.vec = CutAt(r, pos) \o FromOn(f, pos)] IN
         s \in Root /\ s.begin = r.begin /\ Lies(s.vec, r.begin) /\ End(s) = End(f)
<1>1. /\ r.begin \in Int /\ End(r) = r.begin + Len(r.vec) /\ r.vec \in Vector /\ Len(r.vec) \in Nat
      /\ f.begin \in Int /\ End(f) = f.begin + Len(f.vec) /\ f.vec \in Vector /\ Len(f.vec) \in Nat
  BY FieldsIs
<1> DEFINE a == pos - r.begin
           b == pos - f.begin
           x == CutAt(r, pos)
           y == FromOn(f, pos)
           z == x \o y
<1>2. /\ a \in 0..Len(r.vec) /\ b \in 0..Len(f.vec) /\ Len(f.vec) \in b..Len(f.vec)
      /\ r.begin + a = f.begin + b /\ r.begin + a + (Len(f.vec) - b) = End(f) /\ a \in Int /\ b \in Int
  <2>1. pos \in Int /\ r.begin <= pos /\ pos <= End(r) /\ f.begin <= pos /\ pos <= End(f)
    BY <1>1
  <2>2. a \in 0..Len(r.vec) /\ b \in 0..Len(f.vec) /\ Len(f.vec) \in b..Len(f.vec)
    BY <1>1, <2>1
  <2>3. r.begin + a = f.begin + b /\ a \in Int /\ b \in Int
    BY <1>1, <2>1
  <2>4. r.begin + a + (Len(f.vec) - b) = End(f)
    BY <1>1, <2>1
  <2> QED BY <2>2, <2>3, <2>4
<1>3. x = Cut(r.vec, a) /\ y = Piece(f.vec, b, Len(f.vec))
  BY DEF CutAt, FromOn
<1> HIDE DEF a, b, x, y
<1>4. x \in Vector /\ Len(x) = a
  BY <1>1, <1>2, <1>3, CutIs
<1>5. Len(Disc) \in Nat
  BY DEF Vector
<1>6. Lies(x, r.begin)
  BY <1>1, <1>2, <1>3, <1>5, CutLies
<1>7. y \in Vector /\ Len(y) = Len(f.vec) - b
  BY <1>1, <1>2, <1>3, PieceIs
<1>8. Lies(y, f.begin + b)
  BY <1>1, <1>2, <1>3, PieceLies
<1>9. Lies(y, r.begin + Len(x))
  BY <1>2, <1>4, <1>8
<1>10. z \in Vector /\ Len(z) = a + (Len(f.vec) - b)
  BY <1>4, <1>7, JoinIs
<1>11. Lies(z, r.begin)
  BY <1>4, <1>6, <1>7, <1>9, JoinLies
<1> HIDE DEF z
<1> DEFINE s == [r EXCEPT !.vec = z]
<1>12. s \in Root /\ s.begin = r.begin /\ s.vec = z
  BY <1>10, EditedIs
<1> HIDE DEF s
<1>13. End(s) = End(f)
  <2>1. End(s) = r.begin + (a + (Len(f.vec) - b))
    BY <1>10, <1>12 DEF End
  <2> QED BY <1>1, <1>2, <2>1
<1> QED BY <1>11, <1>12, <1>13 DEF s, x, y, z

(* Where the root lies beside what was asked for and what was returned.    *)
Reaching ==
  /\ returnedlimit < End(root) /\ Len(root.vec) >= 2
  /\ returnedlimit = drive.first \/ End(root) >= returnedlimit + MARGIN
  /\ root.begin <= drive.first \/ root.begin <= returnedlimit - MARGIN

(* A fragment that begins with silence is not so far behind that the root  *)
(* has forgotten where its silence begins.                                 *)
InReach(f) ==
  \/ f.begin >= returnedlimit - MARGIN
  \/ Sound(f) <= silencebegin
  \/ silencebegin >= returnedlimit

(* A match by silence puts a fragment where it is on the disc.             *)
LEMMA SilenceMatchPlaced ==
  ASSUME NEW f, SilentPair(f), Reaching, returnedlimit \in Int, drive.first <= returnedlimit,
         End(f) > End(root) => InReach(f),
         SilenceOverlaps(f) \/ Sound(f) < SilenceBegins(f)
  PROVE  LET r == IF SilenceOverlaps(f) THEN Superimposed(f, Stretched(f))
                  ELSE Spliced(f, Stretched(f)) IN
         r \in Root /\ r.begin = root.begin /\ Lies(r.vec, root.begin) /\ End(r) >= End(root)
<1> DEFINE s == Sound(f)
           b == SilenceBegins(f)
           R == Stretched(f)
<1>1. /\ root.begin \in Int /\ End(root) \in Int
      /\ f.begin \in Int /\ End(f) \in Int /\ f.begin <= End(f)
      /\ s \in Int /\ s <= End(f) /\ f.begin < s /\ silencebegin < End(root)
      /\ b \in Int /\ f.begin <= b /\ silencebegin <= b
      /\ b = f.begin \/ b = silencebegin
  BY SilentPairIs
<1>2. /\ R \in Root /\ R.begin = root.begin /\ Lies(R.vec, root.begin)
      /\ f.begin < End(root) => R = root
      /\ End(root) <= End(R) /\ End(R) \in Int
  BY StretchedPlaced
<1>3. /\ f \in Fragment /\ Lies(f.vec, f.begin) /\ Disc \in Vector
      /\ drive.first \in Int /\ silencebegin \in Int /\ silencebegin >= drive.first
      /\ root \in Root /\ Lies(root.vec, root.begin)
  BY DEF SilentPair, Calm
<1>4. CASE SilenceOverlaps(f)
  <2>1. b < s /\ b < End(R)
    <3>1. b < Least(s, End(R))
      BY <1>4 DEF SilenceOverlaps
    <3> HIDE DEF s, b, R
    <3> QED BY <1>1, <1>2, <3>1 DEF Least
  <2>2. CASE End(f) > End(R)
    <3>1. InReach(f)
      BY <1>1, <1>2, <2>2
    <3>2. root.begin <= b
      <4>1. root.begin <= drive.first \/ root.begin <= returnedlimit - MARGIN
        BY DEF Reaching
      <4>2. MARGIN \in Nat
        BY Stage2Assumption
      <4>3. s <= silencebegin => FALSE
        BY <1>1, <1>3, <2>1
      <4>4. f.begin >= returnedlimit - MARGIN \/ silencebegin >= returnedlimit
        BY <3>1, <4>3 DEF InReach
      <4> HIDE DEF b
      <4> QED BY <1>1, <1>3, <4>1, <4>2, <4>4
    <3>3. b \in R.begin..End(R) /\ b \in f.begin..End(f)
      BY <1>1, <1>2, <2>1, <3>2
    <3> DEFINE r == [R EXCEPT !.vec = CutAt(R, b) \o FromOn(f, b)]
    <3>4. Superimposed(f, R) = r
      BY <2>2 DEF Superimposed
    <3>5. r \in Root /\ r.begin = R.begin /\ Lies(r.vec, R.begin) /\ End(r) = End(f)
      <4> HIDE DEF R, b
      <4> QED BY <1>2, <1>3, <3>3, SplicePlaced
    <3> HIDE DEF r, R
    <3> QED BY <1>1, <1>2, <1>4, <2>2, <3>4, <3>5 DEF R
  <2>3. CASE ~(End(f) > End(R))
    <3>1. Superimposed(f, R) = R
      BY <2>3 DEF Superimposed
    <3> QED BY <1>1, <1>2, <1>4, <3>1
  <2> QED BY <2>2, <2>3
<1>5. CASE ~SilenceOverlaps(f)
  <2>1. s < b /\ b = silencebegin
    BY <1>1, <1>5
  <2>2. s = End(f)
    <3>1. PICK p \in Nat : silencebegin <= p + 1 /\ \A k \in f.begin..p : Disc[k + 1] = 0
      BY SilenceBetween
    <3>2. s \in f.begin..p
      BY <1>1, <1>3, <2>1, <3>1
    <3>3. Disc[s + 1] = 0
      BY <3>1, <3>2
    <3>4. ~(s < End(f))
      BY <1>3, <3>3, LeadingZeros
    <3> QED BY <1>1, <3>4
  <2>3. R = root
    BY <1>1, <1>2, <1>3, <2>1
  <2>4. ~(b + (End(f) - s) > End(R))
    BY <1>1, <1>2, <2>1, <2>2
  <2>5. Spliced(f, R) = R
    BY <2>4 DEF Spliced
  <2> QED BY <1>1, <1>3, <1>5, <2>3, <2>5
<1> QED BY <1>4, <1>5

(* A fragment with silence that does not match lies beyond the root, or    *)
(* its sound is where the silence of the root begins; the root stays.      *)
LEMMA NoSilenceMatchPlaced ==
  ASSUME NEW f, SilentPair(f), ~SilenceOverlaps(f), Sound(f) >= SilenceBegins(f)
  PROVE  Stretched(f) = root /\ (f.begin >= End(root) \/ Sound(f) <= silencebegin)
<1> DEFINE s == Sound(f)
           b == SilenceBegins(f)
           R == Stretched(f)
<1>1. /\ root.begin \in Int /\ End(root) \in Int
      /\ f.begin \in Int /\ s \in Int /\ f.begin < s /\ silencebegin < End(root)
      /\ b \in Int /\ f.begin <= b /\ silencebegin <= b /\ silencebegin \in Int
      /\ b = f.begin \/ b = silencebegin
      /\ f.begin + MIN_SILENCE_BOUNDARY <= s
  BY SilentPairIs DEF SilentPair
<1>2. /\ f.begin < End(root) => R = root
      /\ R # root => End(R) = f.begin + MIN_SILENCE_BOUNDARY
      /\ End(root) <= End(R) /\ End(R) \in Int
  BY StretchedPlaced
<1>3. b >= s \/ b >= End(R)
  <2>1. ~(b < Least(s, End(R)))
    BY DEF SilenceOverlaps
  <2> HIDE DEF s, b, R
  <2> QED BY <1>1, <1>2, <2>1 DEF Least
<1>4. b <= s
  BY <1>1
<1> HIDE DEF s, b, R
<1>5. CASE b >= s
  <2>1. b = s /\ s = silencebegin
    BY <1>1, <1>4, <1>5
  <2>2. R = root
    BY <1>1, <1>2, <2>1
  <2> QED BY <1>1, <2>1, <2>2 DEF s, R
<1>6. CASE b >= End(R)
  <2>1. b = f.begin /\ f.begin >= End(root)
    BY <1>1, <1>2, <1>6
  <2>2. R = root
    BY <1>1, <1>2, <1>6, <2>1, Stage2Assumption
  <2> QED BY <2>1, <2>2 DEF R
<1> QED BY <1>3, <1>5, <1>6

(* The root is the disc at its position.                                   *)
DiscInv ==
  /\ drive.first <= returnedlimit
  /\ root = NoRoot => returnedlimit = drive.first /\ silenceflag = FALSE /\ pc # "silence"
  /\ root # NoRoot => Placed(root.begin) /\ Reaching
  /\ Merging => offset = root.begin - v.begin

Burning == silenceflag = TRUE \/ pc = "silence"

(* A fragment that has silence to match by and something for the root.     *)
Hides(f) == LeadingSilence(f) >= MIN_SILENCE_BOUNDARY /\ End(f) > End(root)

(* Such a fragment is in reach in a call,                                  *)
HiddenInCall == pc # "idle" /\ Burning => \A f \in frags : Hides(f) => InReach(f)

(* lies where it was read from between two calls, unless its sound is      *)
(* where the silence of the root begins,                                   *)
HiddenKept ==
  pc = "idle" /\ silenceflag = TRUE =>
    \A f \in frags : Hides(f) =>
      f.begin >= End(root) - DYNOVERLAP - JIGGLE \/ Sound(f) <= silencebegin

(* and beyond the root if it was matched in vain.                          *)
HiddenSeen ==
  pc = "silence" /\ ~flag =>
    \A f \in frags : Hides(f) =>
      f \in todo \/ f.begin >= End(root) \/ Sound(f) <= silencebegin

SilenceInv ==
  /\ Burning => Calm(root, silencebegin)
  /\ HiddenInCall /\ HiddenKept /\ HiddenSeen

FaithfulInv == Faithful => DiscInv /\ SilenceInv

(* What the steps below start from.                                        *)
Steady ==
  /\ Faithful /\ DiscInv /\ SilenceInv
  /\ RunInv /\ OwnInv /\ VisitsInv

(* The numbers it knows.                                                   *)
LEMMA SteadyIs ==
  ASSUME Steady
  PROVE  /\ root \in Root /\ root.begin \in Int /\ End(root) \in Int /\ Len(root.vec) \in Nat
         /\ End(root) = root.begin + Len(root.vec) /\ root.vec \in Vector
         /\ returnedlimit \in Int /\ silencebegin \in Int /\ drive.first \in Nat
         /\ Disc \in Vector /\ Len(Disc) \in Nat
         /\ frags \subseteq drive.fragments /\ todo \subseteq frags /\ frags \subseteq Fragment
         /\ \A f \in Fragment : f.begin \in Int /\ End(f) \in Int /\ Sound(f) \in Int
         /\ FragmentsTyped /\ RootTyped /\ Typed
<1>1. FragmentsTyped /\ RootTyped /\ Typed /\ root \in Root /\ returnedlimit \in Int /\ silencebegin \in Int
  BY DEF Steady, RunInv, Typed, RootTyped
<1>2. /\ root.begin \in Int /\ End(root) \in Int /\ Len(root.vec) \in Nat
      /\ End(root) = root.begin + Len(root.vec) /\ root.vec \in Vector
  BY <1>1, FieldsIs
<1>3. drive.first \in Nat /\ Disc \in Vector /\ Len(Disc) \in Nat
  BY <1>1, DiscIs
<1>4. frags \subseteq drive.fragments /\ todo \subseteq frags /\ frags \subseteq Fragment
  <2>1. ASSUME NEW g \in frags PROVE g \in drive.fragments
    <3>1. Owned(g) /\ drive.drifts = {}
      BY DEF Steady, OwnInv, Faithful, Undrifting
    <3> QED BY <3>1 DEF Owned
  <2>2. todo \subseteq frags /\ frags \subseteq Fragment
    BY <1>1 DEF Steady, VisitsInv, VisitsLive, FragmentsTyped
  <2> QED BY <2>1, <2>2
<1>5. \A f \in Fragment : f.begin \in Int /\ End(f) \in Int /\ Sound(f) \in Int
  <2> TAKE f \in Fragment
  <2>1. f.begin \in Int /\ End(f) \in Int
    BY FieldsIs
  <2>2. Sound(f) \in f.begin..End(f)
    BY SoundIs
  <2> QED BY <2>1, <2>2
<1> QED BY <1>1, <1>2, <1>3, <1>4, <1>5

(* There is no drift.                                                      *)
LEMMA SteadyDrift ==
  ASSUME Steady
  PROVE  /\ \A d \in Drifts : d.by = 0 /\ d.moved = {}
         /\ \A d \in Drifts : DriftBy(d) => dyndrift' = 0
         /\ dyndrift = 0
         /\ Merging => upset # "moved" /\ v \in drive.fragments
<1>1. drive.drifts = {} /\ Steadfast
  BY DEF Steady, Faithful, Undrifting, OwnInv
<1>2. dyndrift = 0 /\ misled = FALSE
  BY <1>1 DEF Steadfast
<1>3. Merging => upset # "moved" /\ v \in drive.fragments
  <2> SUFFICES ASSUME Merging PROVE upset # "moved" /\ v \in drive.fragments
    OBVIOUS
  <2>1. Owned(v) /\ (upset = "moved" => misled = TRUE)
    BY DEF Steady, OwnInv
  <2> QED BY <1>1, <1>2, <2>1 DEF Owned
<1> QED BY <1>1, <1>2, <1>3, NoDriftIs, StaysSteadfast

(* What is left was there.                                                 *)
LEMMA LeftIn ==
  ASSUME NEW e, e.moved = {}, NEW used, Left(e, used)
  PROVE  frags' \subseteq frags
<1>1. \A f : Moved(f, e) = f
  BY DEF Moved
<1> QED BY <1>1 DEF Left, After

(* A root that stays.                                                      *)
LEMMA DiscKept ==
  ASSUME DiscInv, UNCHANGED <<drive, root, returnedlimit, silenceflag>>,
         pc' = "silence" => root # NoRoot,
         Merging' => Merging /\ UNCHANGED mergeVars
  PROVE  DiscInv'
<1>1. ASSUME root # NoRoot PROVE Placed(root.begin)' /\ Reaching'
  <2>1. Placed(root.begin) /\ Reaching
    BY <1>1 DEF DiscInv
  <2>2. Reaching'
    BY <2>1 DEF Reaching
  <2>3. Lies(root.vec, root.begin)'
    BY <2>1 DEF Placed, Lies, Disc
  <2>4. Merging' => (l = v.vec /\ Lies(l, root.begin - offset) /\ Complete(root.vec, l, run, offset))'
    BY <2>1 DEF Placed, Lies, Disc, Complete, mergeVars
  <2> QED BY <2>2, <2>3, <2>4 DEF Placed
<1>2. (Merging => offset = root.begin - v.begin)'
  BY DEF DiscInv, mergeVars
<1> QED BY <1>1, <1>2 DEF DiscInv

(* A root that grows, with no merge.                                       *)
LEMMA DiscGrown ==
  ASSUME Steady, drive' = drive, returnedlimit' = returnedlimit, ~Merging', root # NoRoot,
         root' \in Root, root'.begin = root.begin, Lies(root'.vec, root.begin), End(root') >= End(root)
  PROVE  DiscInv' /\ root' # NoRoot
<1>1. /\ root.begin \in Int /\ End(root) \in Int /\ Len(root.vec) \in Nat
      /\ End(root) = root.begin + Len(root.vec) /\ returnedlimit \in Int /\ drive.first \in Nat
  BY SteadyIs
<1>2. Reaching /\ drive.first <= returnedlimit
  BY DEF Steady, DiscInv
<1>3. Len(root'.vec) \in Nat /\ End(root') \in Int /\ End(root') = root.begin + Len(root'.vec)
  <2> DEFINE r == root'
  <2>1. Len(r.vec) \in Nat /\ End(r) \in Int /\ End(r) = r.begin + Len(r.vec)
    <3> HIDE DEF r
    <3> QED BY FieldsIs DEF r
  <2> QED BY <2>1
<1>4. Len(root'.vec) >= 2
  BY <1>1, <1>2, <1>3 DEF Reaching
<1>5. root' # NoRoot
  BY <1>4 DEF NoRoot
<1>6. Reaching'
  BY <1>1, <1>2, <1>3, <1>4, Stage2Assumption DEF Reaching
<1>7. Placed(root.begin)'
  BY DEF Placed, Lies, Disc
<1> QED BY <1>2, <1>5, <1>6, <1>7 DEF DiscInv

(* The silence that is known, in a call.                                   *)
LEMMA SilenceKept ==
  ASSUME Steady, UNCHANGED <<drive, returnedlimit>>, pc # "idle", pc' # "idle", frags' \subseteq frags,
         root' \in Root, HiddenSeen',
         \/ silenceflag' = TRUE /\ silencebegin' >= returnedlimit /\ Calm(root', silencebegin')
         \/ ~Burning'
         \/ Burning /\ silencebegin' = silencebegin /\ End(root') >= End(root)
  PROVE  SilenceInv'
<1>1. /\ End(root) \in Int /\ returnedlimit \in Int /\ silencebegin \in Int /\ drive.first \in Nat
      /\ frags \subseteq Fragment
      /\ \A f \in Fragment : f.begin \in Int /\ End(f) \in Int /\ Sound(f) \in Int
  BY SteadyIs
<1>2. End(root') \in Int
  BY FieldsIs
<1>3. HiddenKept'
  BY DEF HiddenKept
<1>4. CASE silenceflag' = TRUE /\ silencebegin' >= returnedlimit /\ Calm(root', silencebegin')
  <2>1. HiddenInCall'
    BY <1>4 DEF HiddenInCall, InReach
  <2>2. Calm(root, silencebegin)'
    BY <1>4 DEF Calm, Disc
  <2> QED BY <1>3, <2>1, <2>2 DEF SilenceInv
<1>5. CASE ~Burning'
  BY <1>3, <1>5 DEF SilenceInv, HiddenInCall
<1>6. CASE Burning /\ silencebegin' = silencebegin /\ End(root') >= End(root)
  <2>1. Calm(root, silencebegin)'
    <3>1. Calm(root, silencebegin)
      BY <1>6 DEF Steady, SilenceInv
    <3>2. PICK p \in Nat : p + 2 <= End(root) /\ Disc[p + 1] = 0 /\ silencebegin <= p + 1
      BY <3>1 DEF Calm
    <3>3. p + 2 <= End(root')
      BY <1>1, <1>2, <1>6, <3>2
    <3>4. silencebegin >= drive.first
      BY <3>1 DEF Calm
    <3> QED BY <1>6, <3>2, <3>3, <3>4 DEF Calm, Disc
  <2>2. ASSUME NEW f \in frags', LeadingSilence(f) >= MIN_SILENCE_BOUNDARY, End(f) > End(root')
        PROVE  InReach(f)'
    <3>1. f \in frags /\ End(f) > End(root)
      BY <1>1, <1>2, <1>6, <2>2
    <3>2. InReach(f)
      BY <1>6, <2>2, <3>1 DEF Steady, SilenceInv, HiddenInCall, Hides
    <3> QED BY <1>6, <3>2 DEF InReach
  <2>3. HiddenInCall'
    BY <2>2 DEF HiddenInCall, Hides
  <2> QED BY <1>3, <2>1, <2>3 DEF SilenceInv
<1> QED BY <1>4, <1>5, <1>6

(* What is verified begins no further back than where it was read from.    *)
LEMMA VerifySteady ==
  ASSUME Steady, NEW f \in drive.fragments, NEW d \in Drifts, Verify(f, d)
  PROVE  DiscInv' /\ SilenceInv'
<1>0. /\ pc = "idle" /\ pc' = "idle" /\ f.begin - dyndrift >= Target - JIGGLE - Rounding
      /\ DriftBy(d) /\ frags' = After(frags, d) \cup {[f EXCEPT !.begin = @ - dyndrift']}
      /\ UNCHANGED <<drive, root, returnedlimit, silenceflag, silencebegin>>
  BY DEF Verify, rootVars
<1>a. dyndrift = 0 /\ dyndrift' = 0 /\ d.moved = {}
  BY <1>0, SteadyDrift
<1>b. f \in Fragment /\ f.begin \in Int /\ f = [begin |-> f.begin, vec |-> f.vec, last |-> f.last]
  <2>1. f \in Fragment
    BY SteadyIs, DiscIs
  <2> QED BY <2>1 DEF Fragment
<1>c. f.begin >= Target - JIGGLE
  <2>1. Target \in Int /\ JIGGLE \in Int
    BY SteadyIs, Stage2Assumption DEF Target
  <2>2. Rounding = 0
    BY <1>a DEF Rounding
  <2> QED BY <1>0, <1>a, <1>b, <2>1, <2>2
<1>d. frags' \subseteq frags \cup {f}
  <2>1. After(frags, d) \subseteq frags
    <3>1. \A g : Moved(g, d) = g
      BY <1>a DEF Moved
    <3> QED BY <3>1 DEF After
  <2>2. [f EXCEPT !.begin = @ - dyndrift'] = f
    <3>1. [f EXCEPT !.begin = @ - dyndrift'] = [begin |-> f.begin - dyndrift', vec |-> f.vec, last |-> f.last]
      BY <1>b
    <3>2. f.begin - dyndrift' = f.begin
      BY <1>a, <1>b
    <3> QED BY <1>b, <3>1, <3>2
  <2> QED BY <1>0, <2>1, <2>2
<1>1. /\ pc = "idle" /\ pc' = "idle" /\ f.begin >= Target - JIGGLE /\ frags' \subseteq frags \cup {f}
      /\ UNCHANGED <<drive, root, returnedlimit, silenceflag, silencebegin>>
  BY <1>0, <1>c, <1>d
<1>2. DiscInv /\ SilenceInv
  BY DEF Steady
<1>3. DiscInv'
  BY <1>1, <1>2, DiscKept DEF Merging
<1>4. ASSUME silenceflag = TRUE PROVE f.begin >= End(root) - DYNOVERLAP - JIGGLE
  <2>1. root # NoRoot
    BY <1>2, <1>4 DEF DiscInv
  <2>2. root.begin <= drive.first \/ root.begin <= returnedlimit - MARGIN
    BY <1>2, <2>1 DEF DiscInv, Reaching
  <2>3. drive.first <= returnedlimit
    BY <1>2 DEF DiscInv
  <2>4. root.begin \in Int /\ returnedlimit \in Int /\ drive.first \in Nat
    BY SteadyIs
  <2>5. ~(root.begin > returnedlimit)
    BY <2>2, <2>3, <2>4, Stage2Assumption
  <2>6. Target = End(root) - DYNOVERLAP
    BY <2>1, <2>5 DEF Target
  <2> QED BY <1>1, <2>6
<1>5. HiddenKept'
  <2> SUFFICES ASSUME silenceflag = TRUE, NEW g \in frags', Hides(g)
               PROVE  g.begin >= End(root) - DYNOVERLAP - JIGGLE \/ Sound(g) <= silencebegin
    BY <1>1 DEF HiddenKept, Hides
  <2>1. CASE g \in frags
    BY <1>1, <1>2, <2>1 DEF SilenceInv, HiddenKept
  <2>2. CASE g = f
    BY <1>4, <2>2
  <2> QED BY <1>1, <2>1, <2>2
<1>6. Burning' => Calm(root, silencebegin)'
  BY <1>1, <1>2 DEF SilenceInv, Burning, Calm, Disc
<1>7. HiddenInCall' /\ HiddenSeen'
  BY <1>1 DEF HiddenInCall, HiddenSeen
<1> QED BY <1>3, <1>5, <1>6, <1>7 DEF SilenceInv

(* A sector is returned if the root holds the margin after it.             *)
LEMMA ReturnSteady ==
  ASSUME Steady, ReturnSector
  PROVE  DiscInv' /\ SilenceInv'
<1>1. /\ pc = "idle" /\ pc' = "idle" /\ ~Wanting /\ returnedlimit' = returnedlimit + SECTOR
      /\ UNCHANGED <<drive, frags, root, silenceflag, silencebegin>>
  BY DEF ReturnSector
<1>2. DiscInv /\ SilenceInv
  BY DEF Steady
<1>3. root # NoRoot /\ ~(End(root) < returnedlimit + SECTOR + MARGIN)
  BY <1>1 DEF Wanting
<1>4. root.begin \in Int /\ End(root) \in Int /\ returnedlimit \in Int /\ drive.first \in Nat
  BY SteadyIs
<1>5. Placed(root.begin) /\ Reaching /\ drive.first <= returnedlimit
  BY <1>2, <1>3 DEF DiscInv
<1>6. Reaching'
  <2> DEFINE limit == returnedlimit + SECTOR
  <2>1. limit \in Int /\ returnedlimit <= limit /\ limit < End(root) /\ End(root) >= limit + MARGIN
    BY <1>3, <1>4, Stage2Assumption
  <2>2. root.begin <= drive.first \/ root.begin <= limit - MARGIN
    BY <1>4, <1>5, <2>1, Stage2Assumption DEF Reaching
  <2> QED BY <1>1, <1>5, <2>1, <2>2 DEF Reaching
<1>7. Placed(root.begin)'
  BY <1>1, <1>5 DEF Placed, Lies, Disc, Merging
<1>8. DiscInv'
  <2>1. drive.first <= returnedlimit + SECTOR
    BY <1>4, <1>5, Stage2Assumption
  <2> QED BY <1>1, <1>3, <1>6, <1>7, <2>1 DEF DiscInv, Merging
<1>9. Burning' => Calm(root, silencebegin)'
  BY <1>1, <1>2 DEF SilenceInv, Burning, Calm, Disc
<1>10. HiddenInCall' /\ HiddenSeen' /\ HiddenKept'
  BY <1>1, <1>2 DEF SilenceInv, HiddenInCall, HiddenSeen, HiddenKept, Hides
<1> QED BY <1>8, <1>9, <1>10 DEF SilenceInv

(* What is forgotten is behind what can still be matched.                  *)
LEMMA StartSteady ==
  ASSUME Steady, StartStage2
  PROVE  DiscInv' /\ SilenceInv'
<1>1. /\ pc = "idle" /\ pc' = "pass" /\ root' = Trimmed /\ frags' \subseteq frags
      /\ UNCHANGED <<drive, returnedlimit, silenceflag, silencebegin>>
  BY DEF StartStage2
<1>2. DiscInv /\ SilenceInv
  BY DEF Steady
<1>3. /\ root \in Root /\ root.begin \in Int /\ End(root) \in Int /\ returnedlimit \in Int
      /\ Len(root.vec) \in Nat /\ End(root) = root.begin + Len(root.vec)
      /\ drive.first \in Nat /\ silencebegin \in Int /\ RootTyped /\ Len(Disc) \in Nat
      /\ frags \subseteq Fragment
      /\ \A f \in Fragment : f.begin \in Int /\ End(f) \in Int /\ Sound(f) \in Int
  BY SteadyIs
<1>4. HiddenSeen' /\ HiddenKept'
  BY <1>1 DEF HiddenSeen, HiddenKept
<1>5. CASE root = NoRoot
  <2>1. root' = NoRoot
    BY <1>1, <1>5 DEF Trimmed
  <2>2. silenceflag = FALSE
    BY <1>2, <1>5 DEF DiscInv
  <2>3. DiscInv'
    BY <1>1, <1>2, <1>5, <2>1 DEF DiscInv, Merging
  <2> QED BY <1>1, <1>4, <2>2, <2>3 DEF SilenceInv, HiddenInCall, Burning
<1>6. CASE root # NoRoot
  <2>1. Placed(root.begin) /\ Reaching
    BY <1>2, <1>6 DEF DiscInv
  <2>2. Lies(root.vec, root.begin)
    BY <2>1 DEF Placed
  <2>3. Forgotten = returnedlimit - MARGIN /\ Forgotten \in Int /\ Forgotten + 2 <= End(root)
    BY <1>3, <2>1, Stage2Assumption DEF Forgotten, Reaching
  <2>4. /\ Trimmed # root => Trimmed.begin = Forgotten
        /\ Trimmed # root => Lies(Trimmed.vec, root.begin + (Forgotten - root.begin))
        /\ Trimmed # root => Len(Trimmed.vec) = End(root) - Forgotten
    <3>1. Forgotten <= End(root)
      BY <1>3, <2>3
    <3> QED BY <1>3, <2>2, <3>1, TrimmedLies
  <2>5. /\ Lies(Trimmed.vec, Trimmed.begin) /\ Len(Trimmed.vec) >= 2 /\ End(Trimmed) = End(root)
        /\ Trimmed.begin <= drive.first \/ Trimmed.begin <= returnedlimit - MARGIN
    <3>1. CASE Trimmed = root
      BY <2>1, <2>2, <3>1 DEF Reaching
    <3>2. CASE Trimmed # root
      <4>1. root.begin + (Forgotten - root.begin) = Forgotten
        BY <1>3, <2>3
      <4>2. End(root) - Forgotten >= 2 /\ Forgotten + (End(root) - Forgotten) = End(root)
        BY <1>3, <2>3
      <4>3. End(Trimmed) = End(root)
        BY <2>4, <3>2, <4>2 DEF End
      <4>4. Trimmed.begin <= returnedlimit - MARGIN
        BY <1>3, <2>3, <2>4, <3>2
      <4> QED BY <2>4, <3>2, <4>1, <4>2, <4>3, <4>4
    <3> QED BY <3>1, <3>2
  <2>6. End(root') = End(root) /\ root' # NoRoot
    <3>1. Len(NoRoot.vec) = 0
      BY DEF NoRoot
    <3> QED BY <1>1, <2>5, <3>1
  <2>7. Reaching'
    BY <1>1, <2>1, <2>5, <2>6 DEF Reaching
  <2>8. Placed(root.begin)'
    BY <1>1, <2>5 DEF Placed, Lies, Disc, Merging
  <2>9. DiscInv'
    BY <1>1, <1>2, <2>6, <2>7, <2>8 DEF DiscInv, Merging
  <2>10. Burning' => Calm(root, silencebegin)'
    BY <1>1, <1>2, <2>6 DEF SilenceInv, Burning, Calm, Disc
  <2>11. HiddenInCall'
    <3> SUFFICES ASSUME silenceflag = TRUE, NEW g \in frags, Hides(g)
                 PROVE  InReach(g)
      BY <1>1, <2>6 DEF HiddenInCall, Burning, Hides, InReach
    <3>1. g.begin >= End(root) - DYNOVERLAP - JIGGLE \/ Sound(g) <= silencebegin
      BY <1>1, <1>2 DEF SilenceInv, HiddenKept
    <3>2. silencebegin >= drive.first
      BY <1>2 DEF SilenceInv, Burning, Calm
    <3>3. returnedlimit = drive.first \/ End(root) >= returnedlimit + MARGIN
      BY <2>1 DEF Reaching
    <3>4. CASE Sound(g) <= silencebegin
      BY <3>4 DEF InReach
    <3>5. CASE returnedlimit = drive.first
      BY <3>2, <3>5 DEF InReach
    <3>6. CASE End(root) >= returnedlimit + MARGIN /\ g.begin >= End(root) - DYNOVERLAP - JIGGLE
      <4>1. DYNOVERLAP + JIGGLE <= 2 * MARGIN
        BY DEF Steady, Faithful, OverlapKept
      <4>2. g.begin \in Int /\ DYNOVERLAP \in Nat /\ JIGGLE \in Nat /\ MARGIN \in Nat
        BY <1>3, Stage2Assumption
      <4>3. g.begin >= returnedlimit - MARGIN
        BY <1>3, <3>6, <4>1, <4>2
      <4> QED BY <4>3 DEF InReach
    <3> QED BY <3>1, <3>3, <3>4, <3>5, <3>6
  <2> QED BY <1>4, <2>9, <2>10, <2>11 DEF SilenceInv
<1> QED BY <1>5, <1>6

(* The first root is a fragment.                                           *)
LEMMA InitRootSteady ==
  ASSUME Steady, NEW f \in todo, InitRoot(f)
  PROVE  DiscInv' /\ SilenceInv'
<1> DEFINE r == [begin |-> f.begin, vec |-> f.vec]
<1>1. /\ pc = "pass" /\ pc' = "pass" /\ root = NoRoot /\ root' = r /\ frags' \subseteq frags
      /\ f.begin <= returnedlimit /\ returnedlimit < End(f)
      /\ SilenceTest(r, silenceflag, silencebegin)
      /\ UNCHANGED <<drive, returnedlimit>>
  BY DEF InitRoot, Free
<1>2. DiscInv /\ SilenceInv
  BY DEF Steady
<1>3. /\ f \in drive.fragments /\ returnedlimit \in Int /\ drive.first \in Nat /\ silencebegin \in Int
      /\ FragmentsTyped
  BY SteadyIs
<1>4. Lies(f.vec, f.begin) /\ Len(f.vec) >= 2 /\ f.begin \in Nat /\ f.vec \in Vector
  BY <1>3, FaithfulIs DEF Steady
<1>5. r \in Root /\ r.begin = f.begin /\ r.vec = f.vec
  BY <1>4 DEF Root
<1>6. returnedlimit = drive.first /\ silenceflag = FALSE
  BY <1>1, <1>2 DEF DiscInv
<1>7. End(r) = End(f)
  BY <1>5 DEF End
<1> HIDE DEF r
<1>8. root' # NoRoot
  <2>1. Len(NoRoot.vec) = 0
    BY DEF NoRoot
  <2> QED BY <1>1, <1>4, <1>5, <2>1
<1>9. Reaching'
  BY <1>1, <1>4, <1>5, <1>6, <1>7 DEF Reaching
<1>10. Placed(root.begin)'
  BY <1>1, <1>4, <1>5 DEF Placed, Lies, Disc, Merging
<1>11. DiscInv'
  BY <1>1, <1>2, <1>8, <1>9, <1>10 DEF DiscInv, Merging
<1>12. \/ silenceflag' = TRUE /\ silencebegin' >= returnedlimit /\ Calm(r, silencebegin')
       \/ silenceflag' = silenceflag /\ silencebegin' = silencebegin
  <2>1. Lies(r.vec, r.begin) /\ Len(r.vec) >= 2 /\ returnedlimit < End(r) /\ drive.first <= returnedlimit
    BY <1>1, <1>2, <1>4, <1>5, <1>7 DEF DiscInv
  <2> QED BY <1>1, <1>3, <1>5, <2>1, SilenceTestFinds
<1>13. \/ silenceflag' = TRUE /\ silencebegin' >= returnedlimit /\ Calm(root', silencebegin')
       \/ ~Burning'
  BY <1>1, <1>6, <1>12 DEF Burning
<1>14. HiddenSeen'
  BY <1>1 DEF HiddenSeen
<1>15. root' \in Root /\ pc # "idle" /\ pc' # "idle"
  BY <1>1, <1>5
<1>16. SilenceInv'
  BY <1>1, <1>13, <1>14, <1>15, SilenceKept
<1> QED BY <1>11, <1>16

(* A fragment that is passed by, or that nothing matches, leaves the root. *)
LEMMA PassedSteady ==
  ASSUME Steady, pc = "pass", pc' = "pass", frags' \subseteq frags, UNCHANGED <<drive, rootVars>>
  PROVE  DiscInv' /\ SilenceInv'
<1>1. UNCHANGED <<drive, root, returnedlimit, silenceflag, silencebegin>>
  BY DEF rootVars
<1>2. DiscInv'
  BY <1>1, DiscKept DEF Steady, Merging
<1>3. root' \in Root /\ End(root') >= End(root)
  BY <1>1, SteadyIs
<1>4. ~Burning' \/ (Burning /\ silencebegin' = silencebegin /\ End(root') >= End(root))
  BY <1>1, <1>3 DEF Burning
<1>5. HiddenSeen'
  BY DEF HiddenSeen
<1>6. SilenceInv'
  BY <1>1, <1>3, <1>4, <1>5, SilenceKept
<1> QED BY <1>2, <1>6

(* A match is where the fragment is on the disc.                           *)
LEMMA BeginMergeSteady ==
  ASSUME Steady, NEW f \in todo, NEW m \in MatchFound(f), NEW c \in Drifts, BeginMerge(f, m, c)
  PROVE  DiscInv' /\ SilenceInv'
<1>0. c.moved = {}
  BY SteadyDrift
<1>a. frags' \subseteq frags
  <2> DEFINE x == [c EXCEPT !.torn = @ \ {f}]
  <2>1. x.moved = {} /\ Left(x, {})
    BY <1>0 DEF BeginMerge, Drifts, NoDrift
  <2> HIDE DEF x
  <2> QED BY <2>1, LeftIn
<1>1. /\ pc = "pass" /\ pc' = "leading" /\ root # NoRoot /\ v' = f
      /\ UNCHANGED <<drive, root, returnedlimit, silenceflag, silencebegin>>
  BY <1>0 DEF BeginMerge, rootVars, Moved
<1>2. DiscInv /\ SilenceInv /\ Faithful
  BY DEF Steady
<1>3. f \in drive.fragments /\ root \in Root /\ FragmentsTyped /\ Typed /\ Disc \in Vector
      /\ root.begin \in Int /\ End(root) \in Int
  BY SteadyIs
<1>4. PICK d \in Int : d = root.begin
  BY <1>3
<1>5. PICK e \in Int : e = f.begin /\ Lies(f.vec, e)
  <2>1. Lies(f.vec, f.begin) /\ f.begin \in Int
    BY <1>2, <1>3, FaithfulIs
  <2> QED BY <2>1
<1>6. Placed(d) /\ Reaching
  BY <1>1, <1>2, <1>4 DEF DiscInv
<1>7. Told
  BY <1>2, FaithfulDisc
<1>8. Placed(d)' /\ offset' = d - e
  <2>1. Lies(root.vec, d)
    BY <1>6 DEF Placed
  <2>2. f \notin c.moved
    BY <1>0
  <2> QED BY <1>3, <1>5, <1>7, <2>1, <2>2, BeginMergePlaces
<1>9. Reaching'
  BY <1>1, <1>6 DEF Reaching
<1>10. d = root'.begin /\ e = v'.begin
  BY <1>1, <1>4, <1>5
<1>11. Placed(root.begin)'
  BY <1>8, <1>10 DEF Placed, Lies, Disc
<1>12. DiscInv'
  BY <1>1, <1>2, <1>8, <1>9, <1>10, <1>11 DEF DiscInv
<1>13. root' \in Root /\ End(root') >= End(root) /\ frags' \subseteq frags /\ pc # "idle" /\ pc' # "idle"
  BY <1>1, <1>3, <1>a
<1>14. ~Burning' \/ (Burning /\ silencebegin' = silencebegin /\ End(root') >= End(root))
  BY <1>1, <1>13 DEF Burning
<1>15. HiddenSeen'
  BY <1>1 DEF HiddenSeen
<1>16. SilenceInv'
  BY <1>1, <1>13, <1>14, <1>15, SilenceKept
<1> QED BY <1>12, <1>16

(* After a visit.                                                          *)
LEMMA VisitSteady ==
  ASSUME Steady, VisitStep
  PROVE  DiscInv' /\ SilenceInv'
<1>1. PICK f \in todo :
        \/ InitRoot(f) \/ PassBy(f)
        \/ \E d \in Drifts, m \in MatchFound(f) : BeginMerge(f, m, d)
        \/ NoMatch(f)
  BY DEF VisitStep
<1>2. CASE PassBy(f)
  <2>1. pc = "pass" /\ pc' = "pass" /\ frags' \subseteq frags /\ UNCHANGED <<drive, rootVars>>
    BY <1>2 DEF PassBy
  <2> QED BY <2>1, PassedSteady
<1>3. CASE NoMatch(f)
  <2>1. pc = "pass" /\ pc' = "pass" /\ frags' \subseteq frags /\ UNCHANGED <<drive, rootVars>>
    BY <1>3 DEF NoMatch, Free
  <2> QED BY <2>1, PassedSteady
<1> QED BY <1>1, <1>2, <1>3, InitRootSteady, BeginMergeSteady

(* Before the silence is matched every fragment that is left is listed.    *)
LEMMA EndPassSteady ==
  ASSUME Steady, EndPass
  PROVE  DiscInv' /\ SilenceInv'
<1>1. /\ pc = "pass" /\ flag' = FALSE
      /\ IF ~flag /\ silenceflag /\ root # NoRoot THEN SilencePass ELSE NextPass(flag)
      /\ UNCHANGED <<drive, frags, root, returnedlimit, silenceflag, silencebegin>>
  BY DEF EndPass, rootVars
<1>2. DiscInv /\ SilenceInv /\ OwnInv
  BY DEF Steady
<1>3. root' \in Root /\ End(root') >= End(root) /\ frags' \subseteq frags
  BY <1>1, SteadyIs
<1>4. CASE ~flag /\ silenceflag /\ root # NoRoot /\ SilencePass
  <2>1. pc' = "silence" /\ todo' = list /\ silenceflag
    BY <1>4 DEF SilencePass
  <2>2. DiscInv'
    BY <1>1, <1>2, <1>4, <2>1, DiscKept DEF Merging
  <2>3. frags \subseteq list
    BY <1>1, <1>2 DEF OwnInv
  <2>4. HiddenSeen'
    BY <1>1, <2>1, <2>3 DEF HiddenSeen
  <2>5. Burning
    BY <1>4 DEF Burning
  <2>6. SilenceInv'
    BY <1>1, <1>3, <2>1, <2>4, <2>5, SilenceKept
  <2> QED BY <2>2, <2>6
<1>5. CASE NextPass(flag) /\ ~(~flag /\ silenceflag /\ root # NoRoot)
  <2>1. pc' = IF flag /\ frags # {} THEN "pass" ELSE "idle"
    BY <1>5 DEF NextPass
  <2>2. DiscInv'
    BY <1>1, <1>2, <2>1, DiscKept DEF Merging
  <2>3. CASE flag /\ frags # {}
    <3>1. pc' = "pass"
      BY <2>1, <2>3
    <3>2. HiddenSeen'
      BY <3>1 DEF HiddenSeen
    <3>3. ~Burning' \/ (Burning /\ silencebegin' = silencebegin /\ End(root') >= End(root))
      BY <1>1, <1>3, <3>1 DEF Burning
    <3>4. SilenceInv'
      BY <1>1, <1>3, <3>1, <3>2, <3>3, SilenceKept
    <3> QED BY <2>2, <3>4
  <2>4. CASE ~(flag /\ frags # {})
    <3>1. pc' = "idle"
      BY <2>1, <2>4
    <3>2. HiddenInCall' /\ HiddenSeen'
      BY <3>1 DEF HiddenInCall, HiddenSeen
    <3>3. Burning' => Calm(root, silencebegin)'
      BY <1>1, <1>2, <3>1 DEF SilenceInv, Burning, Calm, Disc
    <3>4. HiddenKept'
      <4>1. CASE frags = {}
        BY <1>1, <4>1 DEF HiddenKept
      <4>2. CASE ~flag
        <5>1. root = NoRoot => silenceflag = FALSE
          BY <1>2 DEF DiscInv
        <5>2. ~(silenceflag' = TRUE)
          BY <1>1, <1>5, <4>2, <5>1
        <5> QED BY <5>2 DEF HiddenKept
      <4> QED BY <2>4, <4>1, <4>2
    <3> QED BY <2>2, <3>2, <3>3, <3>4 DEF SilenceInv
  <2> QED BY <2>3, <2>4
<1> QED BY <1>1, <1>4, <1>5

(* What was matched in vain by its silence lies beyond the root.           *)
LEMMA EndSilenceSteady ==
  ASSUME Steady, EndSilence
  PROVE  DiscInv' /\ SilenceInv'
<1>1. /\ pc = "silence" /\ todo = {} /\ NextPass(flag)
      /\ UNCHANGED <<drive, frags, root, returnedlimit, silenceflag, silencebegin>>
  BY DEF EndSilence, rootVars
<1>2. DiscInv /\ SilenceInv
  BY DEF Steady
<1>3. root' \in Root /\ End(root') >= End(root) /\ frags' \subseteq frags /\ End(root) \in Int
      /\ frags \subseteq Fragment
      /\ \A f \in Fragment : f.begin \in Int /\ End(f) \in Int
  BY <1>1, SteadyIs
<1>4. pc' = IF flag /\ frags # {} THEN "pass" ELSE "idle"
  BY <1>1 DEF NextPass
<1>5. DiscInv'
  BY <1>1, <1>2, <1>4, DiscKept DEF Merging
<1>6. Burning
  BY <1>1 DEF Burning
<1>7. CASE flag /\ frags # {}
  <2>1. pc' = "pass"
    BY <1>4, <1>7
  <2>2. HiddenSeen'
    BY <2>1 DEF HiddenSeen
  <2>3. SilenceInv'
    BY <1>1, <1>3, <1>6, <2>1, <2>2, SilenceKept
  <2> QED BY <1>5, <2>3
<1>8. CASE ~(flag /\ frags # {})
  <2>1. pc' = "idle"
    BY <1>4, <1>8
  <2>2. HiddenInCall' /\ HiddenSeen'
    BY <2>1 DEF HiddenInCall, HiddenSeen
  <2>3. Burning' => Calm(root, silencebegin)'
    BY <1>1, <1>2, <1>6 DEF SilenceInv, Calm, Disc
  <2>4. HiddenKept'
    <3> SUFFICES ASSUME NEW g \in frags, Hides(g)
                 PROVE  g.begin >= End(root) - DYNOVERLAP - JIGGLE \/ Sound(g) <= silencebegin
      BY <1>1 DEF HiddenKept, Hides
    <3>1. ~flag
      BY <1>8
    <3>2. g.begin >= End(root) \/ Sound(g) <= silencebegin
      BY <1>1, <1>2, <3>1 DEF SilenceInv, HiddenSeen
    <3>3. g.begin \in Int /\ DYNOVERLAP \in Nat /\ JIGGLE \in Nat
      BY <1>3, Stage2Assumption
    <3> QED BY <1>3, <3>2, <3>3
  <2> QED BY <1>5, <2>2, <2>3, <2>4 DEF SilenceInv
<1> QED BY <1>7, <1>8

(* The pair that is matched by its silence.                                *)
LEMMA SilencePairs ==
  ASSUME Steady, pc = "silence", NEW f \in todo, LeadingSilence(f) >= MIN_SILENCE_BOUNDARY
  PROVE  /\ SilentPair(f) /\ Reaching /\ root # NoRoot /\ drive.first <= returnedlimit
         /\ End(f) > End(root) => InReach(f)
<1>1. DiscInv /\ SilenceInv /\ Faithful /\ Burning
  BY DEF Steady, Burning
<1>2. /\ f \in frags /\ f \in drive.fragments /\ f \in Fragment /\ FragmentsTyped /\ root \in Root
      /\ silencebegin \in Int /\ Disc \in Vector /\ drive.first \in Nat
  BY SteadyIs
<1>3. root # NoRoot
  BY <1>1 DEF DiscInv
<1>4. Placed(root.begin) /\ Reaching /\ drive.first <= returnedlimit
  BY <1>1, <1>3 DEF DiscInv
<1>5. Lies(root.vec, root.begin)
  BY <1>4 DEF Placed
<1>6. Lies(f.vec, f.begin)
  BY <1>1, <1>2, FaithfulIs
<1>7. Quiet
  BY <1>1, FaithfulDisc
<1>8. Calm(root, silencebegin)
  BY <1>1 DEF SilenceInv
<1>9. End(f) > End(root) => InReach(f)
  BY <1>1, <1>2 DEF SilenceInv, HiddenInCall, Hides
<1>10. SilentPair(f)
  BY <1>2, <1>5, <1>6, <1>7, <1>8 DEF SilentPair
<1> QED BY <1>3, <1>4, <1>9, <1>10

(* A match by silence.                                                     *)
LEMMA SilenceMatchSteady ==
  ASSUME Steady, NEW f \in todo, NEW d \in Drifts, SilenceMatch(f, d)
  PROVE  DiscInv' /\ SilenceInv'
<1>0. frags' \subseteq frags
  BY SteadyDrift, LeftIn DEF SilenceMatch
<1>1. /\ pc = "silence" /\ pc' = "silence" /\ LeadingSilence(f) >= MIN_SILENCE_BOUNDARY
      /\ SilenceOverlaps(f) \/ Sound(f) < SilenceBegins(f)
      /\ root' = IF SilenceOverlaps(f) THEN Superimposed(f, Stretched(f)) ELSE Spliced(f, Stretched(f))
      /\ SilenceTest(root', FALSE, silencebegin)
      /\ flag' = TRUE /\ frags' \subseteq frags
      /\ UNCHANGED <<drive, returnedlimit>>
  BY <1>0 DEF SilenceMatch
<1>2. /\ SilentPair(f) /\ Reaching /\ root # NoRoot /\ drive.first <= returnedlimit
      /\ End(f) > End(root) => InReach(f)
  BY <1>1, SilencePairs
<1>3. returnedlimit \in Int /\ silencebegin \in Int /\ drive.first \in Nat
      /\ End(root) \in Int /\ Len(root.vec) \in Nat /\ root.begin \in Int
      /\ End(root) = root.begin + Len(root.vec)
  BY SteadyIs
<1>4. /\ root' \in Root /\ root'.begin = root.begin /\ Lies(root'.vec, root.begin)
      /\ End(root') >= End(root)
  BY <1>1, <1>2, <1>3, SilenceMatchPlaced
<1>5. DiscInv'
  <2>1. ~Merging'
    BY <1>1 DEF Merging
  <2> QED BY <1>1, <1>2, <1>4, <2>1, DiscGrown
<1>6. HiddenSeen'
  BY <1>1 DEF HiddenSeen
<1>7. PICK r \in Root : r = root'
  BY <1>4
<1>8. \/ silenceflag' = TRUE /\ silencebegin' >= returnedlimit /\ Calm(root', silencebegin')
      \/ silencebegin' = silencebegin
  <2>1. Len(r.vec) \in Nat /\ End(r) = r.begin + Len(r.vec)
    BY FieldsIs
  <2>2. r.begin = root.begin /\ Lies(r.vec, r.begin) /\ End(r) >= End(root) /\ SilenceTest(r, FALSE, silencebegin)
    BY <1>1, <1>4, <1>7
  <2>3. Len(r.vec) >= 2 /\ returnedlimit < End(r)
    BY <1>2, <1>3, <2>1, <2>2 DEF Reaching
  <2>4. \/ silenceflag' = TRUE /\ silencebegin' >= returnedlimit /\ Calm(r, silencebegin')
        \/ silenceflag' = FALSE /\ silencebegin' = silencebegin
    BY <1>2, <1>3, <2>2, <2>3, SilenceTestFinds
  <2> QED BY <1>7, <2>4
<1>9. Burning
  BY <1>1 DEF Burning
<1>10. SilenceInv'
  BY <1>1, <1>4, <1>6, <1>8, <1>9, SilenceKept
<1> QED BY <1>5, <1>10

(* No match by silence.                                                    *)
LEMMA NoSilenceMatchSteady ==
  ASSUME Steady, NEW f \in todo, NoSilenceMatch(f)
  PROVE  DiscInv' /\ SilenceInv'
<1>1. /\ pc = "silence" /\ pc' = "silence" /\ todo' = todo \ {f}
      /\ \/ LeadingSilence(f) < MIN_SILENCE_BOUNDARY
         \/ ~SilenceOverlaps(f) /\ Sound(f) >= SilenceBegins(f)
      /\ root' = IF LeadingSilence(f) < MIN_SILENCE_BOUNDARY THEN root ELSE Stretched(f)
      /\ UNCHANGED <<drive, frags, returnedlimit, silenceflag, silencebegin, flag>>
  BY DEF NoSilenceMatch, Visited
<1>2. DiscInv /\ SilenceInv
  BY DEF Steady
<1>3. /\ root \in Root /\ End(root) \in Int /\ f \in Fragment
      /\ \A g \in Fragment : g.begin \in Int /\ Sound(g) \in Int
  BY SteadyIs
<1>4. LeadingSilence(f) \in Int /\ MIN_SILENCE_BOUNDARY \in Int
  BY <1>3, Stage2Assumption DEF LeadingSilence
<1>5. /\ root' = root
      /\ LeadingSilence(f) >= MIN_SILENCE_BOUNDARY => f.begin >= End(root) \/ Sound(f) <= silencebegin
  <2>1. CASE LeadingSilence(f) < MIN_SILENCE_BOUNDARY
    BY <1>1, <1>4, <2>1
  <2>2. CASE ~(LeadingSilence(f) < MIN_SILENCE_BOUNDARY)
    <3>1. LeadingSilence(f) >= MIN_SILENCE_BOUNDARY
      BY <1>4, <2>2
    <3>2. SilentPair(f)
      BY <1>1, <3>1, SilencePairs
    <3>3. Stretched(f) = root /\ (f.begin >= End(root) \/ Sound(f) <= silencebegin)
      BY <1>1, <2>2, <3>2, NoSilenceMatchPlaced
    <3> QED BY <1>1, <2>2, <3>3
  <2> QED BY <2>1, <2>2
<1>6. DiscInv'
  <2>1. root # NoRoot
    BY <1>1, <1>2 DEF DiscInv
  <2> QED BY <1>1, <1>2, <1>5, <2>1, DiscKept DEF Merging
<1>7. HiddenSeen'
  <2> SUFFICES ASSUME ~flag, NEW g \in frags, Hides(g), g \notin todo \ {f}
               PROVE  g.begin >= End(root) \/ Sound(g) <= silencebegin
    BY <1>1, <1>5 DEF HiddenSeen, Hides
  <2>1. CASE g = f
    BY <1>5, <2>1 DEF Hides
  <2>2. CASE g # f
    BY <1>1, <1>2, <2>2 DEF SilenceInv, HiddenSeen
  <2> QED BY <2>1, <2>2
<1>8. Burning /\ root' \in Root /\ End(root') >= End(root) /\ frags' \subseteq frags
  BY <1>1, <1>3, <1>5 DEF Burning
<1>9. SilenceInv'
  BY <1>1, <1>7, <1>8, SilenceKept
<1> QED BY <1>6, <1>9

(* While a fragment is merged only the place in the code changes.          *)
LEMMA MergingSteady ==
  ASSUME Steady, (pc = "leading" /\ LeadingStep) \/ (pc = "trailing" /\ TrailingStep)
  PROVE  DiscInv' /\ SilenceInv'
<1>1. Merging /\ pc # "idle" /\ pc # "silence"
  BY DEF Merging
<1>0. upset # "moved"
  BY <1>1, SteadyDrift
<1>2. root # NoRoot /\ DiscInv /\ RunInv
  BY <1>0, <1>1, MergingRoot DEF Steady
<1>3. root \in Root /\ root.begin \in Int /\ End(root) \in Int
  BY SteadyIs
<1>4. PICK d \in Int : d = root.begin
  BY <1>3
<1>5. Placed(d)
  BY <1>2, <1>4 DEF DiscInv
<1>6. pc' \in {"trailing", "glom"} /\ UNCHANGED <<drive, frags, rootVars, list, todo, flag, mergeVars>>
  BY <1>0, <1>2, <1>5, MergeStepPlaced
<1>7. pc' # "idle" /\ pc' # "silence"
      /\ UNCHANGED <<drive, frags, root, returnedlimit, silenceflag, silencebegin, mergeVars>>
  BY <1>6 DEF rootVars
<1>8. DiscInv'
  BY <1>1, <1>2, <1>7, DiscKept
<1>9. root' \in Root /\ End(root') >= End(root) /\ frags' \subseteq frags
  BY <1>3, <1>7
<1>10. ~Burning' \/ (Burning /\ silencebegin' = silencebegin /\ End(root') >= End(root))
  BY <1>1, <1>7, <1>9 DEF Burning
<1>11. HiddenSeen'
  BY <1>7 DEF HiddenSeen
<1>12. SilenceInv'
  BY <1>1, <1>7, <1>9, <1>10, <1>11, SilenceKept
<1> QED BY <1>8, <1>12

(* The root ends where the fragment ends, and not before it did: what ends *)
(* the session is not cut either.                                          *)
LEMMA GlomSteady ==
  ASSUME Steady, NEW c \in Drifts, Glom(c)
  PROVE  DiscInv' /\ SilenceInv'
<1>0. Merging /\ upset # "moved" /\ v \in drive.fragments
  BY SteadyDrift DEF Glom, Merging
<1>a. frags' \subseteq frags
  BY SteadyDrift, LeftIn DEF Glom
<1>1. /\ Merging /\ pc # "idle" /\ pc # "silence" /\ pc' = "pass" /\ root' = Glommed /\ Extends
      /\ SilenceTest(Glommed, silenceflag, silencebegin)
      /\ frags' \subseteq frags /\ UNCHANGED <<drive, returnedlimit>>
  BY <1>a DEF Glom, Merged, Merging
<1>2. root # NoRoot /\ DiscInv /\ SilenceInv /\ RunInv /\ Faithful
  BY <1>0, MergingRoot DEF Steady
<1>3. /\ root \in Root /\ root.begin \in Int /\ End(root) \in Int /\ Len(root.vec) \in Nat
      /\ End(root) = root.begin + Len(root.vec) /\ returnedlimit \in Int /\ silencebegin \in Int
      /\ drive.first \in Nat /\ Disc \in Vector /\ Len(Disc) \in Nat /\ FragmentsTyped
  BY SteadyIs
<1>4. /\ Placed(root.begin) /\ Reaching /\ drive.first <= returnedlimit
      /\ offset = root.begin - v.begin
  BY <1>1, <1>2 DEF DiscInv
<1>5. l = v.vec /\ v \in drive.fragments
  BY <1>0, <1>4 DEF Placed
<1>6. /\ v.begin \in Nat /\ End(v) = v.begin + Len(v.vec) /\ Len(v.vec) \in Nat
      /\ v.last => End(v) = Len(Disc)
  BY <1>2, <1>3, <1>5, FaithfulIs
<1>7. PICK d \in Int : d = root.begin
  BY <1>3
<1>8. Glommed \in Root /\ Glommed.begin = root.begin /\ Lies(Glommed.vec, d)
      /\ Len(Glommed.vec) = Len(l) - offset
  <2>1. Placed(d)
    BY <1>4, <1>7
  <2> QED BY <1>0, <1>2, <1>3, <2>1, GlommedPlaced
<1>9. PICK r \in Root : r = Glommed
  BY <1>8
<1>10. r.begin = root.begin /\ Len(r.vec) \in Nat /\ End(r) = r.begin + Len(r.vec)
       /\ Len(r.vec) = Len(l) - offset /\ Lies(r.vec, r.begin)
  BY <1>7, <1>8, <1>9, FieldsIs
<1>11. End(r) = End(v)
  BY <1>3, <1>4, <1>5, <1>6, <1>10
<1>12. End(r) >= End(root)
  <2>1. CASE Len(l) - offset > Len(root.vec)
    BY <1>3, <1>10, <2>1
  <2>2. CASE v.last
    <3>1. Lies(root.vec, root.begin)
      BY <1>4 DEF Placed
    <3>2. End(root) <= Len(Disc)
      BY <1>3, <3>1 DEF Lies
    <3> QED BY <1>3, <1>6, <1>11, <2>2, <3>2
  <2> QED BY <1>1, <2>1, <2>2 DEF Extends
<1>13. DiscInv'
  <2>1. ~Merging'
    BY <1>1 DEF Merging
  <2>2. root' \in Root /\ root'.begin = root.begin /\ Lies(root'.vec, root.begin) /\ End(root') >= End(root)
    BY <1>1, <1>9, <1>10, <1>12
  <2> QED BY <1>1, <1>2, <2>1, <2>2, DiscGrown
<1>14. \/ silenceflag' = TRUE /\ silencebegin' >= returnedlimit /\ Calm(r, silencebegin')
       \/ silenceflag' = silenceflag /\ silencebegin' = silencebegin
  <2>1. Len(r.vec) >= 2 /\ returnedlimit < End(r) /\ SilenceTest(r, silenceflag, silencebegin)
    <3>1. Len(root.vec) >= 2 /\ returnedlimit < End(root)
      BY <1>4 DEF Reaching
    <3> QED BY <1>1, <1>3, <1>9, <1>10, <1>12, <3>1
  <2> QED BY <1>3, <1>4, <1>10, <2>1, SilenceTestFinds
<1>15. HiddenSeen'
  BY <1>1 DEF HiddenSeen
<1>16. root' = r /\ pc' # "idle"
  BY <1>1, <1>9
<1>17. \/ silenceflag' = TRUE /\ silencebegin' >= returnedlimit /\ Calm(root', silencebegin')
       \/ ~Burning'
       \/ Burning /\ silencebegin' = silencebegin /\ End(root') >= End(root)
  BY <1>1, <1>12, <1>14, <1>16 DEF Burning
<1>18. SilenceInv'
  BY <1>1, <1>15, <1>16, <1>17, SilenceKept
<1> QED BY <1>13, <1>18

(* What adds nothing, or silence, leaves the root.                         *)
LEMMA NoGrowthSteady ==
  ASSUME Steady, NoGrowth
  PROVE  DiscInv' /\ SilenceInv'
<1>1. /\ pc = "glom" /\ pc' = "pass" /\ frags' \subseteq frags
      /\ UNCHANGED <<drive, root, returnedlimit, silenceflag, silencebegin>>
  BY DEF NoGrowth, Merged, Free, rootVars
<1>2. DiscInv'
  BY <1>1, DiscKept DEF Steady, Merging
<1>3. root' \in Root /\ End(root') >= End(root)
  BY <1>1, SteadyIs
<1>4. ~Burning' \/ (Burning /\ silencebegin' = silencebegin /\ End(root') >= End(root))
  BY <1>1, <1>3 DEF Burning
<1>5. HiddenSeen'
  BY <1>1 DEF HiddenSeen
<1>6. SilenceInv'
  BY <1>1, <1>3, <1>4, <1>5, SilenceKept
<1> QED BY <1>2, <1>6

(* A merge that goes astray leaves the root as it is.                      *)
LEMMA GoAstraySteady ==
  ASSUME Steady, GoAstray
  PROVE  DiscInv' /\ SilenceInv'
<1>1. /\ Merging /\ pc' = "undefined" /\ frags' = frags
      /\ UNCHANGED <<drive, root, returnedlimit, silenceflag, silencebegin>>
  BY DEF GoAstray, LeadingAstray, TrailingAstray, GlomAstray, LeadingRift, TrailingRift, Merging, rootVars
<1>2. DiscInv'
  BY <1>1, DiscKept DEF Steady, Merging
<1>3. root' \in Root /\ End(root') >= End(root) /\ pc # "idle" /\ pc' # "idle"
  BY <1>1, SteadyIs DEF Merging
<1>4. ~Burning' \/ (Burning /\ silencebegin' = silencebegin /\ End(root') >= End(root))
  BY <1>1, <1>3 DEF Burning
<1>5. HiddenSeen'
  BY <1>1 DEF HiddenSeen
<1>6. SilenceInv'
  BY <1>1, <1>3, <1>4, <1>5, SilenceKept
<1> QED BY <1>2, <1>6

(* A step that changes nothing.                                            *)
LEMMA StutterSteady ==
  ASSUME DiscInv, SilenceInv, UNCHANGED vars
  PROVE  DiscInv' /\ SilenceInv'
<1>1. UNCHANGED <<drive, frags, root, returnedlimit, silenceflag, silencebegin, pc, todo, flag, mergeVars>>
  BY DEF vars, rootVars
<1>2. DiscInv'
  BY <1>1, DiscKept DEF DiscInv, Merging
<1>3. SilenceInv'
  BY <1>1 DEF SilenceInv, Burning, Calm, Disc, HiddenInCall, HiddenKept, HiddenSeen, Hides, InReach
<1> QED BY <1>2, <1>3

(* Every step keeps the root the disc.                                     *)
LEMMA FaithfulInvNext ==
  ASSUME FaithfulInv, RunInv, OwnInv, VisitsInv, [Next]_vars
  PROVE  FaithfulInv'
<1>1. drive' = drive
  <2>1. CASE UNCHANGED vars
    BY <2>1 DEF vars
  <2>2. CASE VisitStep \/ EndPass \/ SilenceStep \/ GoAstray
    BY <2>2 DEF VisitStep, InitRoot, PassBy, BeginMerge, NoMatch, EndPass, SilenceStep, EndSilence,
       SilenceMatch, NoSilenceMatch, GoAstray
  <2>3. CASE (pc = "leading" /\ LeadingStep) \/ (pc = "trailing" /\ TrailingStep)
    BY <2>3 DEF LeadingStep, LeadingInRoot, LeadingInFragment, LeadingGarbage, EndLeading,
       TrailingStep, TrailingInRoot, TrailingInFragment, TrailingGarbage, EndTrailing,
       CutRootSilence, DropFragmentSilence
  <2>4. CASE \/ NoGrowth \/ ReturnSector \/ StartStage2
             \/ \E d \in Drifts : Glom(d) \/ \E f \in drive.fragments : Verify(f, d)
    BY <2>4 DEF Glom, NoGrowth, ReturnSector, StartStage2, Verify
  <2> QED BY <2>1, <2>2, <2>3, <2>4 DEF Next, Step
<1> SUFFICES ASSUME Faithful' PROVE DiscInv' /\ SilenceInv'
  BY DEF FaithfulInv
<1>2. Faithful
  BY <1>1 DEF Faithful, OverlapKept, Undrifting, Exact, PieceOfDisc, OneSilence, Disc
<1>3. Steady
  BY <1>2 DEF FaithfulInv, Steady
<1>4. CASE \E f \in drive.fragments : \E d \in Drifts : Verify(f, d)
  BY <1>3, <1>4, VerifySteady
<1>5. CASE ReturnSector \/ StartStage2
  BY <1>3, <1>5, ReturnSteady, StartSteady
<1>6. CASE (pc = "pass" /\ VisitStep) \/ EndPass
  BY <1>3, <1>6, VisitSteady, EndPassSteady
<1>7. CASE pc = "silence" /\ SilenceStep
  BY <1>3, <1>7, EndSilenceSteady, SilenceMatchSteady, NoSilenceMatchSteady DEF SilenceStep
<1>8. CASE (pc = "leading" /\ LeadingStep) \/ (pc = "trailing" /\ TrailingStep)
  BY <1>3, <1>8, MergingSteady
<1>9. CASE (\E d \in Drifts : Glom(d)) \/ NoGrowth \/ GoAstray
  BY <1>3, <1>9, GlomSteady, NoGrowthSteady, GoAstraySteady
<1>10. CASE UNCHANGED vars
  BY <1>3, <1>10, StutterSteady DEF Steady
<1> QED BY <1>4, <1>5, <1>6, <1>7, <1>8, <1>9, <1>10 DEF Next, Step

(* From fragments that are where they say they are, and that no drift      *)
(* moves, of a disc whose sounds can be told apart and whose silence is in *)
(* one place, read with an overlap the root keeps, stage 2 makes a root    *)
(* that is the disc at its position, silence and all, whatever is          *)
(* delivered in which order: what is merged by its silence is appended     *)
(* where it belongs, and what is too far behind the root is not.           *)
THEOREM RootDisc == Spec => []RootIsDisc
<1>1. Init => FaithfulInv
  <2> SUFFICES ASSUME Init PROVE DiscInv /\ SilenceInv
    BY DEF FaithfulInv
  <2>1. /\ root = NoRoot /\ pc = "idle" /\ silenceflag = FALSE /\ returnedlimit = drive.first
        /\ drive \in Drives
    BY DEF Init
  <2>2. drive.first \in Nat
    BY <2>1, DriveAssumption DEF Drive
  <2>3. DiscInv
    BY <2>1, <2>2 DEF DiscInv, Merging
  <2> QED BY <2>1, <2>3 DEF SilenceInv, Burning, HiddenInCall, HiddenKept, HiddenSeen
<1>2. FaithfulInv /\ RunInv /\ OwnInv /\ VisitsInv /\ [Next]_vars => FaithfulInv'
  BY FaithfulInvNext
<1>3. VisitsInv /\ [Next]_vars => VisitsInv'
  BY VisitsInvNext
<1>4. FaithfulInv /\ RunInv => RootIsDisc
  <2> SUFFICES ASSUME FaithfulInv, RunInv, Faithful, root # NoRoot
               PROVE  PieceOfDisc(root.vec, root.begin)
    BY DEF RootIsDisc, Faithful
  <2>1. Lies(root.vec, root.begin)
    BY DEF FaithfulInv, DiscInv, Placed
  <2>2. Disc \in Vector /\ root.vec \in Vector /\ root.begin \in Int
    BY DiscIs, FieldsIs DEF RunInv, Typed, RootTyped
  <2> QED BY <2>1, <2>2, LiesIs
<1> QED BY <1>1, <1>2, <1>3, <1>4, RunInvAlways, OwnInvAlways, VisitsInvInit, PTL DEF Spec

=============================================================================
