---------------------------- MODULE Stage1Proofs ----------------------------
(***************************************************************************)
(* Proofs about stage 1, for every set of blocks a drive may deliver, in   *)
(* whatever order they are read, freed and moved.                          *)
(***************************************************************************)
EXTENDS Stage1, WellFoundedInduction, TLAPS

-----------------------------------------------------------------------------
(* Numbers and their extremes.                                             *)

(* A set of naturals has a least one.                                      *)
LEMMA LeastNat ==
  ASSUME NEW S \in SUBSET Nat, S # {}
  PROVE  \E x \in S : \A y \in S : x <= y
<1>1. PICK x \in S : \A y \in S : ~ (<<y, x>> \in OpToRel(<, Nat))
  BY NatLessThanWellFounded, WFMin
<1>2. \A y \in S : ~ (y < x)
  BY <1>1 DEF OpToRel
<1> QED BY <1>2

(* Min is what its name says of naturals.                                  *)
LEMMA MinIs ==
  ASSUME NEW S \in SUBSET Nat, S # {}
  PROVE  Min(S) \in S /\ \A x \in S : Min(S) <= x
BY LeastNat DEF Min

(* Max is what its name says of naturals with a bound.                     *)
LEMMA MaxIs ==
  ASSUME NEW b \in Int, NEW S \in SUBSET (0..b), S # {}
  PROVE  Max(S) \in S /\ \A x \in S : x <= Max(S)
<1> DEFINE D == {b - x : x \in S}
<1>0. \A x \in S : x \in Int /\ b - x \in Nat
  OBVIOUS
<1>1. D \in SUBSET Nat /\ D # {}
  BY <1>0
<1>2. PICK d \in D : \A y \in D : d <= y
  BY <1>1, LeastNat
<1>3. PICK x \in S : d = b - x
  BY <1>2
<1>4. \A y \in S : x >= y
  <2> TAKE y \in S
  <2>1. d <= b - y
    BY <1>2
  <2> QED BY <1>0, <1>3, <2>1
<1> QED BY <1>4 DEF Max

(* The division of C of an integer by a positive one.                      *)
LEMMA QuotientIs ==
  ASSUME NEW a \in Int, NEW b \in Nat \ {0}
  PROVE  Quotient(a, b) \in Int
BY DEF Quotient

\* The trimming of a run is at least one sample.
LEMMA AdjIs == OVERLAP_ADJ \in Nat /\ OVERLAP_ADJ >= 1
BY Stage1Assumption DEF OVERLAP_ADJ

-----------------------------------------------------------------------------
(* The statistics keep their types.                                        *)

Stats == [points : Int, new : Int, accum : Int, diff : Int, min : Int, max : Int]

\* Counting an offset keeps the statistics numbers.
LEMMA CountedIs ==
  ASSUME NEW o \in Stats, NEW v \in Int
  PROVE  Counted(o, v) \in Stats
<1>1. Magnitude(v) \in Int /\ Smaller(o.min, v) \in Int /\ Larger(o.max, v) \in Int
  BY DEF Stats, Magnitude, Smaller, Larger
<1> QED BY <1>1 DEF Counted, Stats

\* Empty statistics and those switched off are statistics.
LEMMA NoOffsetsAre == NoOffsets \in Stats /\ Off \in Stats
BY DEF NoOffsets, Off, Stats

\* So are statistics that were acted upon.
LEMMA RestedIs ==
  ASSUME NEW o \in Stats
  PROVE  Rested(o) \in Stats
<1> DEFINE r == [o EXCEPT !.min = 0, !.max = 0, !.new = 0]
           t == [r EXCEPT !.points = TonedDown(@), !.accum = TonedDown(@), !.diff = TonedDown(@)]
<1>1. \A n \in Int : TonedDown(n) \in Int
  BY QuotientIs DEF TonedDown
<1>2. r \in Stats
  <2> DEFINE r1 == [o EXCEPT !.min = 0]
             r2 == [r1 EXCEPT !.max = 0]
             r3 == [r2 EXCEPT !.new = 0]
  <2>1. r1 \in Stats
    BY DEF Stats
  <2>2. r2 \in Stats
    <3> HIDE DEF r1
    <3> QED BY <2>1 DEF Stats
  <2>3. r3 \in Stats
    <3> HIDE DEF r2
    <3> QED BY <2>2 DEF Stats
  <2>4. r = r3
    OBVIOUS
  <2> QED BY <2>3, <2>4
<1>3. t \in Stats
  <2> HIDE DEF r
  <2> QED BY <1>1, <1>2 DEF Stats
<1>4. Rested(o) = IF o.points > OLD_POINTS THEN t ELSE r
  BY DEF Rested
<1> QED BY <1>2, <1>3, <1>4

\* The drift is a number, where there is one,
LEMMA DriftIs ==
  ASSUME NEW o \in Stats, NEW d, Drifts(o, d)
  PROVE  Drift(o) \in Int
<1>1. o.points \in Nat \ {0} /\ o.accum \in Int
  BY OffsetsAssumption DEF Drifts, Stats
<1>2. Average(o) \in Int
  BY <1>1, QuotientIs DEF Average
<1>3. Quotient(Average(o), MIN_SECTOR_EPSILON) \in Int /\ MIN_SECTOR_EPSILON \in Int
  BY <1>2, QuotientIs, OffsetsAssumption
<1> QED BY <1>3 DEF Drift

\* and so is the overlap asked for.
LEMMA OverlappingIs ==
  ASSUME NEW o \in Stats, o.points >= POINTS
  PROVE  Overlapping(o) \in Int
<1>1. Quotient(o.diff, o.points) \in Int
  BY QuotientIs, OffsetsAssumption DEF Stats
<1>2. (-o.min * 3) \div 2 \in Int /\ (o.max * 3) \div 2 \in Int
  BY DEF Stats
<1>3. Larger(Quotient(o.diff, o.points) * 3, Larger((-o.min * 3) \div 2, (o.max * 3) \div 2)) \in Int
  BY <1>1, <1>2 DEF Larger
<1>4. MAX_OVERLAP \in Int /\ MIN_SECTOR_EPSILON \in Int
  BY OffsetsAssumption
<1> QED BY <1>3, <1>4 DEF Overlapping, Larger, Smaller


-----------------------------------------------------------------------------
(* What is in memory is what the drive delivered, wherever it is now.      *)

Fragment == [one : Nat, at : Int, size : Int, begin : Int, last : BOOLEAN]

SettingsInv ==
  /\ stage1 \in Stats /\ stage2 \in Stats
  /\ dynoverlap \in Int /\ dyndrift \in Int

MemoryInv ==
  /\ drive \in Drive /\ count \in Nat
  /\ DOMAIN blocks \subseteq 1..count
  /\ \A b \in DOMAIN blocks : blocks[b] \in Block
  /\ DOMAIN verified = DOMAIN blocks
  /\ \A b \in DOMAIN blocks : verified[b] \subseteq 0..(Size(blocks[b]) - 1)
  /\ \A p \in DOMAIN frags : frags[p] \in Fragment

SearchInv ==
  /\ pc \in {"idle", "search", "cut", "merge"}
  /\ pc \in {"search", "cut"} => new \in DOMAIN blocks
  /\ pc = "search" => older \in Olds
  /\ j \in Int /\ searchend \in Int /\ found \in Int

TypeInv == SettingsInv /\ MemoryInv /\ SearchInv

\* The types hold before the first read.
LEMMA InitTypes == Init => TypeInv
<1> SUFFICES ASSUME Init PROVE TypeInv
  OBVIOUS
<1>1. SettingsInv
  <2>1. PICK forced \in Overlaps :
          /\ stage1 = IF forced = 0 THEN NoOffsets ELSE Off
          /\ dynoverlap = IF forced = 0 THEN MAX_OVERLAP ELSE forced
    BY DEF Init
  <2>2. MAX_OVERLAP \in Int /\ forced \in Int
    BY OffsetsAssumption, Stage1Assumption
  <2> QED BY <2>1, <2>2, NoOffsetsAre DEF Init, SettingsInv
<1>2. MemoryInv
  BY DriveAssumption DEF Init, MemoryInv
<1>3. SearchInv
  BY DEF Init, SearchInv
<1> QED BY <1>1, <1>2, <1>3 DEF TypeInv

(* A block that is moved stays the block it is.                            *)
LEMMA MovedTypes ==
  ASSUME TypeInv, NEW av \in Int
  PROVE  /\ DOMAIN MovedBlocks(av) = DOMAIN blocks
         /\ \A b \in DOMAIN blocks :
              /\ MovedBlocks(av)[b] = [blocks[b] EXCEPT !.begin = @ - Least(av, @)]
              /\ MovedBlocks(av)[b] \in Block
              /\ Size(MovedBlocks(av)[b]) = Size(blocks[b])
         /\ DOMAIN MovedFragments(av) = DOMAIN frags
         /\ \A p \in DOMAIN frags : MovedFragments(av)[p] \in Fragment
<1>1. \A x \in Int : Least(av, x) \in Int
  BY DEF Least
<1>0. \A c \in Block : Size([c EXCEPT !.begin = @ - Least(av, @)]) = Size(c)
  BY DEF Block, Size
<1>2. \A c \in Block : [c EXCEPT !.begin = @ - Least(av, @)] \in Block
  <2> TAKE c \in Block
  <2>1. c.begin \in Int
    BY DEF Block
  <2>2. c.begin - Least(av, c.begin) \in Int
    BY <1>1, <2>1
  <2>3. \A x \in Int : [c EXCEPT !.begin = x] \in Block
    BY DEF Block
  <2>4. [c EXCEPT !.begin = c.begin - Least(av, c.begin)] \in Block
    BY <2>2, <2>3
  <2> QED BY <2>4
<1>3. \A f \in Fragment : MovedFragment(f, av) \in Fragment
  <2> TAKE f \in Fragment
  <2>1. [f EXCEPT !.one = Nowhere] \in Fragment
    BY DEF Fragment, Nowhere
  <2>2. [f EXCEPT !.begin = @ - av] \in Fragment
    BY DEF Fragment
  <2> QED BY <2>1, <2>2 DEF MovedFragment
<1>4. /\ \A b \in DOMAIN blocks : blocks[b] \in Block
      /\ \A p \in DOMAIN frags : frags[p] \in Fragment
  BY DEF TypeInv, MemoryInv
<1> QED BY <1>0, <1>2, <1>3, <1>4 DEF MovedBlocks, MovedFragments

(* What adjusting the settings does to what is in memory.                  *)
LEMMA SettleTypes ==
  ASSUME TypeInv, NEW one \in Stats, NEW two \in Stats, NEW time \in BOOLEAN,
         Settle(one, two, time)
  PROVE  /\ SettingsInv'
         /\ DOMAIN BlocksAfter(two, time) = DOMAIN blocks
         /\ \A b \in DOMAIN blocks : /\ BlocksAfter(two, time)[b] \in Block
                                    /\ Size(BlocksAfter(two, time)[b]) = Size(blocks[b])
         /\ DOMAIN FragmentsAfter(two, time) = DOMAIN frags
         /\ \A p \in DOMAIN frags : FragmentsAfter(two, time)[p] \in Fragment
<1>1. Drifting(two, time) => Drift(two) \in Int
  BY DriftIs DEF Drifting
<1>2. SettingsInv'
  <2>1. stage2' \in Stats /\ dyndrift' \in Int
    <3>1. CASE Drifting(two, time)
      BY <1>1, <3>1, NoOffsetsAre DEF Settle, TypeInv, SettingsInv
    <3>2. CASE ~Drifting(two, time)
      BY <3>2 DEF Settle, TypeInv, SettingsInv
    <3> QED BY <3>1, <3>2
  <2>2. stage1' \in Stats /\ dynoverlap' \in Int
    <3>1. CASE time /\ one.points >= POINTS
      BY <3>1, RestedIs, OverlappingIs DEF Settle
    <3>2. CASE ~(time /\ one.points >= POINTS)
      BY <3>2 DEF Settle, TypeInv, SettingsInv
    <3> QED BY <3>1, <3>2
  <2> QED BY <2>1, <2>2 DEF SettingsInv
<1>3. /\ \A b \in DOMAIN blocks : blocks[b] \in Block
      /\ \A p \in DOMAIN frags : frags[p] \in Fragment
  BY DEF TypeInv, MemoryInv
<1>4. CASE Drifting(two, time)
  BY <1>1, <1>2, <1>4, MovedTypes DEF BlocksAfter, FragmentsAfter
<1>5. CASE ~Drifting(two, time)
  BY <1>2, <1>3, <1>5 DEF BlocksAfter, FragmentsAfter
<1> QED BY <1>4, <1>5

\* Whether it is time to act on the statistics is decided.
LEMMA TimeIs ==
  ASSUME NEW o \in Stats
  PROVE  IsTime(o) \in BOOLEAN
BY DEF IsTime

(* A place found is an offset of the new block.                            *)
LEMMA PlacesAre ==
  ASSUME TypeInv, NEW A \in Block, NEW B \in Block, NEW a \in Nat, a < Size(A),
         NEW b \in Places(A, B, a)
  PROVE  /\ b \in Nat /\ b < Size(B)
         /\ a \notin A.unread /\ IsMatch(A, B, a, b)
<1> DEFINE own == A.begin + a - B.begin
           off == Most(0, Least(Size(B), own))
           Near == {c \in Most(0, off - dynoverlap)..(Least(Size(B), off + dynoverlap) - 1) :
                      IsMatch(A, B, a, c)}
<1>1. Places(A, B, a) = IF a \in A.unread THEN {}
                        ELSE IF own \in 0..(Size(B) - 1) /\ IsMatch(A, B, a, own) THEN {own}
                        ELSE IF Near = {} THEN {} ELSE {Min(Near)}
  BY DEF Places
<1>2. Size(B) \in Nat /\ own \in Int /\ dynoverlap \in Int
  BY DEF Size, Block, TypeInv, SettingsInv
<1>3. off \in Nat
  BY <1>2 DEF Most, Least
<1>4. \A c \in Near : c \in Nat /\ c < Size(B) /\ IsMatch(A, B, a, c)
  <2> HIDE DEF own, off
  <2>1. Most(0, off - dynoverlap) \in Nat /\ Least(Size(B), off + dynoverlap) \in Int
        /\ Least(Size(B), off + dynoverlap) <= Size(B)
    BY <1>2, <1>3 DEF Most, Least
  <2> QED BY <1>2, <2>1
<1> HIDE DEF own, Near
<1>5. Near # {} => Min(Near) \in Near
  <2>1. Near \in SUBSET Nat
    BY <1>4
  <2> QED BY <2>1, MinIs
<1> QED BY <1>1, <1>2, <1>4, <1>5


(* The stretch of S that begins at i ends at the first offset not in S.    *)
LEMMA StretchIs ==
  ASSUME NEW S, NEW n \in Nat, n = Size(New), S \subseteq 0..(n - 1), NEW i \in S
  PROVE  LET e == StretchEnd(S, i) IN
         /\ e \in (i + 1)..n /\ e \notin S
         /\ \A x \in i..(e - 1) : x \in S
<1> DEFINE E == {e \in (i + 1)..(n + 1) : e \notin S}
<1>1. i \in Nat /\ i < n
  OBVIOUS
<1>2. E \in SUBSET Nat /\ n \in E
  BY <1>1
<1>3. StretchEnd(S, i) = Min(E)
  BY DEF StretchEnd
<1>4. Min(E) \in E /\ \A x \in E : Min(E) <= x
  <2>1. E # {}
    BY <1>2
  <2> HIDE DEF E
  <2> QED BY <1>2, <2>1, MinIs
<1>5. Min(E) \in (i + 1)..n /\ Min(E) \notin S
  BY <1>1, <1>2, <1>4
<1>6. \A x \in i..(Min(E) - 1) : x \in S
  <2> SUFFICES ASSUME NEW x \in i..(Min(E) - 1), x \notin S PROVE FALSE
    OBVIOUS
  <2>1. x \in (i + 1)..(n + 1)
    BY <1>1, <1>5
  <2>2. Min(E) <= x
    BY <1>4, <2>1
  <2> HIDE DEF E
  <2> QED BY <1>1, <1>5, <2>1, <2>2
<1> QED BY <1>3, <1>5, <1>6

(* A fragment that is cut, in the terms of its stretch.                    *)
LEMMA NewFragmentIs ==
  ASSUME TypeInv, pc = "cut", NEW i \in Starts(Flagged)
  PROVE  /\ NewFragment(i) \in Fragment
         /\ NewFragment(i).one = new
         /\ NewFragment(i).begin = New.begin + NewFragment(i).at
<1> DEFINE e == StretchEnd(Flagged, i)
<1>1. New \in Block /\ Size(New) \in Nat /\ new \in Nat
  BY DEF TypeInv, MemoryInv, SearchInv, New, new, Block, Size
<1>2. Flagged \subseteq 0..(Size(New) - 1)
  BY DEF TypeInv, MemoryInv, SearchInv, New, new, Flagged
<1>3. i \in Int /\ e \in Int
  <2>1. i \in Flagged
    BY DEF Starts
  <2>2. e \in (i + 1)..Size(New)
    BY <1>1, <1>2, <2>1, StretchIs
  <2>3. i \in Int
    BY <1>2, <2>1
  <2> HIDE DEF e
  <2> QED BY <1>1, <2>2, <2>3
<1> HIDE DEF e
<1>4. \A from, to \in Int, last \in BOOLEAN :
        /\ FragmentOf(from, to, last) \in Fragment
        /\ FragmentOf(from, to, last).one = new
        /\ FragmentOf(from, to, last).begin = New.begin + FragmentOf(from, to, last).at
  BY <1>1 DEF FragmentOf, Fragment, Block
<1>5. Most(0, i - OVERLAP_ADJ) \in Int /\ Least(Size(New), e + OVERLAP_ADJ) \in Int
  BY <1>1, <1>3, AdjIs DEF Most, Least
<1>6. New.last \in BOOLEAN
  BY <1>1 DEF Block
<1>7. CASE drive.verify
  <2> DEFINE from == Most(0, i - OVERLAP_ADJ)
             to == Least(Size(New), e + OVERLAP_ADJ)
             last == e + OVERLAP_ADJ >= Size(New) /\ New.last
  <2>1. NewFragment(i) = FragmentOf(from, to, last)
    BY <1>7 DEF NewFragment, VerifiedFragment, e
  <2>2. last \in BOOLEAN
    BY <1>6
  <2> HIDE DEF from, to, last
  <2> QED BY <1>4, <1>5, <2>1, <2>2 DEF from, to
<1>8. CASE ~drive.verify
  <2> DEFINE last == New.last /\ e = Size(New)
  <2>1. NewFragment(i) = FragmentOf(i, e, last)
    BY <1>8 DEF NewFragment, OverlapFragment, e
  <2>2. last \in BOOLEAN
    BY <1>6
  <2> HIDE DEF last
  <2> QED BY <1>3, <1>4, <2>1, <2>2
<1> QED BY <1>7, <1>8

(* How far a run reaches.                                                  *)
LEMMA BackwardIs ==
  ASSUME NEW A \in Block, NEW B \in Block, NEW a \in Nat, NEW b \in Nat
  PROVE  LET Reach == {n \in 0..(Least(a, b) + 1) :
                         /\ \A k \in 0..(n - 1) : Same(A, B, a - k, b - k)
                         /\ \A k \in 0..(n - 2) : BothRead(A, B, a - k, b - k)
                                                  /\ ~BothEdge(A, B, a - k, b - k)
                         /\ n > 0 => \/ BothEdge(A, B, a - n + 1, b - n + 1)
                                     \/ BothRead(A, B, a - n + 1, b - n + 1)}
         IN  Backward(A, B, a, b) \in Reach /\ \A n \in Reach : n <= Backward(A, B, a, b)
<1> DEFINE Reach == {n \in 0..(Least(a, b) + 1) :
                         /\ \A k \in 0..(n - 1) : Same(A, B, a - k, b - k)
                         /\ \A k \in 0..(n - 2) : BothRead(A, B, a - k, b - k)
                                                  /\ ~BothEdge(A, B, a - k, b - k)
                         /\ n > 0 => \/ BothEdge(A, B, a - n + 1, b - n + 1)
                                     \/ BothRead(A, B, a - n + 1, b - n + 1)}
           most == Least(a, b) + 1
<1>1. most \in Nat
  BY DEF Least
<1>2. Reach # {}
  <2>1. 0 \in Reach
    BY <1>1
  <2> QED BY <2>1
<1>3. Reach \in SUBSET (0..most)
  OBVIOUS
<1>4. Backward(A, B, a, b) = Max(Reach)
  BY DEF Backward
<1> HIDE DEF Reach, most
<1>5. Max(Reach) \in Reach /\ \A n \in Reach : n <= Max(Reach)
  BY <1>1, <1>2, <1>3, MaxIs
<1> QED BY <1>4, <1>5 DEF Reach

\* The forward scan goes as far as samples agree, were read and are not edges in both.
LEMMA ForwardIs ==
  ASSUME NEW A \in Block, NEW B \in Block, NEW a \in Nat, NEW b \in Nat,
         a < Size(A), b < Size(B), NEW begin \in Int
  PROVE  LET Reach == {n \in 0..Least(Size(A) - a, Size(B) - b) :
                         \A k \in 0..(n - 1) :
                           /\ Same(A, B, a + k, b + k) /\ BothRead(A, B, a + k, b + k)
                           /\ BothEdge(A, B, a + k, b + k) => a + k = begin}
         IN  /\ Forward(A, B, a, b, begin) \in Reach
             /\ \A n \in Reach : n <= Forward(A, B, a, b, begin)
<1> DEFINE Reach == {n \in 0..Least(Size(A) - a, Size(B) - b) :
                         \A k \in 0..(n - 1) :
                           /\ Same(A, B, a + k, b + k) /\ BothRead(A, B, a + k, b + k)
                           /\ BothEdge(A, B, a + k, b + k) => a + k = begin}
           most == Least(Size(A) - a, Size(B) - b)
<1>1. most \in Nat
  BY DEF Least, Size, Block
<1>2. Reach # {}
  <2>1. 0 \in Reach
    BY <1>1
  <2> QED BY <2>1
<1>3. Reach \in SUBSET (0..most)
  OBVIOUS
<1>4. Forward(A, B, a, b, begin) = Max(Reach)
  BY DEF Forward
<1> HIDE DEF Reach, most
<1>5. Max(Reach) \in Reach /\ \A n \in Reach : n <= Max(Reach)
  BY <1>1, <1>2, <1>3, MaxIs
<1> QED BY <1>4, <1>5 DEF Reach

\* A run begins and ends at numbers.
LEMMA RunIs ==
  ASSUME NEW A \in Block, NEW B \in Block, NEW a \in Nat, NEW b \in Nat,
         a < Size(A), b < Size(B)
  PROVE  RunAt(A, B, a, b).begin \in Int /\ RunAt(A, B, a, b).end \in Int
<1> DEFINE begin == a + 1 - Backward(A, B, a, b)
<1>1. Backward(A, B, a, b) \in Int
  <2>1. Backward(A, B, a, b) \in 0..(Least(a, b) + 1) /\ Least(a, b) \in Int
    BY BackwardIs DEF Least
  <2> QED BY <2>1
<1>2. begin \in Int
  BY <1>1
<1>3. RunAt(A, B, a, b) = [begin |-> begin, end |-> a + Forward(A, B, a, b, begin)]
  BY DEF RunAt
<1> HIDE DEF begin
<1>4. Forward(A, B, a, b, begin) \in Int
  <2>1. Least(Size(A) - a, Size(B) - b) \in Int
    BY DEF Least, Size, Block
  <2>2. Forward(A, B, a, b, begin) \in 0..Least(Size(A) - a, Size(B) - b)
    BY <1>2, ForwardIs
  <2> QED BY <2>1, <2>2
<1> QED BY <1>2, <1>3, <1>4

-----------------------------------------------------------------------------
(* Every action keeps the types.                                           *)

\* A read keeps the types.
LEMMA ReadTypes ==
  ASSUME TypeInv, NEW b \in drive.blocks, Read(b)
  PROVE  TypeInv'
<1> DEFINE c == [b EXCEPT !.begin = @ - dyndrift]
<1>1. /\ count' = count + 1 /\ drive' = drive /\ frags' = frags
      /\ blocks' = With(blocks, count', c) /\ verified' = With(verified, count', {})
      /\ UNCHANGED settings /\ found' = found
  BY DEF Read, merge
<1>2. b \in Block /\ dyndrift \in Int
  BY DEF TypeInv, MemoryInv, SettingsInv, Drive
<1>3. c \in Block
  <2>1. b.begin - dyndrift \in Int
    BY <1>2 DEF Block
  <2>2. [b EXCEPT !.begin = b.begin - dyndrift] \in Block
    BY <1>2, <2>1 DEF Block
  <2> QED BY <2>2
<1> HIDE DEF c
<1>4. /\ DOMAIN blocks' = DOMAIN blocks \cup {count + 1}
      /\ blocks'[count + 1] = c
      /\ count + 1 \notin DOMAIN blocks
      /\ \A x \in DOMAIN blocks : blocks'[x] = blocks[x]
  BY <1>1 DEF With, TypeInv, MemoryInv
<1>5. /\ DOMAIN verified' = DOMAIN blocks'
      /\ verified'[count + 1] = {}
      /\ \A x \in DOMAIN blocks : verified'[x] = verified[x]
  BY <1>1, <1>4 DEF With, TypeInv, MemoryInv
<1>6. MemoryInv'
  <2>1. count + 1 \in Nat /\ DOMAIN blocks' \subseteq 1..(count + 1)
    BY <1>4 DEF TypeInv, MemoryInv
  <2>2. \A x \in DOMAIN blocks' : blocks'[x] \in Block
    BY <1>3, <1>4 DEF TypeInv, MemoryInv
  <2>3. \A x \in DOMAIN blocks' : verified'[x] \subseteq 0..(Size(blocks'[x]) - 1)
    BY <1>4, <1>5 DEF TypeInv, MemoryInv
  <2> QED BY <1>1, <1>5, <2>1, <2>2, <2>3 DEF TypeInv, MemoryInv
<1>7. SettingsInv'
  BY <1>1 DEF TypeInv, SettingsInv, settings
<1>8. SearchInv'
  <2>1. \A x \in DOMAIN blocks' : blocks'[x].begin \in Int /\ End(blocks'[x]) \in Int
    <3>1. \A d \in Block : d.begin \in Int /\ End(d) \in Int
      BY DEF Block, End, Size
    <3> QED BY <1>6, <3>1 DEF MemoryInv
  <2>2. new' = count + 1 /\ new' \in DOMAIN blocks'
    BY <1>1, <1>4 DEF new
  <2>3. CASE drive.verify /\ DOMAIN blocks # {}
    <3> DEFINE o == Min(DOMAIN blocks)
    <3>1. pc' = "search" /\ Compare(o)
      BY <2>3 DEF Read
    <3>2. o \in DOMAIN blocks
      BY <2>3, MinIs DEF TypeInv, MemoryInv
    <3> HIDE DEF o
    <3>3. o \in DOMAIN blocks' \ {new'}
      BY <1>4, <2>2, <3>2
    <3>4. j' \in Int /\ searchend' \in Int
      BY <2>1, <2>2, <3>1, <3>3 DEF Compare, Most, Least
    <3> QED BY <1>1, <2>2, <3>1, <3>3, <3>4 DEF SearchInv, TypeInv, Compare, Olds
  <2>4. CASE ~(drive.verify /\ DOMAIN blocks # {})
    <3>1. CutNext
      BY <2>4 DEF Read
    <3> QED BY <1>1, <2>2, <3>1 DEF SearchInv, TypeInv, CutNext
  <2> QED BY <2>3, <2>4
<1> QED BY <1>6, <1>7, <1>8 DEF TypeInv

(* A match, in the terms of the run that was found.                        *)
MatchStep(b, one, from, to, offset) ==
  /\ b \in Places(Old, New, Post) /\ one \in Stats
  /\ offset = j - (b + New.begin)
  /\ from = RunAt(Old, New, Post, b).begin + Old.begin
  /\ to = RunAt(Old, New, Post, b).end + Old.begin
  /\ b \in Nat /\ b < Size(New) /\ offset \in Int /\ from \in Int /\ to \in Int
  /\ Settle(one, stage2, IsTime(one))
  /\ blocks' = BlocksAfter(stage2, IsTime(one))
  /\ frags' = FragmentsAfter(stage2, IsTime(one))
  /\ verified' =
       [verified EXCEPT
          ![older] = Marked(@, Old, from - blocks'[older].begin, to - blocks'[older].begin),
          ![new] = Marked(@, New, from - offset - blocks'[new].begin,
                                to - offset - blocks'[new].begin)]
  /\ j' = NextPost(to)

\* What a match found its run in, and that it is one of the ways to match.
LEMMA MatchIs ==
  ASSUME TypeInv, Match
  PROVE  /\ pc = "search" /\ pc' = pc /\ older' = older /\ searchend' = searchend
         /\ drive' = drive /\ count' = count /\ found' = found
         /\ Old \in Block /\ New \in Block /\ older \in Olds /\ new \in DOMAIN blocks
         /\ Wanted /\ Post \in Nat /\ Post < Size(Old) /\ j < searchend
         /\ \E b, one, from, to, offset : MatchStep(b, one, from, to, offset)
<1>0. /\ pc = "search" /\ pc' = pc /\ older' = older /\ searchend' = searchend
      /\ drive' = drive /\ count' = count /\ found' = found /\ j < searchend
  BY DEF Match, Searching, merge
<1>1. /\ Old \in Block /\ New \in Block /\ older \in Olds /\ new \in DOMAIN blocks
      /\ j \in Int
  BY <1>0 DEF TypeInv, SearchInv, MemoryInv, Old, New, Olds
<1>2. Wanted
  BY DEF Match, PlacesFound
<1>3. Post \in Nat /\ Post < Size(Old)
  BY <1>1, <1>2 DEF Wanted, Size, Block
<1>4. PICK b \in Places(Old, New, Post) :
        LET offset == j - (b + New.begin)
            run == RunAt(Old, New, Post, b)
            one == Counted(stage1, offset)
            from == run.begin + Old.begin
            to == run.end + Old.begin
        IN  /\ Settle(one, stage2, IsTime(one))
            /\ blocks' = BlocksAfter(stage2, IsTime(one))
            /\ frags' = FragmentsAfter(stage2, IsTime(one))
            /\ verified' =
                 [verified EXCEPT
                    ![older] = Marked(@, Old, from - blocks'[older].begin, to - blocks'[older].begin),
                    ![new] = Marked(@, New, from - offset - blocks'[new].begin,
                                          to - offset - blocks'[new].begin)]
            /\ j' = NextPost(to)
  BY <1>2 DEF Match, PlacesFound
<1> DEFINE offset == j - (b + New.begin)
           run == RunAt(Old, New, Post, b)
           one == Counted(stage1, offset)
           from == run.begin + Old.begin
           to == run.end + Old.begin
<1>5. b \in Nat /\ b < Size(New)
  BY <1>1, <1>3, PlacesAre
<1>6. offset \in Int
  BY <1>1, <1>5 DEF Block
<1>7. run.begin \in Int /\ run.end \in Int
  BY <1>1, <1>3, <1>5, RunIs
<1>8. from \in Int /\ to \in Int
  BY <1>1, <1>7 DEF Block
<1>9. one \in Stats
  BY <1>6, CountedIs DEF TypeInv, SettingsInv
<1>10. MatchStep(b, one, from, to, offset)
  BY <1>4, <1>5, <1>6, <1>8, <1>9 DEF MatchStep
<1> HIDE DEF offset, run, one, from, to
<1> QED BY <1>0, <1>1, <1>2, <1>3, <1>10

(* What a match flags, and that it leaves the types alone.                 *)
LEMMA MatchTypes ==
  ASSUME TypeInv, Match
  PROVE  TypeInv'
<1>0. /\ pc = "search" /\ pc' = pc /\ older' = older /\ searchend' = searchend
      /\ drive' = drive /\ count' = count /\ found' = found
  BY MatchIs
<1>1. /\ Old \in Block /\ New \in Block /\ older \in Olds /\ new \in DOMAIN blocks
      /\ j \in Int
  BY MatchIs DEF TypeInv, SearchInv
<1>2. PICK b, one, from, to, offset : MatchStep(b, one, from, to, offset)
  BY MatchIs
<1>6. offset \in Int
  BY <1>2 DEF MatchStep
<1>8. from \in Int /\ to \in Int
  BY <1>2 DEF MatchStep
<1>9. one \in Stats
  BY <1>2 DEF MatchStep
<1>10. /\ Settle(one, stage2, IsTime(one))
       /\ blocks' = BlocksAfter(stage2, IsTime(one))
       /\ frags' = FragmentsAfter(stage2, IsTime(one))
       /\ verified' =
            [verified EXCEPT
               ![older] = Marked(@, Old, from - blocks'[older].begin, to - blocks'[older].begin),
               ![new] = Marked(@, New, from - offset - blocks'[new].begin,
                                     to - offset - blocks'[new].begin)]
       /\ j' = NextPost(to)
  BY <1>2 DEF MatchStep
<1>11. /\ SettingsInv'
       /\ DOMAIN blocks' = DOMAIN blocks
       /\ \A x \in DOMAIN blocks : blocks'[x] \in Block /\ Size(blocks'[x]) = Size(blocks[x])
       /\ DOMAIN frags' = DOMAIN frags
       /\ \A p \in DOMAIN frags : frags'[p] \in Fragment
  BY <1>9, <1>10, TimeIs, SettleTypes DEF TypeInv, SettingsInv
<1>12. \A flags : \A B \in Block, x \in Int, y \in Int :
         flags \subseteq 0..(Size(B) - 1) => Marked(flags, B, x, y) \subseteq 0..(Size(B) - 1)
  <2>1. \A x \in Int : Most(0, x) \in Nat
    BY DEF Most
  <2>2. \A m, x \in Int : Least(m, x) \in Int /\ Least(m, x) <= m
    BY DEF Least
  <2>3. \A B \in Block : Size(B) \in Int
    BY DEF Block, Size
  <2> TAKE flags
  <2> TAKE B \in Block, x \in Int, y \in Int
  <2>4. x + OVERLAP_ADJ \in Int /\ y - OVERLAP_ADJ \in Int
    BY AdjIs
  <2>5. Most(0, x + OVERLAP_ADJ) \in Nat
        /\ Least(Size(B), y - OVERLAP_ADJ) \in Int /\ Least(Size(B), y - OVERLAP_ADJ) <= Size(B)
    BY <2>1, <2>2, <2>3, <2>4
  <2>6. Most(0, x + OVERLAP_ADJ)..(Least(Size(B), y - OVERLAP_ADJ) - 1) \subseteq 0..(Size(B) - 1)
    BY <2>3, <2>5
  <2> QED BY <2>6 DEF Marked
<1>13. /\ DOMAIN verified' = DOMAIN verified
       /\ \A x \in DOMAIN verified : x \notin {older, new} => verified'[x] = verified[x]
       /\ verified'[older] = Marked(verified[older], Old, from - blocks'[older].begin,
                                                          to - blocks'[older].begin)
       /\ verified'[new] = Marked(verified[new], New, from - offset - blocks'[new].begin,
                                                      to - offset - blocks'[new].begin)
  BY <1>1, <1>10 DEF TypeInv, MemoryInv, Olds
<1>14. /\ blocks'[older].begin \in Int /\ blocks'[new].begin \in Int
       /\ verified[older] \subseteq 0..(Size(Old) - 1) /\ verified[new] \subseteq 0..(Size(New) - 1)
  BY <1>1, <1>11 DEF Block, Olds, TypeInv, MemoryInv, Old, New
<1>15. MemoryInv'
  <2>1. \A x \in DOMAIN blocks : verified'[x] \subseteq 0..(Size(blocks[x]) - 1)
    <3>1. verified'[older] \subseteq 0..(Size(Old) - 1)
      BY <1>1, <1>8, <1>12, <1>13, <1>14
    <3>2. verified'[new] \subseteq 0..(Size(New) - 1)
      BY <1>1, <1>6, <1>8, <1>12, <1>13, <1>14
    <3> QED BY <1>13, <3>1, <3>2 DEF TypeInv, MemoryInv, Old, New
  <2> QED BY <1>0, <1>11, <1>13, <2>1 DEF TypeInv, MemoryInv
<1>16. j' \in Int
  BY <1>1, <1>8, <1>10, Stage1Assumption DEF NextPost, Most
<1>17. SearchInv'
  BY <1>0, <1>1, <1>11, <1>16 DEF TypeInv, SearchInv, Olds, new
<1> QED BY <1>11, <1>15, <1>17 DEF TypeInv

\* Cutting fragments keeps the types.
LEMMA CutTypes ==
  ASSUME TypeInv, CutFragments
  PROVE  TypeInv'
<1> DEFINE Keys == {new} \X Starts(Flagged)
<1>1. /\ pc = "cut" /\ pc' = "idle"
      /\ frags' = [p \in DOMAIN frags \cup Keys |-> IF p \in Keys THEN NewFragment(p[2]) ELSE frags[p]]
      /\ UNCHANGED <<drive, count, blocks, verified>> /\ UNCHANGED settings
      /\ UNCHANGED search /\ UNCHANGED merge
  BY DEF CutFragments
<1>2. \A p \in Keys : NewFragment(p[2]) \in Fragment
  BY <1>1, NewFragmentIs
<1> HIDE DEF Keys
<1>3. \A p \in DOMAIN frags' : frags'[p] \in Fragment
  BY <1>1, <1>2 DEF TypeInv, MemoryInv
<1>4. SettingsInv' /\ MemoryInv'
  BY <1>1, <1>3 DEF TypeInv, SettingsInv, MemoryInv, settings
<1>5. SearchInv'
  BY <1>1 DEF TypeInv, SearchInv, search, merge
<1> QED BY <1>4, <1>5 DEF TypeInv

\* So does a match of stage 2,
LEMMA Stage2MatchTypes ==
  ASSUME TypeInv, NEW k \in DOMAIN frags, NEW d \in drive.displaced, Stage2Match(k, d)
  PROVE  TypeInv'
<1> DEFINE one == Counted(stage1, -d)
<1>1. /\ Settle(one, stage2, IsTime(one))
      /\ blocks' = BlocksAfter(stage2, IsTime(one))
      /\ frags' = FragmentsAfter(stage2, IsTime(one))
      /\ pc' = "merge" /\ found' = d
      /\ UNCHANGED <<drive, count, verified>> /\ UNCHANGED search
  BY DEF Stage2Match
<1>2. d \in Int
  BY DEF TypeInv, MemoryInv, Drive
<1>3. one \in Stats
  <2>1. -d \in Int
    BY <1>2
  <2> QED BY <2>1, CountedIs DEF TypeInv, SettingsInv
<1> HIDE DEF one
<1>4. /\ SettingsInv'
      /\ DOMAIN blocks' = DOMAIN blocks
      /\ \A x \in DOMAIN blocks : blocks'[x] \in Block /\ Size(blocks'[x]) = Size(blocks[x])
      /\ DOMAIN frags' = DOMAIN frags
      /\ \A p \in DOMAIN frags : frags'[p] \in Fragment
  BY <1>1, <1>3, TimeIs, SettleTypes DEF TypeInv, SettingsInv
<1>5. MemoryInv'
  BY <1>1, <1>4 DEF TypeInv, MemoryInv
<1>6. SearchInv'
  BY <1>1, <1>2 DEF TypeInv, SearchInv, search
<1> QED BY <1>4, <1>5, <1>6 DEF TypeInv

\* the merge of a fragment,
LEMMA Stage2MergeTypes ==
  ASSUME TypeInv, NEW grows \in BOOLEAN, Stage2Merge(grows)
  PROVE  TypeInv'
<1> DEFINE two == IF grows THEN Counted(stage2, found) ELSE stage2
           time == grows /\ IsTime(two)
<1>1. /\ Settle(stage1, two, time)
      /\ blocks' = BlocksAfter(two, time)
      /\ frags' = Restrict(FragmentsAfter(two, time), DOMAIN frags \ {merging})
      /\ pc' = "idle" /\ found' = 0
      /\ UNCHANGED <<drive, count, verified>> /\ UNCHANGED search
  BY DEF Stage2Merge
<1>2. two \in Stats /\ stage1 \in Stats
  BY CountedIs DEF TypeInv, SettingsInv, SearchInv
<1>3. time \in BOOLEAN
  BY <1>2, TimeIs
<1> HIDE DEF two, time
<1>4. /\ SettingsInv'
      /\ DOMAIN blocks' = DOMAIN blocks
      /\ \A x \in DOMAIN blocks : blocks'[x] \in Block /\ Size(blocks'[x]) = Size(blocks[x])
      /\ \A p \in DOMAIN frags : FragmentsAfter(two, time)[p] \in Fragment
  BY <1>1, <1>2, <1>3, SettleTypes
<1>5. /\ DOMAIN frags' = DOMAIN frags \ {merging}
      /\ \A p \in DOMAIN frags' : frags'[p] \in Fragment
  BY <1>1, <1>4 DEF Restrict
<1>6. MemoryInv'
  BY <1>1, <1>4, <1>5 DEF TypeInv, MemoryInv
<1>7. SearchInv'
  BY <1>1 DEF TypeInv, SearchInv, search
<1> QED BY <1>4, <1>6, <1>7 DEF TypeInv

\* and freeing a block, which takes its fragments and nothing else.
LEMMA FreeTypes ==
  ASSUME TypeInv, NEW b \in DOMAIN blocks, FreeBlock(b)
  PROVE  /\ TypeInv'
         /\ DOMAIN frags' = {p \in DOMAIN frags : frags[p].one # b}
         /\ \A p \in DOMAIN frags' : frags'[p] = frags[p]
         /\ DOMAIN blocks' = DOMAIN blocks \ {b}
         /\ \A x \in DOMAIN blocks' : blocks'[x] = blocks[x]
<1>1. /\ pc = "idle" /\ pc' = "idle"
      /\ blocks' = Restrict(blocks, DOMAIN blocks \ {b})
      /\ verified' = Restrict(verified, DOMAIN blocks')
      /\ frags' = RestrictValues(frags, LAMBDA f : f.one # b)
      /\ UNCHANGED <<drive, count>> /\ UNCHANGED settings /\ UNCHANGED search /\ UNCHANGED merge
  BY DEF FreeBlock
<1>2. /\ DOMAIN frags' = {p \in DOMAIN frags : frags[p].one # b}
      /\ \A p \in DOMAIN frags' : frags'[p] = frags[p]
  BY <1>1 DEF RestrictValues, Restrict
<1>3. /\ DOMAIN blocks' = DOMAIN blocks \ {b}
      /\ \A x \in DOMAIN blocks' : blocks'[x] = blocks[x]
      /\ DOMAIN verified' = DOMAIN blocks'
      /\ \A x \in DOMAIN blocks' : verified'[x] = verified[x]
  BY <1>1 DEF Restrict
<1>4. SettingsInv' /\ MemoryInv'
  BY <1>1, <1>2, <1>3 DEF TypeInv, SettingsInv, MemoryInv, settings
<1>5. SearchInv'
  BY <1>1 DEF TypeInv, SearchInv, search, merge
<1> QED BY <1>2, <1>3, <1>4, <1>5 DEF TypeInv

(* The steps of the search that leave everything in memory alone, and the  *)
(* widening of the overlap.                                                *)
LEMMA OtherTypes ==
  ASSUME TypeInv, PassOver \/ NextBlock \/ Widen \/ UNCHANGED vars
  PROVE  TypeInv'
<1>1. CASE PassOver
  <2>1. /\ UNCHANGED <<drive, count>> /\ UNCHANGED lists /\ UNCHANGED settings
        /\ UNCHANGED <<pc, older, searchend>> /\ UNCHANGED merge /\ j' = j + STRIDE
    BY <1>1 DEF PassOver
  <2>2. j' \in Int
    BY <2>1, Stage1Assumption DEF TypeInv, SearchInv
  <2>3. SettingsInv' /\ MemoryInv'
    BY <2>1 DEF TypeInv, SettingsInv, MemoryInv, settings, lists
  <2>4. SearchInv'
    BY <2>1, <2>2 DEF TypeInv, SearchInv, merge, lists, new, Olds
  <2> QED BY <2>3, <2>4 DEF TypeInv
<1>2. CASE NextBlock
  <2>1. /\ UNCHANGED <<drive, count>> /\ UNCHANGED lists /\ UNCHANGED settings /\ UNCHANGED merge
        /\ pc = "search"
    BY <1>2 DEF NextBlock
  <2>2. SettingsInv' /\ MemoryInv'
    BY <2>1 DEF TypeInv, SettingsInv, MemoryInv, settings, lists
  <2>3. SearchInv'
    <3> DEFINE Newer == {o \in Olds : o > older}
    <3>1. CASE Newer = {}
      <4>1. CutNext
        BY <1>2, <3>1 DEF NextBlock
      <4> QED BY <2>1, <4>1 DEF TypeInv, SearchInv, CutNext, lists, merge, new
    <3>2. CASE Newer # {}
      <4>1. pc' = "search" /\ Compare(Min(Newer))
        BY <1>2, <3>2 DEF NextBlock
      <4>2. Newer \in SUBSET Nat
        BY DEF TypeInv, MemoryInv, Olds
      <4>3. Min(Newer) \in Newer
        <5> HIDE DEF Newer
        <5> QED BY <3>2, <4>2, MinIs
      <4>4. Min(Newer) \in Olds
        BY <4>3
      <4> HIDE DEF Newer
      <4>5. \A x \in DOMAIN blocks : blocks[x].begin \in Int /\ End(blocks[x]) \in Int
        <5>1. \A d \in Block : d.begin \in Int /\ End(d) \in Int
          BY DEF Block, End, Size
        <5> QED BY <5>1 DEF TypeInv, MemoryInv
      <4>6. new \in DOMAIN blocks /\ new' = new /\ blocks' = blocks
        BY <2>1 DEF TypeInv, SearchInv, lists, new
      <4>7. j' \in Int /\ searchend' \in Int
        BY <4>1, <4>4, <4>5, <4>6 DEF Compare, Most, Least, Olds
      <4> QED BY <2>1, <4>1, <4>4, <4>6, <4>7 DEF TypeInv, SearchInv, Compare, merge, Olds
    <3> QED BY <3>1, <3>2
  <2> QED BY <2>2, <2>3 DEF TypeInv
<1>3. CASE Widen
  <2>1. /\ dynoverlap' = Least(MAX_OVERLAP, (dynoverlap * 3) \div 2) /\ dynoverlap \in Int
        /\ UNCHANGED <<drive, count>> /\ UNCHANGED lists /\ UNCHANGED <<stage1, stage2, dyndrift, pc>>
        /\ UNCHANGED search /\ UNCHANGED merge
    BY <1>3 DEF Widen, TypeInv, SettingsInv
  <2>2. dynoverlap' \in Int
    BY <2>1, OffsetsAssumption DEF Least
  <2>3. SettingsInv' /\ MemoryInv'
    BY <2>1, <2>2 DEF TypeInv, SettingsInv, MemoryInv, lists
  <2>4. SearchInv'
    BY <2>1 DEF TypeInv, SearchInv, search, merge, lists, new, Olds
  <2> QED BY <2>3, <2>4 DEF TypeInv
<1>4. CASE UNCHANGED vars
  <2>1. SettingsInv' /\ MemoryInv'
    BY <1>4 DEF TypeInv, SettingsInv, MemoryInv, settings, lists, vars
  <2>2. SearchInv'
    BY <1>4 DEF TypeInv, SearchInv, search, merge, lists, new, Olds, vars
  <2> QED BY <2>1, <2>2 DEF TypeInv
<1> QED BY <1>1, <1>2, <1>3, <1>4

\* Every step keeps the types.
LEMMA StepTypes == TypeInv /\ [Next]_vars => TypeInv'
BY ReadTypes, MatchTypes, CutTypes, Stage2MatchTypes, Stage2MergeTypes, FreeTypes, OtherTypes
   DEF Next

\* The types always hold.
LEMMA TypesHold == Spec => []TypeInv
BY InitTypes, StepTypes, PTL DEF Spec

-----------------------------------------------------------------------------
(* As long as no fragment has lost its block, each lies where the offset   *)
(* it was cut at is now.                                                   *)

InPlace(f) == f.one \in DOMAIN blocks /\ f.begin = blocks[f.one].begin + f.at

PlaceInv == ~lost => \A p \in DOMAIN frags : InPlace(frags[p])

(* However the settings are adjusted, blocks and fragments move alike.     *)
LEMMA SettlePlaces ==
  ASSUME TypeInv, PlaceInv, NEW one \in Stats, NEW two \in Stats, NEW time \in BOOLEAN,
         Settle(one, two, time), ~lost', NEW p \in DOMAIN frags
  PROVE  LET f == FragmentsAfter(two, time)[p]
             after == BlocksAfter(two, time)
         IN  f.one \in DOMAIN after /\ f.begin = after[f.one].begin + f.at
<1> DEFINE av == Drift(two)
           g == frags[p]
<1>1. CASE ~Drifting(two, time)
  <2>1. ~lost
    BY <1>1 DEF Settle, history
  <2> QED BY <1>1, <2>1 DEF PlaceInv, InPlace, FragmentsAfter, BlocksAfter
<1>2. CASE Drifting(two, time)
  <2>1. ~lost /\ \A k \in DOMAIN frags : MovedFragments(av)[k].one # Nowhere
    BY <1>2 DEF Settle
  <2>2. av \in Int
    BY <1>2, DriftIs DEF Drifting
  <2>3. \A k \in DOMAIN frags : InPlace(frags[k]) /\ frags[k] \in Fragment
    BY <2>1 DEF PlaceInv, TypeInv, MemoryInv
  <2>4. \A k \in DOMAIN frags : frags[k].one # Nowhere
    BY <2>3 DEF InPlace, Nowhere, TypeInv, MemoryInv
  <2>5. Reached(p)
    BY <2>4 DEF Reached
  <2>6. MovedFragments(av)[p] = MovedFragment(g, av)
    BY <2>5 DEF MovedFragments
  <2>7. /\ ~(g.begin < av \/ blocks[g.one].begin < av)
        /\ MovedFragment(g, av) = [g EXCEPT !.begin = @ - av]
    <3>1. MovedFragment(g, av).one # Nowhere
      BY <2>1, <2>6
    <3>2. [g EXCEPT !.one = Nowhere].one = Nowhere
      BY <2>3 DEF Fragment
    <3> QED BY <3>1, <3>2 DEF MovedFragment
  <2>8. /\ MovedFragments(av)[p].one = g.one /\ MovedFragments(av)[p].at = g.at
        /\ MovedFragments(av)[p].begin = g.begin - av
    BY <2>3, <2>6, <2>7 DEF Fragment
  <2>9. blocks[g.one].begin \in Int /\ blocks[g.one] \in Block /\ g.at \in Int /\ g.begin \in Int
    BY <2>3 DEF InPlace, TypeInv, MemoryInv, Block, Fragment
  <2>10. Least(av, blocks[g.one].begin) = av
    BY <2>2, <2>7, <2>9 DEF Least
  <2>11. MovedBlocks(av)[g.one].begin = blocks[g.one].begin - av
    <3>1. MovedBlocks(av)[g.one] = [blocks[g.one] EXCEPT !.begin = @ - Least(av, @)]
      BY <2>2, <2>3, MovedTypes DEF InPlace
    <3>2. MovedBlocks(av)[g.one] = [blocks[g.one] EXCEPT !.begin = blocks[g.one].begin - av]
      BY <2>10, <3>1
    <3> QED BY <2>9, <3>2 DEF Block
  <2>12. g.one \in DOMAIN MovedBlocks(av)
    BY <2>2, <2>3, MovedTypes DEF InPlace
  <2>13. g.begin - av = (blocks[g.one].begin - av) + g.at
    BY <2>2, <2>3, <2>9 DEF InPlace
  <2> QED BY <1>2, <2>8, <2>11, <2>12, <2>13 DEF FragmentsAfter, BlocksAfter
<1> QED BY <1>1, <1>2

\* Every step keeps fragments where their blocks hold their samples,
LEMMA PlaceStep == TypeInv /\ PlaceInv /\ [Next]_vars => PlaceInv'
<1> SUFFICES ASSUME TypeInv, PlaceInv, [Next]_vars, ~lost', NEW p \in DOMAIN frags'
             PROVE  InPlace(frags[p])'
  BY DEF PlaceInv
<1>1. ASSUME NEW b \in drive.blocks, Read(b) PROVE InPlace(frags[p])'
  <2>1. /\ frags' = frags /\ lost' = lost /\ count' = count + 1
        /\ blocks' = With(blocks, count', [b EXCEPT !.begin = @ - dyndrift])
    BY <1>1 DEF Read
  <2>2. /\ \A x \in DOMAIN blocks : x \in DOMAIN blocks' /\ blocks'[x] = blocks[x]
    BY <2>1 DEF With, TypeInv, MemoryInv
  <2> QED BY <2>1, <2>2 DEF PlaceInv, InPlace
<1>2. CASE Match
  <2>1. PICK one : /\ one \in Stats /\ Settle(one, stage2, IsTime(one))
                   /\ blocks' = BlocksAfter(stage2, IsTime(one))
                   /\ frags' = FragmentsAfter(stage2, IsTime(one))
    BY <1>2, MatchIs DEF MatchStep
  <2>2. stage2 \in Stats
    BY DEF TypeInv, SettingsInv
  <2>3. DOMAIN frags' = DOMAIN frags
    BY <2>1, <2>2, TimeIs, SettleTypes
  <2> QED BY <2>1, <2>2, <2>3, TimeIs, SettlePlaces DEF InPlace
<1>3. CASE CutFragments
  <2> DEFINE Keys == {new} \X Starts(Flagged)
  <2>1. /\ pc = "cut" /\ lost' = lost /\ blocks' = blocks
        /\ frags' = [q \in DOMAIN frags \cup Keys |-> IF q \in Keys THEN NewFragment(q[2]) ELSE frags[q]]
    BY <1>3 DEF CutFragments, history
  <2>2. CASE p \in Keys
    <3>1. p[2] \in Starts(Flagged) /\ frags'[p] = NewFragment(p[2])
      BY <2>1, <2>2
    <3>2. /\ NewFragment(p[2]).one = new
          /\ NewFragment(p[2]).begin = New.begin + NewFragment(p[2]).at
      BY <2>1, <3>1, NewFragmentIs
    <3>3. new \in DOMAIN blocks
      BY <2>1 DEF TypeInv, SearchInv
    <3> QED BY <2>1, <3>1, <3>2, <3>3 DEF InPlace, New
  <2>3. CASE p \notin Keys
    <3> HIDE DEF Keys
    <3> QED BY <2>1, <2>3 DEF InPlace, PlaceInv
  <2> QED BY <2>2, <2>3
<1>4. ASSUME NEW k \in DOMAIN frags, NEW d \in drive.displaced, Stage2Match(k, d)
      PROVE  InPlace(frags[p])'
  <2> DEFINE one == Counted(stage1, -d)
  <2>1. /\ Settle(one, stage2, IsTime(one))
        /\ blocks' = BlocksAfter(stage2, IsTime(one))
        /\ frags' = FragmentsAfter(stage2, IsTime(one))
    BY <1>4 DEF Stage2Match
  <2>2. one \in Stats /\ stage2 \in Stats
    <3>1. d \in Int
      BY DEF TypeInv, MemoryInv, Drive
    <3>2. -d \in Int
      BY <3>1
    <3> QED BY <3>2, CountedIs DEF TypeInv, SettingsInv
  <2> HIDE DEF one
  <2>3. DOMAIN frags' = DOMAIN frags
    BY <2>1, <2>2, TimeIs, SettleTypes
  <2> QED BY <2>1, <2>2, <2>3, TimeIs, SettlePlaces DEF InPlace
<1>5. ASSUME NEW grows \in BOOLEAN, Stage2Merge(grows) PROVE InPlace(frags[p])'
  <2> DEFINE two == IF grows THEN Counted(stage2, found) ELSE stage2
             time == grows /\ IsTime(two)
  <2>1. /\ Settle(stage1, two, time)
        /\ blocks' = BlocksAfter(two, time)
        /\ frags' = Restrict(FragmentsAfter(two, time), DOMAIN frags \ {merging})
    BY <1>5 DEF Stage2Merge
  <2>2. two \in Stats /\ stage1 \in Stats
    BY CountedIs DEF TypeInv, SettingsInv, SearchInv
  <2>3. time \in BOOLEAN
    BY <2>2, TimeIs
  <2> HIDE DEF two, time
  <2>4. p \in DOMAIN frags /\ frags'[p] = FragmentsAfter(two, time)[p]
    BY <2>1 DEF Restrict
  <2> QED BY <2>1, <2>2, <2>3, <2>4, SettlePlaces DEF InPlace
<1>6. ASSUME NEW b \in DOMAIN blocks, FreeBlock(b) PROVE InPlace(frags[p])'
  <2>1. lost' = lost
    BY <1>6 DEF FreeBlock, history
  <2>2. /\ DOMAIN frags' = {q \in DOMAIN frags : frags[q].one # b}
        /\ \A q \in DOMAIN frags' : frags'[q] = frags[q]
        /\ DOMAIN blocks' = DOMAIN blocks \ {b}
        /\ \A x \in DOMAIN blocks' : blocks'[x] = blocks[x]
    BY <1>6, FreeTypes
  <2> QED BY <2>1, <2>2 DEF PlaceInv, InPlace
<1>7. CASE PassOver \/ NextBlock \/ Widen \/ UNCHANGED vars
  <2>1. frags' = frags /\ blocks' = blocks /\ lost' = lost
    BY <1>7 DEF PassOver, NextBlock, Widen, vars, lists, history
  <2> QED BY <2>1 DEF PlaceInv, InPlace
<1> QED BY <1>1, <1>2, <1>3, <1>4, <1>5, <1>6, <1>7 DEF Next

(* A fragment stays where its block is, however both are moved, as long as *)
(* none has lost its block (overlap.c:125-137).                            *)
THEOREM FragmentsStay == Spec => []FragmentsInPlace
<1>1. Init => PlaceInv
  BY DEF Init, PlaceInv
<1>2. TypeInv /\ PlaceInv => FragmentsInPlace
  BY DEF TypeInv, MemoryInv, PlaceInv, InPlace, FragmentsInPlace, Nowhere
<1>3. Spec => []PlaceInv
  BY <1>1, PlaceStep, TypesHold, PTL DEF Spec
<1> QED BY <1>2, <1>3, TypesHold, PTL

-----------------------------------------------------------------------------
(* What is flagged was read twice.                                         *)

(* The offsets from to to of B are a run that A has as well.               *)
Together(A, B, a, b, n) ==
  \A k \in 0..n :
    /\ Same(A, B, a + k, b + k)
    /\ k = 0 => BothEdge(A, B, a + k, b + k) \/ BothRead(A, B, a + k, b + k)
    /\ k # 0 => BothRead(A, B, a + k, b + k) /\ ~BothEdge(A, B, a + k, b + k)

MatchedRun(A, B, from, to) ==
  /\ from \in Nat /\ to \in Nat /\ from <= to /\ to < Size(B)
  /\ to - from >= MIN_WORDS_SEARCH
  /\ \E a \in Nat : a + (to - from) < Size(A) /\ Together(A, B, a, from, to - from)

(* A match is such a run, and holds the sample it was found by.            *)
LEMMA MatchIsRun ==
  ASSUME NEW A \in Block, NEW B \in Block, NEW a \in Nat, NEW b \in Nat,
         a < Size(A), b < Size(B), a \notin A.unread, IsMatch(A, B, a, b)
  PROVE  LET from == RunAt(A, B, a, b).begin + (b - a)
             to == RunAt(A, B, a, b).end + (b - a)
         IN  from <= b /\ b < to /\ MatchedRun(A, B, from, to - 1)
<1> DEFINE back == Backward(A, B, a, b)
           begin == a + 1 - back
           fore == Forward(A, B, a, b, begin)
<1>1. Same(A, B, a, b) /\ b \notin B.unread
      /\ RunAt(A, B, a, b).end - RunAt(A, B, a, b).begin > MIN_WORDS_SEARCH
  BY DEF IsMatch
<1>2. Size(A) \in Nat /\ Size(B) \in Nat /\ Least(a, b) \in Nat
      /\ Least(a, b) <= a /\ Least(a, b) <= b
  BY DEF Block, Size, Least
<1>3. /\ back \in 0..(Least(a, b) + 1)
      /\ \A k \in 0..(back - 1) : Same(A, B, a - k, b - k)
      /\ \A k \in 0..(back - 2) : BothRead(A, B, a - k, b - k) /\ ~BothEdge(A, B, a - k, b - k)
      /\ back > 0 => \/ BothEdge(A, B, a - back + 1, b - back + 1)
                     \/ BothRead(A, B, a - back + 1, b - back + 1)
  BY BackwardIs
<1>4. back >= 1
  <2>1. 1 \in 0..(Least(a, b) + 1)
    BY <1>2
  <2>2. \A k \in 0..(1 - 1) : Same(A, B, a - k, b - k)
    <3>1. \A k \in 0..(1 - 1) : a - k = a /\ b - k = b
      OBVIOUS
    <3> QED BY <1>1, <3>1
  <2>3. \A k \in 0..(1 - 2) : BothRead(A, B, a - k, b - k) /\ ~BothEdge(A, B, a - k, b - k)
    OBVIOUS
  <2>4. BothRead(A, B, a - 1 + 1, b - 1 + 1)
    <3>1. a - 1 + 1 = a /\ b - 1 + 1 = b
      OBVIOUS
    <3> QED BY <1>1, <3>1 DEF BothRead
  <2>5. 1 <= back
    BY <2>1, <2>2, <2>3, <2>4, BackwardIs
  <2> QED BY <2>5
<1>5. back \in Nat /\ begin \in Int
  BY <1>2, <1>3
<1>6. RunAt(A, B, a, b).begin = begin /\ RunAt(A, B, a, b).end = a + fore
  BY DEF RunAt
<1> HIDE DEF back, begin
<1>7. /\ fore \in 0..Least(Size(A) - a, Size(B) - b)
      /\ \A k \in 0..(fore - 1) :
           /\ Same(A, B, a + k, b + k) /\ BothRead(A, B, a + k, b + k)
           /\ BothEdge(A, B, a + k, b + k) => a + k = begin
  BY <1>5, ForwardIs
<1> HIDE DEF fore
<1>8. fore \in Nat /\ fore <= Size(A) - a /\ fore <= Size(B) - b
  BY <1>2, <1>7 DEF Least
<1>9. begin = a + 1 - back
  BY DEF begin
<1>10. (a + fore) - begin > MIN_WORDS_SEARCH
  BY <1>1, <1>6
<1>11. MIN_WORDS_SEARCH \in Nat \ {0}
  BY Stage1Assumption
<1> DEFINE from == b + 1 - back
           to == b + fore - 1
           len == (fore + back) - 2
<1>12. fore >= 1
  <2> SUFFICES ASSUME fore = 0 PROVE FALSE
    BY <1>8
  <2>1. 1 \in 0..Least(Size(A) - a, Size(B) - b)
    BY <1>2 DEF Least
  <2>2. back >= 2
    BY <1>5, <1>9, <1>10, <1>11
  <2>3. BothRead(A, B, a - 0, b - 0) /\ ~BothEdge(A, B, a - 0, b - 0)
    BY <1>3, <1>5, <2>2
  <2>4. \A k \in 0..(1 - 1) :
           /\ Same(A, B, a + k, b + k) /\ BothRead(A, B, a + k, b + k)
           /\ BothEdge(A, B, a + k, b + k) => a + k = begin
    <3>1. \A k \in 0..(1 - 1) : a + k = a /\ b + k = b
      OBVIOUS
    <3>2. a - 0 = a /\ b - 0 = b
      OBVIOUS
    <3> QED BY <1>1, <2>3, <3>1, <3>2
  <2>5. 1 <= Forward(A, B, a, b, begin)
    BY <1>5, <2>1, <2>4, ForwardIs
  <2> QED BY <2>5 DEF fore
<1>13. /\ from \in Nat /\ to \in Nat /\ from <= to /\ to < Size(B) /\ to - from = len
       /\ begin \in Nat /\ begin + len < Size(A) /\ len >= MIN_WORDS_SEARCH /\ len \in Nat
  BY <1>2, <1>3, <1>4, <1>5, <1>8, <1>9, <1>10, <1>11, <1>12
<1>14. Together(A, B, begin, from, len)
  <2> SUFFICES ASSUME NEW k \in 0..len
               PROVE  /\ Same(A, B, begin + k, from + k)
                      /\ k = 0 => BothEdge(A, B, begin + k, from + k) \/ BothRead(A, B, begin + k, from + k)
                      /\ k # 0 => BothRead(A, B, begin + k, from + k) /\ ~BothEdge(A, B, begin + k, from + k)
    BY DEF Together
  <2>1. k \in Nat /\ k <= len
    BY <1>13
  <2>2. CASE k < back
    <3> DEFINE m == back - 1 - k
    <3>1. m \in 0..(back - 1) /\ a - m = begin + k /\ b - m = from + k
      BY <1>5, <1>9, <2>1, <2>2
    <3>2. Same(A, B, begin + k, from + k)
      BY <1>3, <3>1
    <3>3. CASE k = 0
      <4>1. a - back + 1 = begin + k /\ b - back + 1 = from + k
        BY <1>5, <1>9, <3>3
      <4> QED BY <1>3, <1>4, <1>5, <3>2, <3>3, <4>1
    <3>4. CASE k # 0
      <4>1. m \in 0..(back - 2)
        BY <1>5, <2>1, <2>2, <3>4
      <4> QED BY <1>3, <3>1, <3>2, <3>4, <4>1
    <3> QED BY <3>3, <3>4
  <2>3. CASE k >= back
    <3> DEFINE m == k + 1 - back
    <3>1. m \in 0..(fore - 1) /\ a + m = begin + k /\ b + m = from + k
      BY <1>5, <1>8, <1>9, <1>13, <2>1, <2>3
    <3>2. a + m # begin /\ k # 0
      BY <1>4, <1>5, <1>13, <2>1, <2>3, <3>1
    <3> HIDE DEF m
    <3> QED BY <1>7, <3>1, <3>2
  <2> QED BY <1>5, <2>1, <2>2, <2>3
<1>15. RunAt(A, B, a, b).begin + (b - a) = from /\ (RunAt(A, B, a, b).end + (b - a)) - 1 = to
       /\ RunAt(A, B, a, b).end + (b - a) = b + fore
  BY <1>5, <1>6, <1>8, <1>9
<1>16. from <= b /\ b < b + fore
  BY <1>4, <1>5, <1>8, <1>12
<1> HIDE DEF from, to, len
<1>17. MatchedRun(A, B, from, to)
  BY <1>13, <1>14 DEF MatchedRun
<1> QED BY <1>15, <1>16, <1>17


(* What follows the sample a run was found by agrees, to its end.          *)
LEMMA RunHolds ==
  ASSUME NEW A \in Block, NEW B \in Block, NEW a \in Nat, NEW b \in Nat,
         a < Size(A), b < Size(B), NEW k \in Nat, b + k < RunAt(A, B, a, b).end + (b - a)
  PROVE  Same(A, B, a + k, b + k)
<1> DEFINE back == Backward(A, B, a, b)
           begin == a + 1 - back
           fore == Forward(A, B, a, b, begin)
<1>1. RunAt(A, B, a, b).end = a + fore
  BY DEF RunAt
<1>2. begin \in Int
  <2>1. back \in 0..(Least(a, b) + 1) /\ Least(a, b) \in Int
    BY BackwardIs DEF Least
  <2> QED BY <2>1
<1> HIDE DEF begin
<1>3. /\ fore \in 0..Least(Size(A) - a, Size(B) - b)
      /\ \A m \in 0..(fore - 1) : Same(A, B, a + m, b + m)
  BY <1>2, ForwardIs
<1>4. fore \in Nat
  BY <1>3 DEF Least, Block, Size
<1> HIDE DEF fore
<1>5. k \in 0..(fore - 1)
  BY <1>1, <1>4
<1> QED BY <1>3, <1>5

TwiceInv ==
  pc \in {"search", "cut"} /\ ~moved =>
    \A v \in verified[new] :
      \E o \in Olds, from \in Nat, to \in Nat :
        MatchedRun(blocks[o], New, from, to) /\ from + OVERLAP_ADJ <= v /\ v + OVERLAP_ADJ <= to

(* What a match flags in the new block lies in the run it found, unless    *)
(* blocks were moved.                                                      *)
LEMMA MatchFlags ==
  ASSUME TypeInv, NEW b, NEW one, NEW from, NEW to, NEW offset,
         Match, MatchStep(b, one, from, to, offset), ~moved'
  PROVE  LET x == RunAt(Old, New, Post, b).begin + (b - Post)
             y == RunAt(Old, New, Post, b).end + (b - Post)
         IN  /\ ~moved /\ moved' = moved /\ blocks' = blocks
             /\ verified'[new] = Marked(verified[new], New, x, y)
             /\ x <= b /\ b < y /\ MatchedRun(Old, New, x, y - 1)
             /\ x \in Int /\ y \in Int
             /\ j' = NextPost(y + New.begin - (b - Post) + (Old.begin - New.begin))
<1> DEFINE x == RunAt(Old, New, Post, b).begin + (b - Post)
           y == RunAt(Old, New, Post, b).end + (b - Post)
<1>1. /\ Old \in Block /\ New \in Block /\ older \in Olds /\ new \in DOMAIN blocks
      /\ Post \in Nat /\ Post < Size(Old)
  BY MatchIs
<1>2. ~moved /\ moved' = moved /\ blocks' = blocks
  <2>1. Settle(one, stage2, IsTime(one)) /\ blocks' = BlocksAfter(stage2, IsTime(one))
    BY DEF MatchStep
  <2>2. ~Drifting(stage2, IsTime(one))
    BY <2>1 DEF Settle
  <2> QED BY <2>1, <2>2 DEF Settle, history, BlocksAfter
<1>3. /\ b \in Places(Old, New, Post) /\ b \in Nat /\ b < Size(New)
      /\ offset = j - (b + New.begin)
      /\ from = RunAt(Old, New, Post, b).begin + Old.begin
      /\ to = RunAt(Old, New, Post, b).end + Old.begin
      /\ j' = NextPost(to)
      /\ verified' =
           [verified EXCEPT
              ![older] = Marked(@, Old, from - blocks'[older].begin, to - blocks'[older].begin),
              ![new] = Marked(@, New, from - offset - blocks'[new].begin,
                                    to - offset - blocks'[new].begin)]
  BY DEF MatchStep
<1>4. /\ Post \notin Old.unread /\ IsMatch(Old, New, Post, b)
  BY <1>1, <1>3, PlacesAre
<1>5. x <= b /\ b < y /\ MatchedRun(Old, New, x, y - 1)
  BY <1>1, <1>3, <1>4, MatchIsRun
<1>6. /\ RunAt(Old, New, Post, b).begin \in Int /\ RunAt(Old, New, Post, b).end \in Int
      /\ Old.begin \in Int /\ New.begin \in Int /\ j \in Int /\ Post = j - Old.begin
  BY <1>1, <1>3, RunIs DEF Block, TypeInv, SearchInv, Post
<1>7. from - offset - New.begin = x /\ to - offset - New.begin = y /\ x \in Int /\ y \in Int
      /\ to = y + New.begin - (b - Post) + (Old.begin - New.begin)
  BY <1>3, <1>6
<1>8. verified'[new] = Marked(verified[new], New, x, y)
  <2>1. blocks'[new].begin = New.begin
    BY <1>2 DEF New
  <2>2. new \in DOMAIN verified /\ older # new
    BY <1>1 DEF TypeInv, MemoryInv, Olds
  <2>3. verified'[new] = Marked(verified[new], New, from - offset - blocks'[new].begin,
                                                    to - offset - blocks'[new].begin)
    BY <1>3, <2>2
  <2> HIDE DEF x, y
  <2> QED BY <1>7, <2>1, <2>3
<1> QED BY <1>2, <1>3, <1>5, <1>7, <1>8

\* and what is flagged as verified read alike twice.
LEMMA TwiceStep == TypeInv /\ TwiceInv /\ [Next]_vars => TwiceInv'
<1> SUFFICES ASSUME TypeInv, TwiceInv, [Next]_vars, pc' \in {"search", "cut"}, ~moved'
             PROVE  (\A v \in verified[new] :
                       \E o \in Olds, from \in Nat, to \in Nat :
                         MatchedRun(blocks[o], New, from, to)
                         /\ from + OVERLAP_ADJ <= v /\ v + OVERLAP_ADJ <= to)'
  BY DEF TwiceInv
<1>1. ASSUME NEW b \in drive.blocks, Read(b) PROVE verified'[new'] = {}
  BY <1>1 DEF Read, With, new
<1>2. CASE Match
  <2>1. PICK b, one, from, to, offset : MatchStep(b, one, from, to, offset)
    BY <1>2, MatchIs
  <2> DEFINE x == RunAt(Old, New, Post, b).begin + (b - Post)
             y == RunAt(Old, New, Post, b).end + (b - Post)
  <2>2. /\ ~moved /\ blocks' = blocks
        /\ verified'[new] = Marked(verified[new], New, x, y)
        /\ MatchedRun(Old, New, x, y - 1) /\ x \in Int /\ y \in Int
    BY <1>2, <2>1, MatchFlags
  <2> HIDE DEF x, y
  <2>3. /\ pc = "search" /\ count' = count /\ older \in Olds /\ Size(New) \in Int
    BY <1>2, MatchIs DEF Block, Size
  <2>4. new' = new /\ Olds' = Olds /\ New' = New
    BY <2>2, <2>3 DEF new, Olds, New
  <2>5. \A v \in verified'[new] :
          \/ v \in verified[new]
          \/ v \in Most(0, x + OVERLAP_ADJ)..(Least(Size(New), y - OVERLAP_ADJ) - 1)
    BY <2>2 DEF Marked
  <2>6. \A v \in Most(0, x + OVERLAP_ADJ)..(Least(Size(New), y - OVERLAP_ADJ) - 1) :
          x + OVERLAP_ADJ <= v /\ v + OVERLAP_ADJ <= y - 1
    BY <2>2, <2>3, AdjIs DEF Most, Least
  <2>7. x \in Nat /\ y - 1 \in Nat
    BY <2>2 DEF MatchedRun
  <2>8. \A v \in verified'[new] :
          \E o \in Olds, f \in Nat, t \in Nat :
            MatchedRun(blocks[o], New, f, t) /\ f + OVERLAP_ADJ <= v /\ v + OVERLAP_ADJ <= t
    <3> TAKE v \in verified'[new]
    <3>1. CASE v \in verified[new]
      BY <2>2, <2>3, <3>1 DEF TwiceInv
    <3>2. CASE v \in Most(0, x + OVERLAP_ADJ)..(Least(Size(New), y - OVERLAP_ADJ) - 1)
      BY <2>2, <2>3, <2>6, <2>7, <3>2 DEF Old
    <3> QED BY <2>5, <3>1, <3>2
  <2> QED BY <2>2, <2>4, <2>8
<1>3. CASE PassOver \/ NextBlock \/ UNCHANGED vars
  <2>1. /\ verified' = verified /\ blocks' = blocks /\ count' = count /\ moved' = moved
        /\ pc \in {"search", "cut"}
    BY <1>3 DEF PassOver, NextBlock, vars, lists, history, Searching
  <2>2. new' = new /\ Olds' = Olds /\ New' = New
    BY <2>1 DEF new, Olds, New
  <2>3. \A v \in verified[new] :
          \E o \in Olds, f \in Nat, t \in Nat :
            MatchedRun(blocks[o], New, f, t) /\ f + OVERLAP_ADJ <= v /\ v + OVERLAP_ADJ <= t
    BY <2>1 DEF TwiceInv
  <2> QED BY <2>1, <2>2, <2>3
<1>4. ASSUME \/ CutFragments \/ Widen
             \/ \E k \in DOMAIN frags, d \in drive.displaced : Stage2Match(k, d)
             \/ \E grows \in BOOLEAN : Stage2Merge(grows)
             \/ \E b \in DOMAIN blocks : FreeBlock(b)
      PROVE  FALSE
  <2>1. pc' \in {"idle", "merge"}
    BY <1>4 DEF CutFragments, Widen, Stage2Match, Stage2Merge, FreeBlock
  <2> QED BY <2>1
<1> QED BY <1>1, <1>2, <1>3, <1>4 DEF Next

(* A run that holds two offsets in a row confirms them.                    *)
LEMMA RunConfirms ==
  ASSUME NEW o \in Olds, blocks[o] \in Block, New \in Block, NEW from \in Nat, NEW to \in Nat,
         MatchedRun(blocks[o], New, from, to), NEW i \in Int, from <= i, i < to
  PROVE  ConfirmedBy(blocks[o], i)
<1> DEFINE A == blocks[o]
           n == to - from
<1>1. PICK a \in Nat : a + n < Size(A) /\ Together(A, New, a, from, n)
  BY DEF MatchedRun
<1>2. Size(A) \in Int /\ to < Size(New) /\ n >= MIN_WORDS_SEARCH /\ n \in Nat
  BY DEF MatchedRun, Block, Size
<1>3. from \in 0..i /\ to \in (i + 1)..(Size(New) - 1) /\ a \in 0..(Size(A) - 1)
  <2>1. to <= Size(New) - 1
    <3>1. Size(New) \in Int
      BY DEF Block, Size
    <3> QED BY <1>2, <3>1
  <2> QED BY <1>1, <1>2, <2>1
<1>4. \A k \in 0..(to - from) : Coincide(A, a + k, from + k, k = 0)
  BY <1>1 DEF Together, Coincide
<1>5. a + to - from < Size(A)
  BY <1>1, <1>2
<1> HIDE DEF A
<1>6. ConfirmedBy(A, i)
  BY <1>2, <1>3, <1>4, <1>5 DEF ConfirmedBy
<1> QED BY <1>6 DEF A


(* Every two samples in a row of a verified fragment lie in a run, longer  *)
(* than a coincidence, that an earlier read delivered as well and in which *)
(* the requests of the two do not meet; unless blocks were moved while     *)
(* they were compared (paranoia.c:439-540, 684-749).                       *)
THEOREM ReadTwice == Spec => []VerifiedTwice
<1>1. Init => TwiceInv
  BY DEF Init, TwiceInv
<1>2. Spec => []TwiceInv
  BY <1>1, TwiceStep, TypesHold, PTL DEF Spec
<1>3. TypeInv /\ TwiceInv => VerifiedTwice
  <2> SUFFICES ASSUME TypeInv, TwiceInv, pc = "cut", drive.verify, ~moved,
                      NEW s \in Starts(Flagged), NEW f, f = NewFragment(s),
                      NEW i \in f.at..(f.at + f.size - 2)
               PROVE  \E o \in Olds : ConfirmedBy(blocks[o], i)
    BY DEF VerifiedTwice, NewFragments, Confirmed
  <2> DEFINE S == verified[new]
             n == Size(New)
             e == StretchEnd(S, s)
  <2>1. New \in Block /\ n \in Nat /\ S \subseteq 0..(n - 1) /\ OVERLAP_ADJ \in Nat /\ OVERLAP_ADJ >= 1
    BY AdjIs DEF TypeInv, MemoryInv, SearchInv, New, new, Block, Size
  <2>2. Flagged = S /\ s \in S /\ s \in 0..(n - 1)
    BY <2>1 DEF Flagged, Starts
  <2>3. e \in (s + 1)..n /\ \A x \in s..(e - 1) : x \in S
    BY <2>1, <2>2, StretchIs
  <2>4. f.at = Most(0, s - OVERLAP_ADJ) /\ f.size = Least(n, e + OVERLAP_ADJ) - f.at
    BY <2>2 DEF NewFragment, VerifiedFragment, FragmentOf
  <2> HIDE DEF S, n, e
  <2>5. /\ e \in Int /\ s \in Int /\ i \in Int
        /\ 0 <= i /\ s - OVERLAP_ADJ <= i /\ i + 1 < n /\ i + 1 < e + OVERLAP_ADJ
    <3>1. e \in Int /\ s \in Int
      BY <2>1, <2>2, <2>3
    <3>2. /\ f.at \in Nat /\ s - OVERLAP_ADJ <= f.at
          /\ f.at + f.size \in Int /\ f.at + f.size <= n /\ f.at + f.size <= e + OVERLAP_ADJ
      BY <2>1, <2>4, <3>1 DEF Most, Least
    <3>3. f.size \in Int
      BY <2>1, <2>4, <3>1 DEF Most, Least
    <3>4. i \in Int /\ f.at <= i /\ i <= f.at + (f.size - 2)
      BY <3>2, <3>3
    <3> QED BY <2>1, <3>1, <3>2, <3>3, <3>4
  <2>6. \A v \in S :
          \E o \in Olds, from \in Nat, to \in Nat :
            MatchedRun(blocks[o], New, from, to) /\ from + OVERLAP_ADJ <= v /\ v + OVERLAP_ADJ <= to
    BY DEF TwiceInv, S
  (* The flagged offset nearest to i.                                      *)
  <2>7. PICK v \in s..(e - 1) : /\ v <= i => v = e - 1 \/ v = i
                                /\ i <= v => v = s \/ v = i
    <3>1. CASE i < s
      BY <2>3, <2>5, <3>1
    <3>2. CASE i \in s..(e - 1)
      BY <3>2
    <3>3. CASE i >= e
      BY <2>3, <2>5, <3>3
    <3> QED BY <2>5, <3>1, <3>2, <3>3
  <2>8. PICK o \in Olds, from \in Nat, to \in Nat :
          MatchedRun(blocks[o], New, from, to) /\ from + OVERLAP_ADJ <= v /\ v + OVERLAP_ADJ <= to
    BY <2>3, <2>6, <2>7
  <2>9. from <= i /\ i < to
    <3>1. v \in Int
      BY <2>5, <2>7
    <3>2. CASE v < i
      <4>1. v = e - 1
        BY <2>5, <2>7, <3>1, <3>2
      <4> QED BY <2>1, <2>5, <2>8, <3>1, <3>2, <4>1
    <3>3. CASE v = i
      BY <2>1, <2>5, <2>8, <3>1, <3>3
    <3>4. CASE i < v
      <4>1. v = s
        BY <2>5, <2>7, <3>1, <3>4
      <4> QED BY <2>1, <2>5, <2>8, <3>1, <3>4, <4>1
    <3> QED BY <2>5, <3>1, <3>2, <3>3, <3>4
  <2>10. blocks[o] \in Block
    BY DEF TypeInv, MemoryInv, Olds
  <2> QED BY <2>1, <2>5, <2>8, <2>9, <2>10, RunConfirms
<1> QED BY <1>2, <1>3, TypesHold, PTL

-----------------------------------------------------------------------------
(* What agrees is found.                                                   *)

(* The run around an offset b of B reaches over a stretch that agrees.     *)
LEMMA RunCovers ==
  ASSUME NEW A \in Block, NEW B \in Block, NEW a \in Nat, NEW b \in Nat,
         a < Size(A), b < Size(B),
         NEW f \in Nat, NEW n \in Nat, f + n < Size(B), b <= f + n,
         \A i \in f..(f + n) :
           /\ i + (a - b) \in Nat /\ i + (a - b) < Size(A)
           /\ Same(A, B, i + (a - b), i) /\ BothRead(A, B, i + (a - b), i)
           /\ ~BothEdge(A, B, i + (a - b), i),
         f <= b \/ f < RunAt(A, B, a, b).end + (b - a)
  PROVE  /\ f <= b => RunAt(A, B, a, b).begin + (b - a) <= f
         /\ f + n < RunAt(A, B, a, b).end + (b - a)
<1> DEFINE back == Backward(A, B, a, b)
           begin == a + 1 - back
           fore == Forward(A, B, a, b, begin)
<1>1. RunAt(A, B, a, b).begin = begin /\ RunAt(A, B, a, b).end = a + fore
  BY DEF RunAt
<1>2. Size(A) \in Nat /\ Size(B) \in Nat /\ Least(a, b) \in Nat
  BY DEF Block, Size, Least
<1>3. back \in Nat
  <2>1. back \in 0..(Least(a, b) + 1)
    BY BackwardIs
  <2> QED BY <1>2, <2>1
<1>4. begin \in Int /\ begin = a + 1 - back
  BY <1>3
<1>5. f <= b => begin + (b - a) <= f
  <2> SUFFICES ASSUME f <= b PROVE begin + (b - a) <= f
    OBVIOUS
  <2> DEFINE m == (b - f) + 1
  <2>1. m \in Nat /\ m > 0 /\ m - 1 = b - f
    OBVIOUS
  <2>2. \A k \in 0..(m - 1) :
          Same(A, B, a - k, b - k) /\ BothRead(A, B, a - k, b - k) /\ ~BothEdge(A, B, a - k, b - k)
    <3> TAKE k \in 0..(m - 1)
    <3>1. b - k \in f..(f + n) /\ (b - k) + (a - b) = a - k
      BY <2>1
    <3> QED BY <3>1
  <2>3. m \in 0..(Least(a, b) + 1)
    <3>1. f \in f..(f + n) /\ f + (a - b) = a - (b - f)
      OBVIOUS
    <3>2. a - (b - f) \in Nat
      BY <3>1
    <3> QED BY <2>1, <3>2 DEF Least
  <2>4. \A k \in 0..(m - 2) : k \in 0..(m - 1)
    BY <2>1
  <2>5. BothRead(A, B, a - m + 1, b - m + 1)
    <3>1. a - m + 1 = a - (m - 1) /\ b - m + 1 = b - (m - 1) /\ m - 1 \in 0..(m - 1)
      BY <2>1
    <3> QED BY <2>2, <3>1
  <2> HIDE DEF m
  <2>6. m <= back
    BY <2>2, <2>3, <2>4, <2>5, BackwardIs
  <2> HIDE DEF back
  <2>7. m = (b - f) + 1
    BY DEF m
  <2> QED BY <1>3, <1>4, <2>1, <2>6, <2>7
<1> HIDE DEF back, begin
<1>6. /\ fore \in 0..Least(Size(A) - a, Size(B) - b)
      /\ \A k \in 0..(fore - 1) :
           /\ Same(A, B, a + k, b + k) /\ BothRead(A, B, a + k, b + k)
           /\ BothEdge(A, B, a + k, b + k) => a + k = begin
  BY <1>4, ForwardIs
<1>7. fore \in Nat
  BY <1>2, <1>6 DEF Least
<1>8. f + n < (a + fore) + (b - a)
  <2> DEFINE m == (f + n + 1) - b
  <2>1. m \in Nat /\ b + m = f + n + 1
    OBVIOUS
  <2>2. m \in 0..Least(Size(A) - a, Size(B) - b)
    <3>1. f + n \in f..(f + n)
      OBVIOUS
    <3>2. (f + n) + (a - b) < Size(A)
      BY <3>1
    <3>3. m <= Size(A) - a /\ m <= Size(B) - b
      BY <1>2, <3>2
    <3> QED BY <1>2, <2>1, <3>3 DEF Least
  <2>3. \A k \in 0..(m - 1) :
           /\ Same(A, B, a + k, b + k) /\ BothRead(A, B, a + k, b + k)
           /\ BothEdge(A, B, a + k, b + k) => a + k = begin
    <3> TAKE k \in 0..(m - 1)
    <3>1. CASE f <= b + k
      <4>1. b + k \in f..(f + n) /\ (b + k) + (a - b) = a + k
        BY <2>1, <3>1
      <4> QED BY <4>1
    <3>2. CASE b + k < f
      <4>1. f < (a + fore) + (b - a)
        BY <1>1, <3>2
      <4>2. k \in 0..(fore - 1)
        BY <1>7, <2>1, <3>2, <4>1
      <4> QED BY <1>6, <4>2
    <3> QED BY <2>1, <3>1, <3>2
  <2> HIDE DEF m
  <2>4. m <= fore
    BY <1>4, <2>2, <2>3, ForwardIs
  <2> HIDE DEF fore
  <2> QED BY <1>7, <2>1, <2>4
<1> QED BY <1>1, <1>5, <1>8


Span(from) == from..(from + MIN_WORDS_SEARCH)

Agreed(o, from) ==
  from + MIN_WORDS_SEARCH < Size(New) /\ \A i \in Span(from) : Agreeing(o, i)

Seen(from) == verified[new] \cap Span(from) # {}

(* The search is within both blocks.                                       *)
WithinInv ==
  pc = "search" /\ ~moved =>
    /\ Old.begin <= j /\ New.begin <= j
    /\ searchend = Least(End(Old), End(New))

(* What is still to be seen lies ahead.                                    *)
Ahead(o, from) ==
  pc = "search" /\ (o > older \/ (o = older /\ j < New.begin + from + STRIDE))

AheadInv ==
  pc \in {"search", "cut"} /\ drive.verify /\ ~moved /\ Unrepeated(New) =>
    \A o \in Olds, from \in Nat : Agreed(blocks[o], from) => Seen(from) \/ Ahead(o, from)

\* The samples around a post that agree, place by place.
LEMMA SpanIs ==
  ASSUME TypeInv, pc = "search", NEW from \in Nat, Agreed(Old, from)
  PROVE  /\ Old \in Block /\ New \in Block /\ MIN_WORDS_SEARCH \in Nat
         /\ Old.begin \in Int /\ New.begin \in Int /\ j \in Int
         /\ Size(Old) \in Nat /\ Size(New) \in Nat
         /\ from + MIN_WORDS_SEARCH < Size(New)
         /\ \A i \in Span(from) : LET c == i + (New.begin - Old.begin) IN
              /\ i \in Nat /\ i < Size(New) /\ c \in Nat /\ c < Size(Old)
              /\ Same(Old, New, c, i) /\ BothRead(Old, New, c, i) /\ ~BothEdge(Old, New, c, i)
<1>1. /\ Old \in Block /\ New \in Block /\ MIN_WORDS_SEARCH \in Nat /\ j \in Int
  BY Stage1Assumption DEF TypeInv, SearchInv, MemoryInv, Old, New, Olds
<1>2. /\ Old.begin \in Int /\ New.begin \in Int /\ Size(Old) \in Nat /\ Size(New) \in Nat
  BY <1>1 DEF Block, Size
<1>3. from + MIN_WORDS_SEARCH < Size(New) /\ \A i \in Span(from) : Agreeing(Old, i)
  BY DEF Agreed
<1>4. ASSUME NEW i \in Span(from)
      PROVE  LET c == i + (New.begin - Old.begin) IN
              /\ i \in Nat /\ i < Size(New) /\ c \in Nat /\ c < Size(Old)
              /\ Same(Old, New, c, i) /\ BothRead(Old, New, c, i) /\ ~BothEdge(Old, New, c, i)
  <2>1. i \in Nat /\ i < Size(New)
    BY <1>1, <1>2, <1>3 DEF Span
  <2>2. New.begin + i - Old.begin = i + (New.begin - Old.begin)
    BY <1>2, <2>1
  <2>3. /\ New.begin + i - Old.begin \in 0..(Size(Old) - 1)
        /\ Same(Old, New, New.begin + i - Old.begin, i)
        /\ BothRead(Old, New, New.begin + i - Old.begin, i)
        /\ ~BothEdge(Old, New, New.begin + i - Old.begin, i)
    BY <1>3 DEF Agreeing
  <2>4. i + (New.begin - Old.begin) \in Int
    BY <1>2, <2>1
  <2> QED BY <1>2, <2>1, <2>2, <2>3, <2>4
<1> QED BY <1>1, <1>2, <1>3, <1>4

(* What is flagged of a run that covers a span lies in the span, too.      *)
LEMMA MarkedSeen ==
  ASSUME NEW flags, NEW B \in Block, NEW x \in Int, NEW y \in Int, NEW from \in Nat,
         from + MIN_WORDS_SEARCH < Size(B), x <= from, from + MIN_WORDS_SEARCH < y
  PROVE  Marked(flags, B, x, y) \cap Span(from) # {}
<1>1. /\ OVERLAP_ADJ \in Nat /\ MIN_WORDS_SEARCH \in Nat /\ 2 * OVERLAP_ADJ <= MIN_WORDS_SEARCH
      /\ Size(B) \in Nat
  BY AdjIs, Stage1Assumption, SearchAssumption DEF Block, Size
<1> DEFINE v == from + OVERLAP_ADJ
<1>2. v \in Nat /\ v \in Span(from)
  BY <1>1 DEF Span
<1>3. Most(0, x + OVERLAP_ADJ) <= v /\ Most(0, x + OVERLAP_ADJ) \in Int
  BY <1>1 DEF Most
<1>4. v <= Least(Size(B), y - OVERLAP_ADJ) - 1 /\ Least(Size(B), y - OVERLAP_ADJ) \in Int
  BY <1>1 DEF Least
<1>5. v \in Marked(flags, B, x, y)
  BY <1>2, <1>3, <1>4 DEF Marked
<1> QED BY <1>2, <1>5

(* A post in a span that is not seen is found.                             *)
LEMMA PostFound ==
  ASSUME TypeInv, WithinInv, pc = "search", ~moved, NEW from \in Nat, Agreed(Old, from), ~Seen(from),
         New.begin + from <= j, j < New.begin + from + STRIDE
  PROVE  PlacesFound # {}
<1> DEFINE own == j - New.begin
<1>1. /\ Old \in Block /\ New \in Block /\ MIN_WORDS_SEARCH \in Nat
      /\ Old.begin \in Int /\ New.begin \in Int /\ j \in Int
      /\ Size(Old) \in Nat /\ Size(New) \in Nat
      /\ from + MIN_WORDS_SEARCH < Size(New)
  BY SpanIs
<1>2. STRIDE \in Nat /\ STRIDE <= MIN_WORDS_SEARCH + 1
  BY Stage1Assumption, SearchAssumption
<1>3. own \in Nat /\ own \in Span(from) /\ own + (New.begin - Old.begin) = Post /\ from <= own
      /\ own <= from + MIN_WORDS_SEARCH
  BY <1>1, <1>2 DEF Span, Post
<1>4. /\ own < Size(New) /\ Post \in Nat /\ Post < Size(Old)
      /\ Same(Old, New, Post, own) /\ BothRead(Old, New, Post, own)
  BY <1>3, SpanIs
<1>5. Wanted
  <2>1. own \notin verified[new]
    BY <1>3 DEF Seen
  <2> QED BY <1>1, <1>4, <1>3, <2>1 DEF Wanted, BothRead
<1>6. own = Old.begin + Post - New.begin /\ own \in Int
  BY <1>1 DEF Post
<1>7. IsMatch(Old, New, Post, own)
  <2> DEFINE x == RunAt(Old, New, Post, own).begin + (own - Post)
             y == RunAt(Old, New, Post, own).end + (own - Post)
  <2>1. Post - own = New.begin - Old.begin
    BY <1>1, <1>3
  <2> HIDE DEF own
  <2>2. x <= from /\ from + MIN_WORDS_SEARCH < y
    <3>1. \A i \in from..(from + MIN_WORDS_SEARCH) :
             /\ i + (Post - own) \in Nat /\ i + (Post - own) < Size(Old)
             /\ Same(Old, New, i + (Post - own), i) /\ BothRead(Old, New, i + (Post - own), i)
             /\ ~BothEdge(Old, New, i + (Post - own), i)
      BY <2>1, SpanIs DEF Span
    <3> QED BY <1>1, <1>3, <1>4, <3>1, RunCovers
  <2>3. RunAt(Old, New, Post, own).begin \in Int /\ RunAt(Old, New, Post, own).end \in Int
    BY <1>1, <1>3, <1>4, RunIs
  <2>4. RunAt(Old, New, Post, own).end - RunAt(Old, New, Post, own).begin > MIN_WORDS_SEARCH
    BY <1>1, <1>3, <1>4, <2>2, <2>3
  <2> QED BY <1>4, <2>4 DEF IsMatch, BothRead
<1> HIDE DEF own
<1>8. Post \notin Old.unread
  BY <1>4 DEF BothRead
<1>9. own \in 0..(Size(New) - 1)
  BY <1>1, <1>3, <1>4
<1>10. Places(Old, New, Post) = {own}
  BY <1>6, <1>7, <1>8, <1>9 DEF Places
<1> QED BY <1>5, <1>10 DEF PlacesFound


(* A match sees a span that it meets, or ends before it.                   *)
LEMMA MatchSees ==
  ASSUME TypeInv, Match, ~moved', Unrepeated(New),
         NEW from \in Nat, Agreed(Old, from), j < New.begin + from + STRIDE
  PROVE  verified'[new] \cap Span(from) # {} \/ j' < New.begin + from + STRIDE
<1>0. PICK b, one, f, t, offset : MatchStep(b, one, f, t, offset)
  BY MatchIs
<1> DEFINE x == RunAt(Old, New, Post, b).begin + (b - Post)
           y == RunAt(Old, New, Post, b).end + (b - Post)
           n == MIN_WORDS_SEARCH
<1>1. /\ pc = "search" /\ Post \in Nat /\ Post < Size(Old)
  BY MatchIs
<1>2. /\ Old \in Block /\ New \in Block /\ n \in Nat
      /\ Old.begin \in Int /\ New.begin \in Int /\ j \in Int
      /\ Size(Old) \in Nat /\ Size(New) \in Nat /\ from + n < Size(New)
  BY <1>1, SpanIs
<1>3. STRIDE \in Nat /\ STRIDE <= n + 1
  BY Stage1Assumption, SearchAssumption
<1>4. /\ verified'[new] = Marked(verified[new], New, x, y)
      /\ x <= b /\ b < y /\ x \in Int /\ y \in Int
      /\ j' = NextPost(y + New.begin - (b - Post) + (Old.begin - New.begin))
  BY <1>0, MatchFlags
<1>5. b \in Nat /\ b < Size(New) /\ Post \notin Old.unread /\ IsMatch(Old, New, Post, b)
  BY <1>0, <1>1, <1>2, PlacesAre DEF MatchStep
<1>6. MatchedRun(Old, New, x, y - 1)
  BY <1>0, MatchFlags
<1>7. Post = j - Old.begin
  BY DEF Post
<1>8. \A i, k \in 0..(Size(New) - 1) : Sample(New, i) = Sample(New, k) => i = k
  BY DEF Unrepeated
<1> DEFINE own == j - New.begin
           d == New.begin - Old.begin
<1>9. own + d = Post /\ own \in Int /\ d \in Int
  BY <1>2, <1>7
<1>10. ASSUME b = own, from <= own \/ from < y
       PROVE  verified'[new] \cap Span(from) # {}
  <2>1. Post - b = d /\ own <= from + n
    BY <1>2, <1>3, <1>9, <1>10
  <2>2. \A i \in from..(from + n) :
             /\ i + (Post - b) \in Nat /\ i + (Post - b) < Size(Old)
             /\ Same(Old, New, i + (Post - b), i) /\ BothRead(Old, New, i + (Post - b), i)
             /\ ~BothEdge(Old, New, i + (Post - b), i)
    BY <1>1, <2>1, SpanIs DEF Span
  <2>3. (from <= b => x <= from) /\ from + n < y
    <3> HIDE DEF own, d, n
    <3> QED BY <1>1, <1>2, <1>5, <1>10, <2>1, <2>2, RunCovers
  <2>4. x <= from
    BY <1>4, <1>5, <2>3
  <2> HIDE DEF x, y, n
  <2>5. Marked(verified[new], New, x, y) \cap Span(from) # {}
    BY <1>2, <1>4, <2>3, <2>4, MarkedSeen DEF n
  <2> QED BY <1>4, <2>5
(* The post lies in the span.                                              *)
<1>11. CASE from <= own
  <2>1. own \in Span(from)
    BY <1>2, <1>3, <1>9, <1>11 DEF Span
  <2>2. own \in Nat /\ own < Size(New) /\ Same(Old, New, own + d, own)
    BY <1>1, <2>1, SpanIs
  <2>3. Same(Old, New, Post, b)
    BY <1>5 DEF IsMatch
  <2>4. Sample(New, own) = Sample(New, b)
    BY <1>9, <2>2, <2>3 DEF Same
  <2>5. b = own
    BY <1>2, <1>5, <1>8, <2>2, <2>4
  <2> QED BY <1>10, <1>11, <2>5
(* The post lies before it.                                                *)
<1>12. CASE own < from
  <2> DEFINE to == y + New.begin - (b - Post) + (Old.begin - New.begin)
             k == from - own
  <2>0. j' = Most(j, to - 1) + STRIDE /\ to \in Int
    BY <1>1, <1>2, <1>4, <1>5 DEF NextPost
  <2>1. CASE to - 1 < New.begin + from
    <3> HIDE DEF to
    <3> QED BY <1>2, <1>3, <1>9, <1>12, <2>0, <2>1 DEF Most
  <2>2. CASE to - 1 >= New.begin + from
    <3>1. k \in Nat /\ k > 0 /\ b + k < y
      BY <1>1, <1>2, <1>4, <1>5, <1>7, <1>9, <1>12, <2>2
    <3>2. b + k < Size(New) /\ Same(Old, New, Post + k, b + k)
      <4>2. Same(Old, New, Post + k, b + k)
        BY <1>1, <1>2, <1>5, <3>1, RunHolds
      <4>3. y - 1 < Size(New)
        BY <1>6 DEF MatchedRun
      <4> QED BY <1>2, <1>4, <1>5, <3>1, <4>2, <4>3
    <3>3. from \in Span(from) /\ from + d = Post + k
      BY <1>2, <1>9 DEF Span
    <3>4. Same(Old, New, Post + k, from) /\ from < Size(New)
      BY <1>1, <3>3, SpanIs
    <3>5. Sample(New, from) = Sample(New, b + k)
      BY <3>2, <3>4 DEF Same
    <3>6. from = b + k
      BY <1>2, <1>5, <1>8, <3>1, <3>2, <3>4, <3>5
    <3>7. b = own
      BY <1>5, <1>9, <3>6
    <3> QED BY <1>4, <1>10, <3>1, <3>6, <3>7
  <2> QED BY <1>2, <2>0, <2>1, <2>2
<1> QED BY <1>9, <1>11, <1>12


(* What a comparison begins with.                                          *)
LEMMA CompareIs ==
  ASSUME TypeInv', NEW o, Compare(o), o \in Olds', new' \in DOMAIN blocks'
  PROVE  /\ older' = o /\ Old' = blocks'[o]
         /\ Old'.begin \in Int /\ New'.begin \in Int
         /\ j' = Most(Old'.begin, New'.begin)
         /\ Old'.begin <= j' /\ New'.begin <= j'
         /\ searchend' = Least(End(Old'), End(New'))
<1>1. /\ older' = o /\ j' = Most(blocks'[o].begin, blocks'[new'].begin)
      /\ searchend' = Least(End(blocks'[o]), End(blocks'[new']))
  BY DEF Compare
<1>2. Old' = blocks'[o] /\ New' = blocks'[new']
  BY <1>1 DEF Old, New
<1>3. blocks'[o] \in Block /\ blocks'[new'] \in Block
  BY DEF TypeInv, MemoryInv, Olds
<1>4. Old'.begin \in Int /\ New'.begin \in Int
  BY <1>2, <1>3 DEF Block
<1> QED BY <1>1, <1>2, <1>4 DEF Most

\* Every step keeps the verified samples within their block,
LEMMA WithinStep == TypeInv /\ TypeInv' /\ WithinInv /\ [Next]_vars => WithinInv'
<1> SUFFICES ASSUME TypeInv, TypeInv', WithinInv, [Next]_vars, pc' = "search", ~moved'
             PROVE  /\ Old'.begin <= j' /\ New'.begin <= j'
                    /\ searchend' = Least(End(Old'), End(New'))
  BY DEF WithinInv, End, Size
<1>0. older' \in Olds' /\ new' \in DOMAIN blocks'
  BY DEF TypeInv, SearchInv
<1>1. CASE \E o : Compare(o)
  <2>1. PICK o : Compare(o)
    BY <1>1
  <2>2. o \in Olds'
    BY <1>0, <2>1 DEF Compare
  <2> QED BY <1>0, <2>1, <2>2, CompareIs
<1>2. CASE PassOver \/ UNCHANGED vars
  <2>1. /\ blocks' = blocks /\ older' = older /\ count' = count /\ searchend' = searchend
        /\ pc = "search" /\ ~moved /\ (j' = j \/ j' = j + STRIDE)
    BY <1>2 DEF PassOver, vars, lists, search, history, Searching
  <2>2. Old' = Old /\ New' = New
    BY <2>1 DEF Old, New, new
  <2>3. Old.begin \in Int /\ New.begin \in Int /\ j \in Int
    BY <2>1 DEF TypeInv, SearchInv, MemoryInv, Block, Old, New, Olds
  <2> QED BY <2>1, <2>2, <2>3, Stage1Assumption DEF WithinInv
<1>3. CASE Match
  <2>1. PICK b, one, from, to, offset : MatchStep(b, one, from, to, offset)
    BY <1>3, MatchIs
  <2>2. ~moved /\ blocks' = blocks
    BY <1>3, <2>1, MatchFlags
  <2>3. pc = "search" /\ count' = count /\ older' = older /\ searchend' = searchend
    BY <1>3, MatchIs
  <2>4. Old' = Old /\ New' = New
    BY <2>2, <2>3 DEF Old, New, new
  <2>5. Old.begin \in Int /\ New.begin \in Int /\ j \in Int
    BY <2>3 DEF TypeInv, SearchInv, MemoryInv, Block, Old, New, Olds
  <2>6. j' = Most(j, to - 1) + STRIDE /\ to \in Int
    BY <2>1 DEF MatchStep, NextPost
  <2> QED BY <2>2, <2>3, <2>4, <2>5, <2>6, Stage1Assumption DEF WithinInv, Most
<1>4. ASSUME NEW b \in drive.blocks, Read(b) PROVE \E o : Compare(o)
  BY <1>4 DEF Read, CutNext
<1>5. CASE NextBlock
  <2>1. \E o : Compare(o)
    BY <1>5 DEF NextBlock, CutNext
  <2> QED BY <1>1, <2>1
<1>6. ASSUME \/ CutFragments \/ Widen
             \/ \E k \in DOMAIN frags, d \in drive.displaced : Stage2Match(k, d)
             \/ \E grows \in BOOLEAN : Stage2Merge(grows)
             \/ \E b \in DOMAIN blocks : FreeBlock(b)
      PROVE  FALSE
  <2>1. pc' \in {"idle", "merge"}
    BY <1>6 DEF CutFragments, Widen, Stage2Match, Stage2Merge, FreeBlock
  <2> QED BY <2>1
<1> QED BY <1>1, <1>2, <1>3, <1>4, <1>5, <1>6 DEF Next

\* and passes over no post around which enough samples agree.
LEMMA AheadStep ==
  TypeInv /\ TypeInv' /\ WithinInv /\ AheadInv /\ [Next]_vars => AheadInv'
<1> SUFFICES ASSUME TypeInv, TypeInv', WithinInv, AheadInv, [Next]_vars,
                    pc' \in {"search", "cut"}, drive'.verify, ~moved', Unrepeated(New)',
                    NEW o, o \in Olds', NEW from \in Nat, Agreed(blocks[o], from)'
             PROVE  Seen(from)' \/ Ahead(o, from)'
  BY DEF AheadInv
<1>0. new' \in DOMAIN blocks' /\ STRIDE \in Nat \ {0} /\ MIN_WORDS_SEARCH \in Nat
      /\ STRIDE <= MIN_WORDS_SEARCH + 1
  BY Stage1Assumption, SearchAssumption DEF TypeInv, SearchInv
(* A comparison begins before any span that both blocks have.              *)
<1>1. ASSUME Compare(o), pc' = "search" PROVE Ahead(o, from)'
  <2>1. /\ older' = o /\ Old' = blocks'[o]
        /\ Old'.begin \in Int /\ New'.begin \in Int
        /\ j' = Most(Old'.begin, New'.begin)
    BY <1>0, <1>1, CompareIs
  <2>2. Agreeing(blocks[o], from)'
    <3>1. from \in Span(from)
      BY <1>0 DEF Span
    <3> QED BY <3>1 DEF Agreed
  <2>3. New'.begin + from - blocks'[o].begin >= 0
    <3>1. New'.begin + from - blocks'[o].begin \in 0..(Size(blocks'[o]) - 1)
      BY <2>2 DEF Agreeing, Size
    <3> QED BY <2>1, <3>1
  <2>4. j' < New'.begin + from + STRIDE
    BY <1>0, <2>1, <2>3 DEF Most
  <2> QED BY <1>1, <2>1, <2>4 DEF Ahead
<1>2. ASSUME NEW b \in drive.blocks, Read(b) PROVE Seen(from)' \/ Ahead(o, from)'
  <2> DEFINE first == Min(DOMAIN blocks)
  <2>1. blocks' = With(blocks, count', [b EXCEPT !.begin = @ - dyndrift])
        /\ count' = count + 1 /\ drive' = drive
    BY <1>2 DEF Read
  <2>2. o \in DOMAIN blocks
    BY <2>1 DEF With, Olds, new
  <2>3. pc' = "search" /\ Compare(first)
    BY <1>2, <2>1, <2>2 DEF Read
  <2>4. first \in DOMAIN blocks /\ \A x \in DOMAIN blocks : first <= x
    BY <2>2, MinIs DEF TypeInv, MemoryInv
  <2> HIDE DEF first
  <2>5. o \in Nat /\ first \in Nat
    BY <2>2, <2>4 DEF TypeInv, MemoryInv
  <2>6. older' = first
    BY <2>3 DEF Compare
  <2> QED BY <1>1, <2>2, <2>3, <2>4, <2>5, <2>6 DEF Ahead
<1>3. ASSUME blocks' = blocks, count' = count, moved' = moved, pc \in {"search", "cut"},
             drive' = drive
      PROVE  /\ Olds' = Olds /\ New' = New /\ Agreed(blocks[o], from) /\ new' = new
             /\ Unrepeated(New) /\ (Seen(from) \/ Ahead(o, from))
  <2>1. Olds' = Olds /\ New' = New /\ new' = new
    BY <1>3 DEF Olds, New, new
  <2>2. Agreed(blocks[o], from) /\ Unrepeated(New)
    BY <1>3, <2>1 DEF Agreed, Agreeing, Same, Sample, BothRead, BothEdge, Unrepeated, Size
  <2> QED BY <1>3, <2>1, <2>2 DEF AheadInv
<1>4. CASE UNCHANGED vars
  <2>1. UNCHANGED <<blocks, count, moved, pc, drive, verified, older, j>>
    BY <1>4 DEF vars, lists, history, search
  <2>2. Seen(from) \/ Ahead(o, from)
    BY <1>3, <2>1
  <2>3. New' = New /\ new' = new
    BY <1>3, <2>1
  <2> QED BY <2>1, <2>2, <2>3 DEF Seen, Ahead
<1>5. CASE PassOver
  <2>1. /\ UNCHANGED <<blocks, count, moved, pc, drive, verified, older>>
        /\ pc = "search" /\ j' = j + STRIDE /\ PlacesFound = {}
    BY <1>5 DEF PassOver, lists, history, Searching
  <2>2. /\ Agreed(blocks[o], from) /\ New' = New /\ new' = new
        /\ Seen(from) \/ Ahead(o, from)
    BY <1>3, <2>1
  <2>3. CASE Seen(from) \/ o > older
    BY <2>1, <2>2, <2>3 DEF Seen, Ahead
  <2>4. CASE ~Seen(from) /\ o = older /\ j < New.begin + from + STRIDE
    <3>1. Old = blocks[o] /\ ~moved
      BY <2>1, <2>4 DEF Old
    <3>2. New.begin \in Int /\ j \in Int
      BY <2>1, <2>2, <3>1, SpanIs
    <3>3. j < New.begin + from
      BY <2>1, <2>2, <2>4, <3>1, <3>2, PostFound
    <3>4. j' < New.begin + from + STRIDE
      BY <1>0, <2>1, <3>2, <3>3
    <3> QED BY <2>1, <2>2, <2>4, <3>4 DEF Ahead
  <2> QED BY <2>2, <2>3, <2>4 DEF Ahead
<1>6. CASE Match
  <2>1. PICK b, one, f, t, offset : MatchStep(b, one, f, t, offset)
    BY <1>6, MatchIs
  <2>2. ~moved /\ moved' = moved /\ blocks' = blocks
    BY <1>6, <2>1, MatchFlags
  <2>3. pc = "search" /\ pc' = pc /\ count' = count /\ older' = older /\ drive' = drive
    BY <1>6, MatchIs
  <2>4. /\ Agreed(blocks[o], from) /\ New' = New /\ new' = new
        /\ Unrepeated(New) /\ (Seen(from) \/ Ahead(o, from))
    BY <1>3, <2>2, <2>3
  <2>5. CASE Seen(from)
    <3>1. verified[new] \subseteq verified'[new]
      BY <1>6, <2>1, MatchFlags DEF Marked
    <3> QED BY <2>4, <2>5, <3>1 DEF Seen
  <2>6. CASE o > older
    BY <2>3, <2>6 DEF Ahead
  <2>7. CASE o = older /\ j < New.begin + from + STRIDE
    <3>1. Old = blocks[o]
      BY <2>7 DEF Old
    <3>2. verified'[new] \cap Span(from) # {} \/ j' < New.begin + from + STRIDE
      BY <1>6, <2>4, <2>7, <3>1, MatchSees
    <3> QED BY <2>3, <2>4, <2>7, <3>2 DEF Seen, Ahead
  <2> QED BY <2>4, <2>5, <2>6, <2>7 DEF Ahead
<1>7. CASE NextBlock
  <2> DEFINE Newer == {x \in Olds : x > older}
  <2>1. /\ UNCHANGED <<blocks, count, moved, drive, verified>>
        /\ pc = "search" /\ j >= searchend /\ ~moved
    BY <1>7 DEF NextBlock, lists, history
  <2>2. /\ Agreed(blocks[o], from) /\ New' = New /\ new' = new /\ Olds' = Olds
        /\ Seen(from) \/ Ahead(o, from)
    BY <1>3, <2>1
  <2>3. Newer \in SUBSET Nat /\ older \in Nat
    BY <2>1 DEF TypeInv, MemoryInv, SearchInv, Olds
  <2>4. CASE Seen(from)
    BY <2>1, <2>2, <2>4 DEF Seen
  <2>5. CASE o = older /\ j < New.begin + from + STRIDE
    <3>1. Old = blocks[o]
      BY <2>5 DEF Old
    <3>2. /\ Old.begin \in Int /\ New.begin \in Int /\ j \in Int
          /\ Size(Old) \in Nat /\ Size(New) \in Nat
          /\ from + MIN_WORDS_SEARCH < Size(New)
      BY <2>1, <2>2, <3>1, SpanIs
    <3>3. (from + MIN_WORDS_SEARCH) + (New.begin - Old.begin) < Size(Old)
      <4>1. from + MIN_WORDS_SEARCH \in Span(from)
        BY <1>0 DEF Span
      <4> QED BY <2>1, <2>2, <3>1, <4>1, SpanIs
    <3>4. searchend = Least(End(Old), End(New))
      BY <2>1 DEF WithinInv
    <3>5. New.begin + from + MIN_WORDS_SEARCH < searchend
      BY <1>0, <3>2, <3>3, <3>4 DEF Least, End
    <3>6. searchend \in Int
      BY DEF TypeInv, SearchInv
    <3> QED BY <1>0, <2>1, <2>5, <3>2, <3>5, <3>6
  <2>6. CASE o > older
    <3>1. o \in Newer
      BY <2>2, <2>6
    <3>2. pc' = "search" /\ Compare(Min(Newer))
      BY <1>7, <3>1 DEF NextBlock
    <3>3. Min(Newer) \in Newer /\ Min(Newer) <= o
      <4> HIDE DEF Newer
      <4> QED BY <2>3, <3>1, MinIs
    <3>4. o \in Nat /\ Min(Newer) \in Nat
      BY <2>3, <3>1, <3>3
    <3> HIDE DEF Newer
    <3>5. older' = Min(Newer)
      BY <3>2 DEF Compare
    <3> QED BY <1>1, <3>2, <3>3, <3>4, <3>5 DEF Ahead
  <2> QED BY <2>2, <2>4, <2>5, <2>6 DEF Ahead
<1>8. ASSUME \/ CutFragments \/ Widen
             \/ \E k \in DOMAIN frags, d \in drive.displaced : Stage2Match(k, d)
             \/ \E grows \in BOOLEAN : Stage2Merge(grows)
             \/ \E b \in DOMAIN blocks : FreeBlock(b)
      PROVE  FALSE
  <2>1. pc' \in {"idle", "merge"}
    BY <1>8 DEF CutFragments, Widen, Stage2Match, Stage2Merge, FreeBlock
  <2> QED BY <2>1
<1> QED BY <1>2, <1>4, <1>5, <1>6, <1>7, <1>8 DEF Next

(* Where a new block without repetition agrees with an older one, at the   *)
(* same position and for longer than a coincidence, something of it is     *)
(* verified: no agreement falls between two posts, is passed over with a   *)
(* run that ends inside of it, or is trimmed away (paranoia.c:566-652).    *)
THEOREM NothingPassedOver == Spec => []AgreementFound
<1>1. Init => WithinInv /\ AheadInv
  BY DEF Init, WithinInv, AheadInv
<1>2. Spec => [](TypeInv /\ WithinInv)
  BY <1>1, WithinStep, TypesHold, PTL DEF Spec
<1>3. Spec => []AheadInv
  BY <1>1, <1>2, AheadStep, TypesHold, PTL DEF Spec
<1>4. TypeInv /\ AheadInv => AgreementFound
  <2> SUFFICES ASSUME TypeInv, AheadInv, pc = "cut", drive.verify, ~moved, Unrepeated(New),
                      NEW o \in Olds, NEW from \in 0..(Size(New) - 1),
                      from + MIN_WORDS_SEARCH < Size(New),
                      \A i \in from..(from + MIN_WORDS_SEARCH) : Agreeing(blocks[o], i)
               PROVE  verified[new] \cap (from..(from + MIN_WORDS_SEARCH)) # {}
    BY DEF AgreementFound
  <2>1. from \in Nat /\ Agreed(blocks[o], from)
    BY DEF Agreed, Span
  <2> QED BY <2>1 DEF AheadInv, Ahead, Seen, Span
<1> QED BY <1>3, <1>4, TypesHold, PTL

-----------------------------------------------------------------------------
(* A fragment is a piece of the audio.                                     *)

(* No two places of the audio have the same samples, but for one, that are *)
(* to tell where they are.                                                 *)
PlacesApart ==
  \A i, k \in 0..(Len(Disc) - TELLING + 1) :
    (\A h \in 1..(TELLING - 1) : Disc[i + h] = Disc[k + h]) => i = k

\* A piece of a vector, sample by sample.
LEMMA PieceIs ==
  ASSUME NEW x \in Seq(Int), NEW from \in Nat, NEW n \in Nat, from + n <= Len(x)
  PROVE  /\ Piece(x, from, from + n) \in Seq(Int) /\ Len(Piece(x, from, from + n)) = n
         /\ \A k \in 1..n : Piece(x, from, from + n)[k] = x[from + k]
<1> DEFINE a == from + 1
           b == from + n
<1>1. /\ a \in Nat /\ b \in Nat /\ a >= 1 /\ a <= b + 1 /\ b <= Len(x)
      /\ (b - a) + 1 = n /\ \A k \in 1..n : (k + a) - 1 = from + k /\ from + k \in 1..Len(x)
  OBVIOUS
<1> HIDE DEF a, b
<1>2. SubSeq(x, a, b) \in Seq(Int)
  BY <1>1
<1>3. Len(SubSeq(x, a, b)) = n
  <2>1. Len(SubSeq(x, a, b)) = IF a <= b THEN (b - a) + 1 ELSE 0
    BY <1>1
  <2> QED BY <1>1, <2>1
<1>4. \A k \in 1..n : SubSeq(x, a, b)[k] = x[from + k]
  <2>1. \A k \in 1..((b - a) + 1) : SubSeq(x, a, b)[k] = x[(k + a) - 1]
    BY <1>1
  <2> QED BY <1>1, <2>1
<1> QED BY <1>2, <1>3, <1>4 DEF Piece, a, b

(* The few samples of x from i on are the audio's from d on.               *)
Lies(x, d, i) ==
  d \in Nat /\ d + TELLING <= Len(Disc) /\ \A k \in 1..TELLING : x[i + k] = Disc[d + k]

\* A few samples that are on the disc lie somewhere on it.
LEMMA FewLie ==
  ASSUME Disc \in Seq(Int), NEW x \in Seq(Int), NEW i \in Nat, i + TELLING <= Len(x),
         OnDisc(Piece(x, i, i + TELLING))
  PROVE  \E d \in Nat : Lies(x, d, i)
<1> DEFINE y == Piece(x, i, i + TELLING)
<1>0. TELLING \in Nat
  BY TellingAssumption
<1>1. Len(y) = TELLING /\ \A k \in 1..TELLING : y[k] = x[i + k]
  BY <1>0, PieceIs
<1> HIDE DEF y
<1>2. PICK d \in 0..(Len(Disc) - Len(y)) : y = Piece(Disc, d, d + Len(y))
  BY DEF OnDisc, y
<1>3. d \in Nat /\ d + TELLING <= Len(Disc)
  BY <1>0, <1>1, <1>2
<1>4. \A k \in 1..TELLING : Piece(Disc, d, d + TELLING)[k] = Disc[d + k]
  BY <1>0, <1>3, PieceIs
<1>5. y = Piece(Disc, d, d + TELLING)
  BY <1>1, <1>2
<1>6. \A k \in 1..TELLING : x[i + k] = Disc[d + k]
  BY <1>1, <1>4, <1>5
<1> QED BY <1>3, <1>6 DEF Lies

(* What is on the disc a few samples at a time is on it as a whole.        *)
LEMMA ChainOnDisc ==
  ASSUME Disc \in Seq(Int), PlacesApart, NEW x \in Seq(Int), Len(x) >= TELLING,
         \A i \in 0..(Len(x) - TELLING) : OnDisc(Piece(x, i, i + TELLING))
  PROVE  OnDisc(x)
<1> DEFINE n == Len(x)
           w == TELLING
<1>0. n \in Nat /\ w \in Nat /\ w >= 2 /\ n >= w /\ Len(Disc) \in Nat
  BY TellingAssumption
<1>1. \A i \in 0..(n - w) : i \in Nat /\ \E d \in Nat : Lies(x, d, i)
  <2> TAKE i \in 0..(n - w)
  <2>1. i \in Nat /\ i + TELLING <= Len(x)
    BY <1>0
  <2>2. OnDisc(Piece(x, i, i + TELLING))
    OBVIOUS
  <2> QED BY <2>1, <2>2, FewLie
<1> HIDE DEF n, w
<1>2. PICK d \in Nat : Lies(x, d, 0)
  <2>1. 0 \in 0..(n - w)
    BY <1>0
  <2> QED BY <1>1, <2>1
(* The first few that lie elsewhere would share all but one sample with    *)
(* those before them.                                                      *)
<1>3. \A i \in 0..(n - w) : Lies(x, d + i, i)
  <2> DEFINE Apart == {i \in 0..(n - w) : ~Lies(x, d + i, i)}
  <2> SUFFICES ASSUME Apart # {} PROVE FALSE
    OBVIOUS
  <2>1. Apart \in SUBSET Nat
    OBVIOUS
  <2> HIDE DEF Apart
  <2>2. PICK m \in Apart : \A y \in Apart : m <= y
    BY <2>1, LeastNat
  <2>3. m \in 0..(n - w) /\ ~Lies(x, d + m, m) /\ m # 0
    <3>1. m \in 0..(n - w) /\ ~Lies(x, d + m, m)
      BY <2>2 DEF Apart
    <3>2. d + 0 = d
      OBVIOUS
    <3> QED BY <1>2, <3>1, <3>2
  <2>4. m - 1 \in 0..(n - w) /\ m - 1 \notin Apart
    BY <1>0, <2>1, <2>2, <2>3
  <2> DEFINE b == d + (m - 1)
  <2>5. Lies(x, b, m - 1)
    BY <2>4 DEF Apart
  <2>6. PICK c \in Nat : Lies(x, c, m)
    BY <1>1, <2>3
  <2>7. b \in Nat /\ b + 1 = d + m /\ b + w <= Len(Disc) /\ c + w <= Len(Disc)
    BY <2>3, <2>5, <2>6 DEF Lies, w
  <2>8. \A h \in 1..(w - 1) : Disc[b + 1 + h] = Disc[c + h]
    <3> TAKE h \in 1..(w - 1)
    <3>1. /\ h + 1 \in 1..w /\ h \in 1..w /\ m - 1 + (h + 1) = m + h
          /\ b + (h + 1) = b + 1 + h
      BY <1>0, <2>3, <2>7
    <3> HIDE DEF b
    <3>2. x[m - 1 + (h + 1)] = Disc[b + (h + 1)]
      BY <2>5, <3>1 DEF Lies, w
    <3>3. x[m + h] = Disc[c + h]
      BY <2>6, <3>1 DEF Lies, w
    <3> QED BY <3>1, <3>2, <3>3
  <2>9. b + 1 = c
    <3>1. b + 1 \in 0..(Len(Disc) - w + 1) /\ c \in 0..(Len(Disc) - w + 1)
      BY <1>0, <2>7
    <3> HIDE DEF b
    <3> QED BY <2>8, <3>1 DEF PlacesApart, w
  <2> QED BY <2>3, <2>6, <2>7, <2>9
<1>4. d + n <= Len(Disc)
  <2>1. n - w \in 0..(n - w) /\ d + (n - w) + w = d + n
    BY <1>0
  <2> QED BY <1>3, <2>1 DEF Lies, w
<1>5. \A k \in 1..n : x[k] = Disc[d + k]
  <2> TAKE k \in 1..n
  <2>1. CASE k <= n - w
    <3>1. k - 1 \in 0..(n - w) /\ 1 \in 1..w /\ k - 1 + 1 = k /\ d + (k - 1) + 1 = d + k
      BY <1>0, <2>1
    <3>2. Lies(x, d + (k - 1), k - 1)
      BY <1>3, <3>1
    <3> QED BY <3>1, <3>2 DEF Lies, w
  <2>2. CASE k > n - w
    <3> DEFINE h == k - (n - w)
    <3>1. n - w \in 0..(n - w) /\ h \in 1..w /\ n - w + h = k /\ d + (n - w) + h = d + k
      BY <1>0, <2>2
    <3> HIDE DEF h
    <3>2. Lies(x, d + (n - w), n - w)
      BY <1>3, <3>1
    <3> QED BY <3>1, <3>2 DEF Lies, w
  <2> QED BY <1>0, <2>1, <2>2
<1>6. x = Piece(Disc, d, d + n)
  <2> DEFINE y == Piece(Disc, d, d + n)
  <2>1. y \in Seq(Int) /\ Len(y) = n /\ \A k \in 1..n : y[k] = Disc[d + k]
    BY <1>0, <1>4, PieceIs
  <2> HIDE DEF y
  <2>2. Len(y) = Len(x) /\ \A k \in 1..Len(x) : y[k] = x[k]
    BY <1>5, <2>1 DEF n
  <2>3. x = [k \in 1..Len(x) |-> x[k]] /\ y = [k \in 1..Len(y) |-> y[k]]
    BY <2>1
  <2>4. x = y
    BY <2>2, <2>3
  <2> QED BY <2>4 DEF y
<1>7. d \in 0..(Len(Disc) - n)
  BY <1>0, <1>4
<1> QED BY <1>6, <1>7 DEF OnDisc, n

(* n samples of two vectors.                                               *)
Part(x, a, n) == x \in Seq(Int) /\ a \in Nat /\ n \in Nat /\ a + n <= Len(x)
SameParts(x, y, a, b, n) ==
  Part(x, a, n) /\ Part(y, b, n) /\ \A k \in 1..n : x[a + k] = y[b + k]

\* Two pieces are the same if their samples are.
LEMMA SamePieces ==
  ASSUME NEW x, NEW y, NEW a, NEW b, NEW n, SameParts(x, y, a, b, n)
  PROVE  Piece(x, a, a + n) = Piece(y, b, b + n)
<1> DEFINE p == Piece(x, a, a + n)
           q == Piece(y, b, b + n)
<1>0. Part(x, a, n) /\ Part(y, b, n) /\ \A k \in 1..n : x[a + k] = y[b + k]
  BY DEF SameParts
<1>1. p \in Seq(Int) /\ Len(p) = n /\ \A k \in 1..n : p[k] = x[a + k]
  BY <1>0, PieceIs DEF Part
<1>2. q \in Seq(Int) /\ Len(q) = n /\ \A k \in 1..n : q[k] = y[b + k]
  BY <1>0, PieceIs DEF Part
<1> HIDE DEF p, q
<1>3. p = [k \in 1..n |-> p[k]] /\ q = [k \in 1..n |-> q[k]]
  BY <1>1, <1>2
<1>4. \A k \in 1..n : p[k] = q[k]
  BY <1>0, <1>1, <1>2
<1>5. p = q
  BY <1>3, <1>4
<1> QED BY <1>5 DEF p, q

PartOfPart(x, a, n, i, m) == Part(x, a, n) /\ i \in Nat /\ m \in Nat /\ i + m <= n

\* A piece of a piece is a piece.
LEMMA PieceOfPiece ==
  ASSUME NEW x, NEW a, NEW n, NEW i, NEW m, PartOfPart(x, a, n, i, m)
  PROVE  Piece(Piece(x, a, a + n), i, i + m) = Piece(x, a + i, a + i + m)
<1> DEFINE p == Piece(x, a, a + n)
           c == a + i
<1>0. Part(x, a, n) /\ i \in Nat /\ m \in Nat /\ i + m <= n
  BY DEF PartOfPart
<1>1. p \in Seq(Int) /\ Len(p) = n /\ \A k \in 1..n : p[k] = x[a + k]
  BY <1>0, PieceIs DEF Part
<1>2. Part(x, c, m) /\ Part(p, i, m)
  <2>1. c \in Nat /\ c + m <= Len(x) /\ i + m <= Len(p)
    BY <1>0, <1>1 DEF Part
  <2> QED BY <1>0, <1>1, <2>1 DEF Part
<1>3. \A k \in 1..m : p[i + k] = x[c + k]
  <2> TAKE k \in 1..m
  <2>1. i + k \in 1..n /\ a + (i + k) = c + k
    BY <1>0 DEF Part
  <2> HIDE DEF p, c
  <2> QED BY <1>1, <2>1
<1>4. SameParts(p, x, i, c, m)
  BY <1>2, <1>3 DEF SameParts
<1> HIDE DEF p
<1>5. Piece(p, i, i + m) = Piece(x, c, c + m)
  <2> HIDE DEF c
  <2> QED BY <1>4, SamePieces
<1> QED BY <1>5 DEF p

\* A stretch is on the disc if every few samples in a row of it are.
LEMMA StretchOnDisc ==
  ASSUME Disc \in Seq(Int), PlacesApart, NEW x \in Seq(Int), NEW a \in Nat, NEW n \in Nat,
         n >= TELLING, a + n <= Len(x),
         \A i \in Nat : a <= i /\ i + TELLING <= a + n => OnDisc(Piece(x, i, i + TELLING))
  PROVE  OnDisc(Piece(x, a, a + n))
<1> DEFINE y == Piece(x, a, a + n)
<1>0. TELLING \in Nat
  BY TellingAssumption
<1>1. y \in Seq(Int) /\ Len(y) = n
  BY PieceIs
<1>2. \A i \in 0..(n - TELLING) : OnDisc(Piece(y, i, i + TELLING))
  <2> TAKE i \in 0..(n - TELLING)
  <2> DEFINE h == a + i
  <2>1. i \in Nat /\ i + TELLING <= n /\ h \in Nat /\ a <= h /\ h + TELLING <= a + n
    BY <1>0
  <2>2. Piece(y, i, i + TELLING) = Piece(x, h, h + TELLING)
    <3>1. PartOfPart(x, a, n, i, TELLING)
      BY <1>0, <2>1 DEF Part, PartOfPart
    <3> QED BY <3>1, PieceOfPiece
  <2>3. OnDisc(Piece(x, h, h + TELLING))
    <3> HIDE DEF h
    <3> QED BY <2>1
  <2> HIDE DEF y, h
  <2> QED BY <2>2, <2>3
<1> HIDE DEF y
<1>3. OnDisc(y)
  BY <1>1, <1>2, ChainOnDisc
<1> QED BY <1>3 DEF y

\* A few samples of a run are the older block's, and behind the first of
\* them the requests of the two do not meet.
LEMMA RunIsDisc ==
  ASSUME TypeInv, Independent, pc = "cut", NEW o \in Olds, NEW from \in Nat, NEW to \in Nat,
         MatchedRun(blocks[o], New, from, to),
         NEW i \in Nat, from <= i, i + TELLING <= to + 1
  PROVE  OnDisc(Few(New, i))
<1> DEFINE A == blocks[o]
           n == to - from
           w == TELLING
<1>0. /\ o \in DOMAIN blocks /\ new \in DOMAIN blocks /\ o # new /\ New = blocks[new]
      /\ A \in Block /\ New \in Block /\ w \in Nat /\ w >= 2
  BY TellingAssumption DEF TypeInv, MemoryInv, SearchInv, Olds, New
<1>1. PICK a \in Nat : a + n < Size(A) /\ Together(A, New, a, from, n)
  BY DEF MatchedRun
<1>2. /\ n \in Nat /\ to < Size(New)
      /\ A.vec \in Seq(Int) /\ New.vec \in Seq(Int)
      /\ Size(A) = Len(A.vec) /\ Size(New) = Len(New.vec) /\ Size(A) \in Nat /\ Size(New) \in Nat
  BY <1>0 DEF MatchedRun, Block, Size
<1> DEFINE c == a + (i - from)
<1>3. c \in Nat /\ c + w <= Size(A) /\ i + w <= Size(New)
  BY <1>0, <1>1, <1>2
<1>4. \A k \in 0..(w - 1) : /\ A.vec[c + k + 1] = New.vec[i + k + 1]
                            /\ k # 0 => ~BothEdge(A, New, c + k, i + k)
  <2> TAKE k \in 0..(w - 1)
  <2> DEFINE h == i - from + k
  <2>1. h \in 0..n /\ a + h = c + k /\ from + h = i + k /\ (k # 0 => h # 0)
    BY <1>0, <1>2, <1>3
  <2> HIDE DEF h, c, A, n
  <2>2. Same(A, New, a + h, from + h) /\ (h # 0 => ~BothEdge(A, New, a + h, from + h))
    BY <1>1, <2>1 DEF Together
  <2> QED BY <2>1, <2>2 DEF Same, Sample
<1> HIDE DEF c, A, n
<1>5. Few(A, c) = Few(New, i)
  <2>1. \A k \in 1..w : A.vec[c + k] = New.vec[i + k]
    <3> TAKE k \in 1..w
    <3>1. k - 1 \in 0..(w - 1) /\ c + (k - 1) + 1 = c + k /\ i + (k - 1) + 1 = i + k
      BY <1>0, <1>3
    <3> QED BY <1>4, <3>1
  <2>2. SameParts(A.vec, New.vec, c, i, w)
    BY <1>0, <1>2, <1>3, <2>1 DEF SameParts, Part
  <2> QED BY <2>2, SamePieces DEF Few
<1>6. SUFFICES ASSUME ~OnDisc(Few(New, i)) PROVE FALSE
  OBVIOUS
<1>7. i \in Breaks(New) /\ c \in Breaks(A)
  BY <1>0, <1>2, <1>3, <1>5, <1>6 DEF Breaks
<1>8. PICK h \in 1..(w - 1) : BothEdge(A, New, c + h, i + h)
  BY <1>0, <1>5, <1>7 DEF Independent, A
<1>9. h \in 0..(w - 1) /\ h # 0
  BY <1>0
<1> QED BY <1>4, <1>8, <1>9

\* A verified fragment is long enough to tell, is all of the block, and
\* every few samples in a row lie in a run.
LEMMA FragmentRuns ==
  ASSUME TypeInv, TwiceInv, pc = "cut", drive.verify, ~moved,
         NEW s \in Starts(Flagged), NEW f, f = NewFragment(s)
  PROVE  /\ f.at \in Nat /\ f.size \in Nat /\ f.size >= TELLING /\ f.at + f.size <= Size(New)
         /\ \A i \in Nat : f.at <= i /\ i + TELLING <= f.at + f.size =>
              \E o \in Olds, from \in Nat, to \in Nat :
                MatchedRun(blocks[o], New, from, to) /\ from <= i /\ i + TELLING <= to + 1
<1> DEFINE S == verified[new]
           n == Size(New)
           e == StretchEnd(S, s)
           adj == OVERLAP_ADJ
           w == TELLING
<1>1. /\ New \in Block /\ n \in Nat /\ S \subseteq 0..(n - 1)
      /\ adj \in Nat /\ adj >= 1 /\ w \in Nat /\ w >= 2 /\ w <= 2 * adj + 1
  BY AdjIs, TellingAssumption DEF TypeInv, MemoryInv, SearchInv, New, new, Block, Size
<1>2. Flagged = S /\ s \in S /\ s \in 0..(n - 1)
  BY <1>1 DEF Flagged, Starts
<1>3. e \in (s + 1)..n /\ \A x \in s..(e - 1) : x \in S
  <2>1. n \in Nat /\ n = Size(New) /\ S \subseteq 0..(n - 1) /\ s \in S
    BY <1>1, <1>2
  <2> HIDE DEF S, n
  <2> QED BY <2>1, StretchIs
<1>4. f.at = Most(0, s - adj) /\ f.size = Least(n, e + adj) - f.at
  BY <1>2 DEF NewFragment, VerifiedFragment, FragmentOf
<1>5. \A v \in S :
        \E o \in Olds, from \in Nat, to \in Nat :
          MatchedRun(blocks[o], New, from, to) /\ from + adj <= v /\ v + adj <= to
  BY DEF TwiceInv, S
<1>6. \A o \in Olds, from \in Nat, to \in Nat : MatchedRun(blocks[o], New, from, to) => to < n
  BY DEF MatchedRun
<1> HIDE DEF S, n, e, adj, w
<1>7. e \in Int /\ s \in Int /\ 0 <= s - adj /\ s + adj < n
  <2>1. PICK o \in Olds, from \in Nat, to \in Nat :
          MatchedRun(blocks[o], New, from, to) /\ from + adj <= s /\ s + adj <= to
    BY <1>2, <1>5
  <2>2. to < n
    BY <1>6, <2>1
  <2> QED BY <1>1, <1>2, <1>3, <2>1, <2>2
<1>8. /\ f.at = s - adj /\ f.at \in Nat /\ f.size \in Nat /\ f.size >= w
      /\ f.at + f.size <= n /\ f.at + f.size <= e + adj
  <2>1. f.at = s - adj
    BY <1>1, <1>4, <1>7 DEF Most
  <2>2. /\ Least(n, e + adj) \in Int /\ Least(n, e + adj) <= n /\ Least(n, e + adj) <= e + adj
        /\ Least(n, e + adj) >= s + adj + 1
    BY <1>1, <1>3, <1>7 DEF Least
  <2> QED BY <1>1, <1>4, <1>7, <2>1, <2>2
<1>9. ASSUME NEW i \in Nat, f.at <= i, i + w <= f.at + f.size
      PROVE  \E o \in Olds, from \in Nat, to \in Nat :
               MatchedRun(blocks[o], New, from, to) /\ from <= i /\ i + w <= to + 1
  <2>1. s - adj <= i /\ i + w <= e + adj /\ i + w <= n
    BY <1>1, <1>7, <1>8, <1>9
  (* The flagged offset nearest to the middle of the few.                  *)
  <2> DEFINE mid == Least(i + adj, e - 1)
             v == Most(mid, s)
  <2>2. v \in s..(e - 1) /\ v <= i + adj /\ (i + adj < v => v = s) /\ i + w <= v + adj + 1
    BY <1>1, <1>3, <1>7, <2>1 DEF Most, Least
  <2> HIDE DEF mid, v
  <2>3. v \in S /\ v \in Int
    BY <1>3, <1>7, <2>2
  <2>4. PICK o \in Olds, from \in Nat, to \in Nat :
          MatchedRun(blocks[o], New, from, to) /\ from + adj <= v /\ v + adj <= to
    BY <1>5, <2>3
  <2>5. from <= i /\ i + w <= to + 1
    BY <1>1, <2>2, <2>3, <2>4
  <2> QED BY <2>4, <2>5
<1> QED BY <1>8, <1>9 DEF n, w

\* With -Y a stretch between edges is on the disc, if only edges are not.
LEMMA StretchIsDisc ==
  ASSUME TypeInv, PlacesApart, OnlyBetweenRequests, pc = "cut", ~drive.verify,
         NEW s \in Starts(Flagged), NEW f, f = NewFragment(s), f.size >= TELLING
  PROVE  OnDisc(Piece(New.vec, f.at, f.at + f.size))
<1> DEFINE S == Flagged
           n == Size(New)
           e == StretchEnd(S, s)
           x == New.vec
           w == TELLING
<1>1. /\ x \in Seq(Int) /\ n = Len(x) /\ n \in Nat /\ Disc \in Seq(Int)
      /\ S = (0..(n - 1)) \ New.edge
      /\ w \in Nat /\ w >= 2
  <2>1. New \in Block
    BY DEF TypeInv, MemoryInv, SearchInv, New
  <2>2. drive \in Drive
    BY DEF TypeInv, MemoryInv
  <2> QED BY <2>1, <2>2, TellingAssumption DEF Block, Drive, Size, Flagged, Disc
<1>2. s \in S /\ s \in 0..(n - 1)
  BY <1>1 DEF Starts
<1>3. e \in (s + 1)..n /\ \A y \in s..(e - 1) : y \in S
  <2>1. n \in Nat /\ n = Size(New) /\ S \subseteq 0..(n - 1) /\ s \in S
    BY <1>1, <1>2
  <2> HIDE DEF S, n
  <2> QED BY <2>1, StretchIs
<1>4. f.at = s /\ f.size = e - s
  BY DEF NewFragment, OverlapFragment, FragmentOf
<1> HIDE DEF S, n, e
<1>5. s \in Nat /\ e \in Nat /\ s < e /\ e <= n
  BY <1>1, <1>2, <1>3
<1>6. f.size \in Nat /\ s + f.size = e
  BY <1>4, <1>5
<1>7. ASSUME NEW i \in Nat, s <= i, i + w <= e
      PROVE  OnDisc(Piece(x, i, i + w))
  <2>1. \A y \in i..(i + w - 1) : y \in S
    <3> TAKE y \in i..(i + w - 1)
    <3>1. y \in s..(e - 1)
      <4> HIDE DEF w
      <4> QED BY <1>1, <1>5, <1>7
    <3> QED BY <1>3, <3>1
  <2>2. (i..(i + w - 1)) \cap New.edge = {}
    BY <1>1, <2>1
  <2>3. i \notin Breaks(New)
    BY <2>2 DEF OnlyBetweenRequests
  <2>4. i \in 0..(n - w)
    BY <1>1, <1>5, <1>7
  <2> QED BY <2>3, <2>4 DEF Breaks, Few, n
<1> HIDE DEF x, w
<1>8. OnDisc(Piece(x, s, s + f.size))
  <2>1. s + f.size <= Len(x)
    BY <1>1, <1>5, <1>6
  <2>2. \A i \in Nat : s <= i /\ i + TELLING <= s + f.size => OnDisc(Piece(x, i, i + TELLING))
    BY <1>6, <1>7 DEF w
  <2> QED BY <1>1, <1>5, <1>6, <2>1, <2>2, StretchOnDisc
<1> QED BY <1>4, <1>8 DEF x

(* Where reads go wrong alike only between their requests, a verified      *)
(* fragment is a piece of the audio without a gap or a repetition: it may  *)
(* be cut of runs that many different reads confirmed, but those that join *)
(* share as many samples as tell where on the disc they are.  With -Y what *)
(* lies between the edges is, if only edges are wrong                      *)
(* (paranoia.c:684-749, 2662-2666).                                        *)
THEOREM FragmentsAreDisc == Spec => [](PlacesApart => FragmentIsDisc)
<1>1. Init => TwiceInv
  BY DEF Init, TwiceInv
<1>2. Spec => []TwiceInv
  BY <1>1, TwiceStep, TypesHold, PTL DEF Spec
<1>3. TypeInv /\ TwiceInv => (PlacesApart => FragmentIsDisc)
  <2> SUFFICES ASSUME TypeInv, TwiceInv, PlacesApart, pc = "cut",
                      IF drive.verify THEN Independent /\ ~moved ELSE OnlyBetweenRequests,
                      NEW s \in Starts(Flagged), NEW f, f = NewFragment(s),
                      drive.verify \/ f.size >= TELLING
               PROVE  OnDisc(Piece(New.vec, f.at, f.at + f.size))
    BY DEF FragmentIsDisc, NewFragments
  <2>1. CASE ~drive.verify
    BY <2>1, StretchIsDisc
  <2>2. CASE drive.verify
    <3>1. /\ f.at \in Nat /\ f.size \in Nat /\ f.size >= TELLING /\ f.at + f.size <= Size(New)
          /\ \A i \in Nat : f.at <= i /\ i + TELLING <= f.at + f.size =>
               \E o \in Olds, from \in Nat, to \in Nat :
                 MatchedRun(blocks[o], New, from, to) /\ from <= i /\ i + TELLING <= to + 1
      BY <2>2, FragmentRuns
    <3>2. \A i \in Nat : f.at <= i /\ i + TELLING <= f.at + f.size =>
            OnDisc(Piece(New.vec, i, i + TELLING))
      <4> TAKE i \in Nat
      <4> HAVE f.at <= i /\ i + TELLING <= f.at + f.size
      <4>1. PICK o \in Olds, from \in Nat, to \in Nat :
              MatchedRun(blocks[o], New, from, to) /\ from <= i /\ i + TELLING <= to + 1
        BY <3>1
      <4>2. OnDisc(Few(New, i))
        BY <2>2, <4>1, RunIsDisc
      <4> QED BY <4>2 DEF Few
    <3>3. New.vec \in Seq(Int) /\ Size(New) = Len(New.vec) /\ Disc \in Seq(Int)
      <4>1. New \in Block
        BY DEF TypeInv, MemoryInv, SearchInv, New
      <4>2. drive \in Drive
        BY DEF TypeInv, MemoryInv
      <4> QED BY <4>1, <4>2 DEF Block, Drive, Size, Disc
    <3> QED BY <3>1, <3>2, <3>3, StretchOnDisc
  <2> QED BY <2>1, <2>2
<1> QED BY <1>2, <1>3, TypesHold, PTL

====
