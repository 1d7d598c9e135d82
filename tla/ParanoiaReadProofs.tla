------------------------- MODULE ParanoiaReadProofs -------------------------
(***************************************************************************)
(* Proofs about paranoia_read_limited for every value of the constants:    *)
(* type correctness and the bound of the block cache, then the invariant   *)
(* that keeps the verified root alive between two seeks.                   *)
(***************************************************************************)
EXTENDS ParanoiaRead, FiniteSetTheorems, TLAPS

(* The constants the proofs use, in the form the provers want.             *)
LEMMA Constants ==
  /\ W \in Nat /\ W >= 1
  /\ MaxOverlap \in Nat /\ MIN_WORDS_OVERLAP \in Nat
  /\ MIN_WORDS_OVERLAP <= MaxOverlap
  /\ SessionEnd \in Nat
  /\ CACHE_LIMIT \in Nat /\ CACHE_LIMIT >= 1
<1>1. FRAMEWORDS * MAX_SECTOR_OVERLAP = MAX_SECTOR_OVERLAP * FRAMEWORDS
  BY ReadAssumption, SMT
<1>2. MAX_SECTOR_OVERLAP * FRAMEWORDS \in Nat /\ (LastSector + 1) * FRAMEWORDS \in Nat
  BY ReadAssumption, SMT
<1> QED BY <1>1, <1>2, ReadAssumption DEF W, MaxOverlap, SessionEnd

-----------------------------------------------------------------------------
(* The list of blocks.                                                     *)

AgesDistinct(S) == \A b, c \in S : b.age = c.age => b = c

CacheOK(S) ==
  /\ S \in SUBSET Block
  /\ IsFiniteSet(S)
  /\ AgesDistinct(S)
  /\ Cardinality(S) <= CACHE_LIMIT

(* A finite set stays finite, and does not grow, under a function.         *)
LEMMA ImageBound ==
  ASSUME NEW S, IsFiniteSet(S), NEW f, f = [x \in S |-> f[x]]
  PROVE  /\ IsFiniteSet({f[x] : x \in S})
         /\ Cardinality({f[x] : x \in S}) <= Cardinality(S)
<1> DEFINE T == {f[x] : x \in S}
<1>1. f \in Surjection(S, T)
  <2>1. f \in [S -> T]
    OBVIOUS
  <2>2. \A t \in T : \E s \in S : f[s] = t
    OBVIOUS
  <2> QED BY <2>1, <2>2 DEF Surjection
<1> QED BY <1>1, FS_Surjection

(* Freeing blocks keeps the cache well formed.                             *)
LEMMA CacheSubset ==
  ASSUME NEW S, CacheOK(S), NEW T \in SUBSET S
  PROVE  CacheOK(T)
<1>1. IsFiniteSet(T) /\ Cardinality(T) <= Cardinality(S)
  BY FS_Subset DEF CacheOK
<1>2. Cardinality(T) \in Nat /\ Cardinality(S) \in Nat
  BY <1>1, FS_CardinalityType DEF CacheOK
<1> QED BY <1>1, <1>2, Constants DEF CacheOK, AgesDistinct

(* So does changing anything but the ages of its blocks.                   *)
LEMMA CacheImage ==
  ASSUME NEW S, CacheOK(S), NEW f, f \in [S -> Block],
         \A b, c \in S : f[b].age = f[c].age => b.age = c.age
  PROVE  CacheOK({f[b] : b \in S})
<1> DEFINE T == {f[b] : b \in S}
<1>1. f = [x \in S |-> f[x]]
  OBVIOUS
<1>2. IsFiniteSet(T) /\ Cardinality(T) <= Cardinality(S)
  BY <1>1, ImageBound DEF CacheOK
<1>3. Cardinality(T) \in Nat /\ Cardinality(S) \in Nat
  BY <1>2, FS_CardinalityType DEF CacheOK
<1>4. AgesDistinct(T)
  BY DEF AgesDistinct, CacheOK
<1>5. T \in SUBSET Block
  OBVIOUS
<1> QED BY <1>2, <1>3, <1>4, <1>5, Constants DEF CacheOK

(* Ranks order the blocks as their ages did.                               *)
LEMMA RanksDistinct ==
  ASSUME NEW S, CacheOK(S), NEW b \in S, NEW c \in S,
         Cardinality({d \in S : d.age < b.age}) = Cardinality({d \in S : d.age < c.age})
  PROVE  b.age = c.age
<1> DEFINE Below(x) == {d \in S : d.age < x.age}
<1>1. ASSUME NEW x \in S, NEW y \in S, x.age < y.age
      PROVE  Cardinality(Below(x)) # Cardinality(Below(y))
  <2>1. Below(x) \in SUBSET Below(y)
    BY <1>1 DEF CacheOK, Block
  <2>2. x \in Below(y) /\ x \notin Below(x)
    BY <1>1 DEF CacheOK, Block
  <2>3. IsFiniteSet(Below(y))
    BY FS_Subset DEF CacheOK
  <2> QED BY <2>1, <2>2, <2>3, FS_Subset
<1>2. b.age \in Nat /\ c.age \in Nat
  BY DEF CacheOK, Block
<1>3. CASE b.age < c.age
  BY <1>1, <1>3
<1>4. CASE c.age < b.age
  BY <1>1, <1>4
<1> QED BY <1>2, <1>3, <1>4

\* Renumbering the ages of blocks keeps the list a list.
LEMMA RenumberOK ==
  ASSUME NEW S, CacheOK(S)
  PROVE  CacheOK(Renumber(S))
<1> DEFINE f == [b \in S |-> [b EXCEPT !.age = Cardinality({c \in S : c.age < b.age})]]
<1>1. \A b \in S : Cardinality({c \in S : c.age < b.age}) \in Nat
  BY FS_Subset, FS_CardinalityType DEF CacheOK
<1>2. f \in [S -> Block]
  BY <1>1 DEF CacheOK, Block
<1>3. \A b \in S : f[b].age = Cardinality({c \in S : c.age < b.age})
  BY DEF CacheOK, Block
<1>4. Renumber(S) = {f[b] : b \in S}
  BY DEF Renumber
<1> HIDE DEF f
<1>5. ASSUME NEW b \in S, NEW c \in S, f[b].age = f[c].age
      PROVE  b.age = c.age
  <2>1. Cardinality({d \in S : d.age < b.age}) = Cardinality({d \in S : d.age < c.age})
    BY <1>3, <1>5
  <2> QED BY <2>1, RanksDistinct
<1> QED BY <1>2, <1>4, <1>5, CacheImage

(* Making room leaves a place for one more block, at the head.             *)
LEMMA MakeRoomOK ==
  ASSUME NEW S, CacheOK(S)
  PROVE  /\ CacheOK(MakeRoom(S))
         /\ \A b \in MakeRoom(S) : b.age >= 1
         /\ Cardinality(MakeRoom(S)) <= CACHE_LIMIT - 1
<1> DEFINE R == {c \in S : c.age + 1 < CACHE_LIMIT}
           f == [b \in R |-> [b EXCEPT !.age = @ + 1]]
<1>1. CacheOK(R)
  BY CacheSubset
<1>2. f \in [R -> Block] /\ \A b \in R : f[b].age = b.age + 1
  BY DEF CacheOK, Block
<1>3. \A b \in R : b.age \in Nat /\ b.age + 1 < CACHE_LIMIT
  BY DEF CacheOK, Block
<1>4. MakeRoom(S) = {f[b] : b \in R}
  BY DEF MakeRoom
<1> HIDE DEF f, R
<1>5. CacheOK(MakeRoom(S))
  <2>1. \A b, c \in R : f[b].age = f[c].age => b.age = c.age
    BY <1>2, <1>3
  <2> QED BY <1>1, <1>2, <1>4, <2>1, CacheImage
<1>6. ASSUME NEW b \in MakeRoom(S)
      PROVE  b.age \in 1..(CACHE_LIMIT - 1)
  <2>1. PICK c \in R : b = f[c]
    BY <1>4
  <2> QED BY <2>1, <1>2, <1>3, Constants
<1>7. Cardinality(MakeRoom(S)) <= CACHE_LIMIT - 1
  <2> DEFINE T == MakeRoom(S)
             g == [b \in T |-> b.age]
  <2> HIDE DEF T
  <2>1. g \in Injection(T, 1..(CACHE_LIMIT - 1))
    <3>1. g \in [T -> 1..(CACHE_LIMIT - 1)]
      BY <1>6 DEF T
    <3>2. \A x, y \in T : g[x] = g[y] => x = y
      BY <1>5 DEF CacheOK, AgesDistinct, T
    <3> QED BY <3>1, <3>2 DEF Injection, IsInjective
  <2>2. IsFiniteSet(1..(CACHE_LIMIT - 1)) /\ Cardinality(1..(CACHE_LIMIT - 1)) = CACHE_LIMIT - 1
    BY FS_Interval, Constants
  <2> QED BY <2>1, <2>2, FS_Injection DEF T
<1> QED BY <1>5, <1>6, <1>7

\* Freeing a fragment keeps it as well.
LEMMA FreeFragmentOK ==
  ASSUME NEW S, CacheOK(S), NEW b \in S, NEW f
  PROVE  CacheOK(FreeFragment(S, b, f))
<1> DEFINE g == [c \in S |-> IF c = b THEN [b EXCEPT !.frags = @ \ {f}] ELSE c]
<1>1. g \in [S -> Block] /\ \A c \in S : g[c].age = c.age
  BY DEF CacheOK, Block
<1>2. FreeFragment(S, b, f) = {g[c] : c \in S}
  BY DEF FreeFragment
<1> HIDE DEF g
<1> QED BY <1>1, <1>2, CacheImage

-----------------------------------------------------------------------------
(* Type correctness.                                                       *)

TypeInv == TypeOK /\ CacheOK(blocks)

(* What a read hands over: an interval of the session cut into fragments.  *)
LEMMA BlockAtType ==
  ASSUME firstsector \in Nat, NEW s \in Int
  PROVE  /\ BlockAt(s).begin \in Nat
         /\ BlockAt(s).end \in Nat
         /\ BlockAt(s).last \in BOOLEAN
         /\ BlockAt(s).last => BlockAt(s).end = SessionEnd
<1> DEFINE lo == Larger(s, firstsector)
           hi == Smaller(lo + CdcacheSize, LastSector + 1)
<1>1. lo \in Nat
  BY DEF Larger
<1>2. hi \in Nat
  BY <1>1, ReadAssumption DEF Smaller
<1>3. lo * W \in Nat /\ hi * W \in Nat
  BY <1>1, <1>2, Constants
<1> DEFINE l == (hi = LastSector + 1)
<1>4. l \in BOOLEAN /\ BlockAt(s) = [begin |-> lo * W, end |-> hi * W, last |-> l]
  BY DEF BlockAt
<1>5. l => hi * W = SessionEnd
  BY DEF SessionEnd
<1> HIDE DEF lo, hi, l
<1> QED BY <1>3, <1>4, <1>5

(* The fragments cut from a block start at or after 0, and one that claims *)
(* to end the session ends where the session does.                         *)
LEMMA FragmentsType ==
  ASSUME firstsector \in Nat, NEW s \in Int,
         NEW frags \in Fragments(BlockAt(s), s), NEW f \in frags
  PROVE  f \in Fragment /\ f.begin >= 0 /\ (f.last => f.end = SessionEnd)
<1> DEFINE blk == BlockAt(s)
<1>1. blk.begin \in Nat /\ blk.end \in Nat /\ blk.last \in BOOLEAN
      /\ (blk.last => blk.end = SessionEnd)
  BY BlockAtType
<1> HIDE DEF blk
<1>2. ASSUME NEW x \in Nat, NEW y \in Int, f = Run(blk, x, y)
      PROVE  f \in Fragment /\ f.begin >= 0 /\ (f.last => f.end = SessionEnd)
  <2>1. f = [begin |-> x, end |-> y, last |-> (blk.last /\ y = blk.end)]
    BY <1>2 DEF Run
  <2>2. (blk.last /\ y = blk.end) \in BOOLEAN
    BY Zenon
  <2>3. f \in Fragment
    <3> DEFINE l == (blk.last /\ y = blk.end)
    <3>1. l \in BOOLEAN /\ f = [begin |-> x, end |-> y, last |-> l]
      BY <2>1, <2>2
    <3> HIDE DEF l
    <3> QED BY <3>1 DEF Fragment
  <2>4. f.begin = x /\ f.end = y
    BY <2>1
  <2>5. f.last = (blk.last /\ y = blk.end)
    BY <2>1, Zenon
  <2>6. f.last => f.end = SessionEnd
    BY <1>1, <2>4, <2>5
  <2> QED BY <2>3, <2>4, <2>6
<1>3. CASE enable = "verify"
  <2>1. PICK x \in blk.begin..(blk.end - 1), y \in (blk.begin + 1)..blk.end :
          frags = {Run(blk, x, y)}
    BY <1>3 DEF Fragments, VerifiedRuns, blk
  <2> QED BY <2>1, <1>1, <1>2
<1>4. CASE enable # "verify"
  <2> DEFINE edge == MIN_WORDS_OVERLAP \div 2
             cuts == Joins(blk, s) \cup {blk.begin, blk.end}
  <2>1. edge \in Nat
    BY Constants
  <2>2. \A c \in cuts : c \in Nat
    BY <1>1 DEF Joins
  <2>3. PICK q \in cuts \X cuts :
          f = Run(blk, IF q[1] = blk.begin THEN q[1] ELSE q[1] + edge,
                       IF q[2] = blk.end THEN q[2] ELSE q[2] - edge)
    BY <1>4 DEF Fragments, RequestRuns, blk
  <2>4. q[1] \in Nat /\ q[2] \in Nat
    BY <2>2, <2>3
  <2> HIDE DEF edge, cuts
  <2> QED BY <2>1, <2>3, <2>4, <1>1, <1>2
<1> QED BY <1>3, <1>4

\* The types hold at the start.
LEMMA TypeInit == Init => TypeInv
<1> SUFFICES ASSUME Init PROVE TypeInv
  OBVIOUS
<1>1. cursor \in Nat
  BY ReadAssumption DEF Init
<1>2. CacheOK({})
  BY FS_EmptySet, Constants DEF CacheOK, AgesDistinct
<1>3. dynoverlap \in Nat
  BY Constants, ReadAssumption DEF Init, Forced
<1>4. root \in Interval
  BY DEF Init, NoRoot, Interval
<1>5. TypeOK
  <2>1. rootlast \in BOOLEAN
    BY Zenon DEF Init
  <2>2. blocks \in SUBSET Block
    BY DEF Init
  <2> QED BY <1>1, <1>3, <1>4, <2>1, <2>2 DEF Init, TypeOK, NotDelivered
<1>6. CacheOK(blocks)
  BY <1>2 DEF Init
<1> QED BY <1>5, <1>6 DEF TypeInv

(* What a step does to the cache, whichever it is.                         *)
LEMMA UnreadOK ==
  ASSUME CacheOK(blocks)
  PROVE  CacheOK({[b EXCEPT !.age = @ - 1] : b \in MakeRoom(blocks)})
<1> DEFINE S == MakeRoom(blocks)
           f == [b \in S |-> [b EXCEPT !.age = @ - 1]]
<1>1. CacheOK(S) /\ \A b \in S : b.age >= 1
  BY MakeRoomOK
<1> HIDE DEF S
<1>2. f \in [S -> Block] /\ \A b \in S : f[b].age = b.age - 1
  BY <1>1 DEF CacheOK, Block
<1>3. \A b \in S : b.age \in Nat
  BY <1>1 DEF CacheOK, Block
<1>4. {[b EXCEPT !.age = @ - 1] : b \in S} = {f[b] : b \in S}
  OBVIOUS
<1> HIDE DEF f
<1>5. \A b, c \in S : f[b].age = f[c].age => b.age = c.age
  BY <1>2, <1>3
<1>6. CacheOK({f[b] : b \in S})
  BY <1>1, <1>2, <1>5, CacheImage
<1> QED BY <1>4, <1>6 DEF S

(* A new block at the head of the list.                                    *)
LEMMA NewBlockOK ==
  ASSUME CacheOK(blocks), NEW n \in Block, n.age = 0
  PROVE  CacheOK(MakeRoom(blocks) \cup {n})
<1> DEFINE S == MakeRoom(blocks)
<1>1. CacheOK(S) /\ (\A b \in S : b.age >= 1) /\ Cardinality(S) <= CACHE_LIMIT - 1
  BY MakeRoomOK
<1> HIDE DEF S
<1>2. /\ IsFiniteSet(S \cup {n}) /\ Cardinality(S) \in Nat
      /\ Cardinality(S \cup {n}) = IF n \in S THEN Cardinality(S) ELSE Cardinality(S) + 1
  BY <1>1, FS_AddElement, FS_CardinalityType DEF CacheOK
<1>3. Cardinality(S \cup {n}) <= CACHE_LIMIT
  BY <1>1, <1>2, Constants
<1>4. AgesDistinct(S \cup {n})
  BY <1>1 DEF AgesDistinct, CacheOK
<1>5. S \cup {n} \in SUBSET Block
  BY <1>1 DEF CacheOK
<1>6. CacheOK(S \cup {n})
  BY <1>2, <1>3, <1>4, <1>5 DEF CacheOK
<1> QED BY <1>6 DEF S

(* Fragments freed at the end of a pass.                                   *)
LEMMA FilterOK ==
  ASSUME CacheOK(blocks), EndStage2
  PROVE  CacheOK(blocks')
<1>1. PICK silence \in BOOLEAN :
        blocks' = {[b EXCEPT !.frags = {f \in @ : \/ root = NoRoot \/ silence
                                                  \/ f.end + dynoverlap >= root.end}]
                   : b \in blocks}
  BY DEF EndStage2
<1> DEFINE Kept(b) == {f \in b.frags : \/ root = NoRoot \/ silence
                                       \/ f.end + dynoverlap >= root.end}
           g == [b \in blocks |-> [b EXCEPT !.frags = Kept(b)]]
<1>2. \A b \in blocks : Kept(b) \subseteq b.frags
  OBVIOUS
<1>3. blocks' = {[b EXCEPT !.frags = Kept(b)] : b \in blocks}
  BY <1>1
<1> HIDE DEF Kept
<1>4. g \in [blocks -> Block] /\ \A b \in blocks : g[b].age = b.age
  BY <1>2 DEF CacheOK, Block
<1>5. blocks' = {g[b] : b \in blocks}
  BY <1>3
<1> HIDE DEF g
<1> QED BY <1>4, <1>5, CacheImage

(* How a merge, a skip or a padding leaves the root an interval.           *)
LEMMA RootType ==
  ASSUME root \in Interval, NEW e \in Int
  PROVE  [root EXCEPT !.end = e] \in Interval
BY DEF Interval

\* Trimming leaves a root and a list of blocks.
LEMMA TrimType ==
  ASSUME root \in Interval, CacheOK(blocks), cursor \in Nat
  PROVE  TrimmedRoot \in Interval /\ CacheOK(TrimmedBlocks)
<1>1. NoRoot \in Interval
  BY DEF NoRoot, Interval
<1>2. beginword - MaxOverlap \in Int
  BY Constants DEF beginword
<1>3. [root EXCEPT !.begin = Larger(@, beginword - MaxOverlap)] \in Interval
  BY <1>2 DEF Larger, Interval
<1>4. CacheOK({b \in blocks : b.end >= beginword - MaxOverlap})
  BY CacheSubset
<1> QED BY <1>1, <1>3, <1>4, RenumberOK DEF TrimmedRoot, TrimmedBlocks

\* An adjusted overlap is a natural number.
LEMMA AdjustedType ==
  ASSUME dynoverlap \in Nat, NEW d \in Adjusted \cup AdjustedByRead
  PROVE  d \in Nat
BY ReadAssumption, Constants DEF Adjusted, AdjustedByRead, MaxOverlap

\* A read starts at an integer.
LEMMA StartsType ==
  ASSUME root \in Interval, cursor \in Nat, dynoverlap \in Nat
  PROVE  ReadStarts \subseteq Int
<1>1. OverlapSectors \in Int
  BY Constants DEF OverlapSectors
<1>2. root.end \div W \in Int
  BY Constants DEF Interval
<1>3. Target \in Int
  BY <1>1, <1>2 DEF Target
<1> QED BY <1>3 DEF ReadStarts

(* Types of the parts of the state that a step of stage 2 changes.         *)
LEMMA MergeType ==
  ASSUME TypeInv, NEW b \in blocks, NEW f \in b.frags, NEW j \in Jitters,
         MergeFragment(b, f, j) \/ MergeSilence(b, f, j)
  PROVE  TypeInv'
<1>1. f.begin \in Int /\ f.end \in Int /\ f.last \in BOOLEAN /\ j \in Int
  BY ReadAssumption DEF TypeInv, TypeOK, Block, Fragment
<1>2. root' \in Interval
  <2>1. CASE MergeFragment(b, f, j)
    <3>1. CASE Glom(f, j)
      BY <3>1, <1>1, RootType DEF Glom, TypeInv, TypeOK
    <3>2. ASSUME NEW r \in Jitters, Absorb(r)
          PROVE  root' \in Interval
      <4>1. r \in Int /\ root.end \in Int
        BY ReadAssumption DEF TypeInv, TypeOK, Interval
      <4> QED BY <3>2, <4>1, RootType DEF Absorb, TypeInv, TypeOK
    <3> QED BY <2>1, <3>1, <3>2 DEF MergeFragment
  <2>2. CASE MergeSilence(b, f, j)
    <3>1. Larger(root.end, f.end + j) \in Int
      BY <1>1 DEF Larger, TypeInv, TypeOK, Interval
    <3> QED BY <2>2, <3>1, RootType DEF MergeSilence, TypeInv, TypeOK
  <2> QED BY <2>1, <2>2
<1>3. rootlast' \in BOOLEAN
  BY DEF MergeFragment, MergeSilence, Glom, Absorb, TypeInv, TypeOK
<1>4. CacheOK(blocks')
  BY FreeFragmentOK DEF MergeFragment, MergeSilence, TypeInv
<1>5. dynoverlap' \in Nat
  BY AdjustedType DEF MergeFragment, MergeSilence, TypeInv, TypeOK
<1>6. UNCHANGED <<enable, pc, cursor, firstsector, delivered, returnedlimit, retry_count,
                  lastend>>
  BY DEF MergeFragment, MergeSilence
<1> QED BY <1>2, <1>3, <1>4, <1>5, <1>6 DEF TypeInv, TypeOK, CacheOK

(* ... and those a read changes.                                           *)
LEMMA ReadType ==
  ASSUME TypeInv, ReadStep
  PROVE  TypeInv'
<1>1. ReadStarts \subseteq Int
  BY StartsType DEF TypeInv, TypeOK
<1>2. CASE Unread /\ UNCHANGED <<readVars, retry_count, lastend>> /\ pc' \in {"account", "idle"}
  <2>1. CacheOK(blocks')
    <3>1. CASE Paranoid
      BY <1>2, <3>1, UnreadOK DEF Unread, TypeInv
    <3>2. CASE ~Paranoid
      BY <1>2, <3>2, FS_EmptySet, Constants DEF Unread, CacheOK, AgesDistinct
    <3> QED BY <3>1, <3>2
  <2>2. root' \in Interval /\ returnedlimit' \in Int
    BY <1>2 DEF Unread, NoRoot, Interval, TypeInv, TypeOK
  <2>3. rootlast' \in BOOLEAN
    BY <1>2, Zenon DEF Unread, TypeInv, TypeOK
  <2> QED BY <1>2, <2>1, <2>2, <2>3 DEF TypeInv, TypeOK, CacheOK, readVars
<1>3. CASE ReadRaw
  <2>1. BlockAt(cursor).begin \in Int /\ BlockAt(cursor).end \in Int
    BY BlockAtType DEF TypeInv, TypeOK
  <2>2. root' \in Interval /\ blocks' = {}
    BY <1>3, <2>1 DEF ReadRaw, Interval
  <2>3. CacheOK(blocks')
    BY <2>2, FS_EmptySet, Constants DEF CacheOK, AgesDistinct
  <2>4. rootlast' \in BOOLEAN
    BY <1>3, Zenon DEF ReadRaw
  <2>5. /\ returnedlimit' = 0 /\ pc' = "account"
        /\ UNCHANGED <<readVars, retry_count, lastend>>
    BY <1>3 DEF ReadRaw
  <2> QED BY <2>2, <2>3, <2>4, <2>5 DEF TypeInv, TypeOK, CacheOK, readVars
<1>4. ASSUME NEW s \in Int, NEW frags \in Fragments(BlockAt(s), s), ReadVerified(s, frags)
      PROVE  TypeInv'
  <2> DEFINE blk == BlockAt(s)
             n == [begin |-> blk.begin, end |-> blk.end, last |-> blk.last,
                   age |-> 0, frags |-> frags]
  <2>1. blk.begin \in Int /\ blk.end \in Int /\ blk.last \in BOOLEAN
    BY BlockAtType DEF TypeInv, TypeOK
  <2>2. frags \in SUBSET Fragment
    BY FragmentsType DEF TypeInv, TypeOK
  <2>3. blocks' = MakeRoom(blocks) \cup {n} /\ dynoverlap' \in AdjustedByRead
    BY <1>4 DEF ReadVerified
  <2>4. n \in Block /\ n.age = 0
    <3> HIDE DEF blk
    <3> QED BY <2>1, <2>2 DEF Block
  <2> HIDE DEF n, blk
  <2>5. CacheOK(blocks')
    BY <2>3, <2>4, NewBlockOK DEF TypeInv
  <2>6. dynoverlap' \in Nat
    BY <2>3, AdjustedType DEF TypeInv, TypeOK
  <2>7. /\ pc' = "account"
        /\ UNCHANGED <<enable, cursor, firstsector, delivered, root, rootlast,
                       returnedlimit, retry_count, lastend>>
    BY <1>4 DEF ReadVerified
  <2> QED BY <2>5, <2>6, <2>7 DEF TypeInv, TypeOK, CacheOK
<1> QED BY <1>1, <1>2, <1>3, <1>4 DEF ReadStep, ReadNothing, NoMedium

(* ... and those the reckoning after a read changes.                       *)
LEMMA AccountType ==
  ASSUME TypeInv, AccountStep
  PROVE  TypeInv'
<1>1. NextRetry \in Nat
  BY ReadAssumption DEF NextRetry, TypeInv, TypeOK
<1>2. CASE AccountProgress
  BY <1>2 DEF AccountProgress, TypeInv, TypeOK, Interval, readVars
<1>3. CASE CountRetry
  BY <1>1, <1>3 DEF CountRetry, TypeInv, TypeOK, readVars
<1>4. CASE WidenOverlap
  <2>1. Smaller((dynoverlap * 3) \div 2, MaxOverlap) \in Nat
    BY Constants DEF Smaller, TypeInv, TypeOK
  <2> QED BY <1>1, <1>4, <2>1 DEF WidenOverlap, TypeInv, TypeOK
<1>5. CASE GiveUp
  <2>1. root' \in Interval /\ returnedlimit' \in Int
    <3>1. CASE NeverSkip
      BY <1>5, <3>1 DEF GiveUp, TypeInv, TypeOK
    <3>2. ASSUME NEW b \in blocks, NEW e \in (SkipAt + 1)..b.end, Graft(b, e)
          PROVE  root' \in Interval
      BY <3>2 DEF Graft, SkipAt, Block, Interval, TypeInv, TypeOK
    <3>3. ASSUME Zeros PROVE root' \in Interval
      <4>1. 2 * W \in Int
        BY Constants
      <4> QED BY <3>3, <4>1 DEF Zeros, Interval, TypeInv, TypeOK
    <3>4. CASE ~NeverSkip
      <4>1. Skip
        BY <1>5, <3>4 DEF GiveUp
      <4>2. root' \in Interval
        BY <4>1, <3>2, <3>3 DEF Skip
      <4> QED BY <4>1, <4>2 DEF Skip, Interval
    <3> QED BY <3>1, <3>4
  <2> QED BY <1>5, <2>1 DEF GiveUp, TypeInv, TypeOK, readVars
<1> QED BY <1>2, <1>3, <1>4, <1>5 DEF AccountStep

\* Every step keeps the types.
LEMMA TypeNext == TypeInv /\ [Next]_vars => TypeInv'
<1> SUFFICES ASSUME TypeInv, [Next]_vars PROVE TypeInv'
  OBVIOUS
<1>1. beginword \in Nat /\ endword \in Nat
  BY Constants DEF beginword, endword, TypeInv, TypeOK
<1>2. CASE StartRead
  BY <1>1, <1>2 DEF StartRead, Larger, readVars, TypeInv, TypeOK, Interval
<1>3. CASE Deliver
  BY <1>1, <1>3 DEF Deliver, TypeInv, TypeOK
<1>4. CASE PadEnd
  <2>1. TrimmedRoot \in Interval /\ CacheOK(TrimmedBlocks)
    BY TrimType DEF TypeInv, TypeOK
  <2>2. CacheOK({})
    BY FS_EmptySet, Constants DEF CacheOK, AgesDistinct
  <2>3. CacheOK(blocks')
    BY <1>4, <2>1, <2>2 DEF PadEnd
  <2>4. root' \in Interval
    BY <1>1, <1>4, <2>1, Constants DEF PadEnd, Larger, Interval
  <2> QED BY <1>4, <2>3, <2>4 DEF PadEnd, TypeInv, TypeOK, CacheOK, readVars
<1>5. CASE Trim
  <2>1. TrimmedRoot \in Interval /\ CacheOK(TrimmedBlocks)
    BY TrimType DEF TypeInv, TypeOK
  <2>2. root' = TrimmedRoot /\ blocks' = TrimmedBlocks /\ returnedlimit' \in Int
    BY <1>5 DEF Trim, TypeInv, TypeOK
  <2>3. rootlast' \in BOOLEAN
    BY <1>5, Zenon DEF Trim
  <2>4. pc' = "stage2" /\ UNCHANGED <<readVars, retry_count, lastend>>
    BY <1>5 DEF Trim
  <2> QED BY <2>1, <2>2, <2>3, <2>4 DEF TypeInv, TypeOK, CacheOK, readVars
<1>6. CASE NoTrim
  BY <1>6 DEF NoTrim, readVars, TypeInv, TypeOK
<1>7. CASE Stage2Step
  <2>1. ASSUME NEW b \in blocks, NEW f \in b.frags, InitRoot(b, f)
        PROVE  TypeInv'
    <3>1. f.begin \in Int /\ f.end \in Int /\ f.last \in BOOLEAN
      BY DEF TypeInv, TypeOK, Block, Fragment
    <3>2. root' \in Interval
      BY <2>1, <3>1 DEF InitRoot, Interval
    <3>3. CacheOK(blocks')
      BY <2>1, FreeFragmentOK DEF InitRoot, TypeInv
    <3> QED BY <1>1, <2>1, <3>1, <3>2, <3>3 DEF InitRoot, TypeInv, TypeOK, CacheOK, readVars
  <2>2. CASE EndStage2
    <3>1. CacheOK(blocks')
      BY <2>2, FilterOK DEF TypeInv
    <3> QED BY <2>2, <3>1 DEF EndStage2, TypeInv, TypeOK, CacheOK, readVars
  <2> QED BY <1>7, <2>1, <2>2, MergeType DEF Stage2Step
<1>8. CASE ReadStep
  BY <1>8, ReadType
<1>9. CASE AccountStep
  BY <1>9, AccountType
<1>10. ASSUME NEW s \in Starts, Seek(s)
       PROVE  TypeInv'
  <2>1. cursor' \in Nat /\ firstsector' \in Nat
    BY <1>10, ReadAssumption DEF Seek
  <2>2. root' \in Interval
    BY <1>10 DEF Seek, NoRoot, Interval
  <2>3. rootlast' \in BOOLEAN
    BY <1>10, Zenon DEF Seek
  <2>4. /\ returnedlimit' = 0 /\ delivered' = -1
        /\ UNCHANGED <<enable, pc, blocks, dynoverlap, retry_count, lastend>>
    BY <1>10 DEF Seek, NotDelivered
  <2> QED BY <2>1, <2>2, <2>3, <2>4 DEF TypeInv, TypeOK, CacheOK
<1>11. CASE UNCHANGED vars
  BY <1>11 DEF vars, TypeInv, TypeOK
<1> QED
  BY <1>2, <1>3, <1>4, <1>5, <1>6, <1>7, <1>8, <1>9, <1>10, <1>11
  DEF Next, Step, ReturnSector, Break

(* Every variable keeps its type and no more than CACHE_LIMIT blocks are   *)
(* kept: new_c_block followed by recover_cache, and the frees of           *)
(* i_paranoia_trim, i_stage2 and i_end_case, keep the cache in bounds.     *)
THEOREM TypeCorrect == Spec => []TypeInv
<1> QED BY TypeInit, TypeNext, PTL DEF Spec

\* paranoia_read_limited, paranoia_seek and all they call keep root, blocks
\* and counters of their types, whatever is read.
THEOREM TypesHold == Spec => []TypeOK
<1>1. TypeInv => TypeOK
  BY DEF TypeInv
<1> QED BY <1>1, TypeCorrect, PTL

\* new_c_block and recover_cache never keep more blocks than cache_limit.
THEOREM CacheIsBounded == Spec => []CacheBounded
<1>1. TypeInv => CacheBounded
  BY DEF TypeInv, CacheOK, CacheBounded
<1> QED BY <1>1, TypeCorrect, PTL

-----------------------------------------------------------------------------
(* The verified root between two seeks.                                    *)

(* Fragments lie on the disc, and one that claims to be the last of the    *)
(* session ends where the session ends.                                    *)
FragmentsOK(S) ==
  \A b \in S :
    /\ b.begin >= 0
    /\ \A f \in b.frags : f.begin >= 0 /\ (f.last => f.end = SessionEnd)

(* A root does not start before the disc, and only a root has the flag.    *)
RootInv ==
  /\ root = NoRoot \/ root.begin >= 0
  /\ rootlast => root.begin >= 0

(* Once a sector was returned: the root covers what was returned last,     *)
(* down to an overlap before it, and, unless its end is the session's,     *)
(* merging below what was returned is ruled out.                           *)
KeptInv ==
  Paranoid /\ delivered # NotDelivered =>
    /\ delivered = beginword
    /\ 0 <= root.begin /\ root.begin <= beginword
    /\ root.end >= beginword - MaxOverlap + MIN_WORDS_OVERLAP
    /\ ~rootlast => root.end >= beginword
    /\ pc = "stage2" \/ (pc # "idle" /\ ~rootlast) => returnedlimit >= beginword
    /\ pc = "stage2" => root.begin >= beginword - MaxOverlap

IInv ==
  /\ TypeInv
  /\ FragmentsOK(blocks)
  /\ RootInv
  /\ pc = "stage2" => Paranoid
  /\ KeptInv

\* At the start there are no fragments.
LEMMA FragmentsInit == Init => FragmentsOK(blocks)
BY DEF Init, FragmentsOK

\* Every step keeps fragments within their blocks.
LEMMA FragmentsNext ==
  ASSUME TypeInv, FragmentsOK(blocks), [Next]_vars
  PROVE  FragmentsOK(blocks')
<1>t. blocks \in SUBSET Block
  BY DEF TypeInv, TypeOK
<1>u. ASSUME UNCHANGED blocks PROVE FragmentsOK(blocks')
  BY <1>u
<1>e. ASSUME blocks' = {} PROVE FragmentsOK(blocks')
  BY <1>e DEF FragmentsOK
<1>r. ASSUME NEW S \in SUBSET blocks PROVE FragmentsOK(Renumber(S))
  <2>1. ASSUME NEW c \in Renumber(S)
        PROVE  c.begin >= 0 /\ \A f \in c.frags : f.begin >= 0 /\ (f.last => f.end = SessionEnd)
    <3>1. PICK b \in S : c = [b EXCEPT !.age = Cardinality({d \in S : d.age < b.age})]
      BY DEF Renumber
    <3>2. c.begin = b.begin /\ c.frags = b.frags
      BY <1>t, <3>1 DEF Block
    <3> QED BY <3>2 DEF FragmentsOK
  <2> QED BY <2>1 DEF FragmentsOK
<1>m. FragmentsOK(MakeRoom(blocks))
  BY <1>t DEF MakeRoom, FragmentsOK, Block
<1>f. ASSUME NEW b \in blocks, NEW f PROVE FragmentsOK(FreeFragment(blocks, b, f))
  BY <1>t DEF FreeFragment, FragmentsOK, Block
<1>1. FragmentsOK(TrimmedBlocks)
  BY <1>r DEF TrimmedBlocks
<1>2. CASE PadEnd
  BY <1>1, <1>2, <1>e DEF PadEnd
<1>3. CASE Trim
  BY <1>1, <1>3 DEF Trim
<1>4. CASE Stage2Step
  <2>1. CASE EndStage2
    BY <1>t, <2>1 DEF EndStage2, FragmentsOK, Block
  <2>2. ASSUME NEW b \in blocks, NEW f \in b.frags,
               blocks' = FreeFragment(blocks, b, f)
        PROVE  FragmentsOK(blocks')
    BY <1>f, <2>2
  <2> QED BY <1>4, <2>1, <2>2 DEF Stage2Step, InitRoot, MergeFragment, MergeSilence
<1>5. CASE ReadStep
  <2>1. CASE Unread
    <3>1. ASSUME blocks' = {[b EXCEPT !.age = @ - 1] : b \in MakeRoom(blocks)}
          PROVE  FragmentsOK(blocks')
      <4>1. MakeRoom(blocks) \in SUBSET Block
        BY MakeRoomOK DEF TypeInv, CacheOK
      <4> QED BY <3>1, <4>1, <1>m DEF FragmentsOK, Block
    <3> QED BY <2>1, <3>1, <1>e DEF Unread
  <2>2. CASE ReadRaw
    BY <2>2, <1>e DEF ReadRaw
  <2>3. ASSUME NEW s \in Int, NEW frags \in Fragments(BlockAt(s), s), ReadVerified(s, frags)
        PROVE  FragmentsOK(blocks')
    <3> DEFINE blk == BlockAt(s)
               n == [begin |-> blk.begin, end |-> blk.end, last |-> blk.last,
                     age |-> 0, frags |-> frags]
    <3>1. blk.begin \in Nat
      BY BlockAtType DEF TypeInv, TypeOK
    <3>2. \A f \in frags : f.begin >= 0 /\ (f.last => f.end = SessionEnd)
      BY FragmentsType DEF TypeInv, TypeOK
    <3>3. blocks' = MakeRoom(blocks) \cup {n}
      BY <2>3 DEF ReadVerified
    <3>4. n.begin >= 0 /\ n.frags = frags
      BY <3>1
    <3> HIDE DEF n, blk
    <3> QED BY <1>m, <3>2, <3>3, <3>4 DEF FragmentsOK
  <2>4. ReadStarts \subseteq Int
    BY StartsType DEF TypeInv, TypeOK
  <2> QED BY <1>5, <2>1, <2>2, <2>3, <2>4 DEF ReadStep, ReadNothing, NoMedium
<1>6. CASE UNCHANGED blocks
  BY <1>6
<1> QED
  BY <1>2, <1>3, <1>4, <1>5, <1>6
  DEF Next, Step, StartRead, ReturnSector, Break, Deliver, NoTrim, AccountStep,
      AccountProgress, CountRetry, WidenOverlap, GiveUp, Seek, vars

\* The invariant holds at the start.
LEMMA IInvInit == Init => IInv
<1> SUFFICES ASSUME Init PROVE IInv
  OBVIOUS
<1>1. RootInv /\ pc # "stage2" /\ delivered = NotDelivered
  BY DEF Init, RootInv, NoRoot
<1> QED BY <1>1, TypeInit, FragmentsInit DEF IInv, KeptInv

(* Facts about the current sector that every step below uses.              *)
LEMMA SectorFacts ==
  ASSUME TypeInv
  PROVE  /\ cursor \in Nat
         /\ beginword \in Nat /\ endword = beginword + W
         /\ (cursor + 1) * W = endword
         /\ root.begin \in Int /\ root.end \in Int /\ returnedlimit \in Int
         /\ root = [begin |-> root.begin, end |-> root.end]
<1>1. cursor \in Nat /\ (cursor + 1) * W = cursor * W + W /\ cursor * W \in Nat
  BY Constants DEF TypeInv, TypeOK
<1> QED BY <1>1 DEF beginword, endword, TypeInv, TypeOK, Interval

\* Every step keeps what is known of the root,
LEMMA RootNext ==
  ASSUME IInv, [Next]_vars
  PROVE  RootInv'
<1> USE DEF RootInv, NoRoot
<1>1. TypeInv /\ RootInv /\ FragmentsOK(blocks)
  BY DEF IInv
<1>2. /\ beginword \in Nat /\ endword = beginword + W
      /\ root.begin \in Int /\ root.end \in Int
      /\ root = [begin |-> root.begin, end |-> root.end]
  BY <1>1, SectorFacts
<1>3. \A b \in blocks : \A f \in b.frags : f.begin \in Int /\ f.end \in Int
  BY <1>1 DEF TypeInv, TypeOK, Block, Fragment
<1>u. CASE UNCHANGED <<root, rootlast>>
  BY <1>1, <1>u
<1>4. CASE PadEnd
  BY <1>1, <1>2, <1>4, Constants DEF PadEnd, TrimmedRoot, AtDiscEnd, Larger
<1>5. CASE Trim
  <2>1. rootlast' => rootlast /\ ~TrimFrees
    BY <1>5, Zenon DEF Trim
  <2>2. root' = TrimmedRoot
    BY <1>5, Zenon DEF Trim
  <2> QED BY <1>1, <1>2, <2>1, <2>2, Constants DEF TrimmedRoot, TrimFrees, Larger
<1>6. CASE Stage2Step
  <2>1. ASSUME NEW b \in blocks, NEW f \in b.frags, InitRoot(b, f)
        PROVE  RootInv'
    BY <1>1, <1>3, <2>1 DEF InitRoot, FragmentsOK
  <2>2. ASSUME NEW b \in blocks, NEW f \in b.frags, NEW j \in Jitters,
               MergeFragment(b, f, j) \/ MergeSilence(b, f, j)
        PROVE  RootInv'
    BY <1>1, <1>2, <2>2 DEF MergeFragment, MergeSilence, Glom, Absorb
  <2>3. CASE EndStage2
    BY <1>u, <2>3 DEF EndStage2
  <2> QED BY <1>6, <2>1, <2>2, <2>3 DEF Stage2Step
<1>7. CASE ReadStep
  <2>1. BlockAt(cursor).begin \in Nat
    BY <1>1, BlockAtType DEF TypeInv, TypeOK
  <2> QED BY <1>u, <1>7, <2>1
          DEF ReadStep, ReadVerified, ReadNothing, NoMedium, Unread, ReadRaw
<1>8. CASE GiveUp
  BY <1>1, <1>2, <1>8, Constants DEF GiveUp, Skip, Graft, Zeros, FragmentsOK
<1>9. ASSUME NEW s \in Starts, Seek(s)
      PROVE  RootInv'
  <2> HIDE DEF RootInv, NoRoot
  <2>1. root' = NoRoot
    BY <1>9, Zenon DEF Seek
  <2>2. ~rootlast'
    BY <1>9, Zenon DEF Seek
  <2> QED BY <2>1, <2>2, Zenon DEF RootInv
<1> QED
  BY <1>u, <1>4, <1>5, <1>6, <1>7, <1>8, <1>9
  DEF Next, Step, StartRead, ReturnSector, Break, Deliver, NoTrim, AccountStep,
      AccountProgress, CountRetry, WidenOverlap, vars, readVars

(* The mode is chosen before the first read.                               *)
LEMMA ModeKept == [Next]_vars => enable' = enable
BY DEF Next, Step, StartRead, ReturnSector, Break, Deliver, PadEnd, Trim, NoTrim,
       Stage2Step, InitRoot, MergeFragment, MergeSilence, EndStage2, ReadStep,
       ReadVerified, ReadRaw, ReadNothing, NoMedium, AccountStep, AccountProgress,
       CountRetry, WidenOverlap, GiveUp, Seek, readVars, vars

\* and that it is kept between seeks.
LEMMA KeptNext ==
  ASSUME IInv, [Next]_vars
  PROVE  KeptInv'
<1> SUFFICES ASSUME Paranoid, delivered' # NotDelivered
             PROVE  /\ delivered' = beginword'
                    /\ 0 <= root'.begin /\ root'.begin <= beginword'
                    /\ root'.end >= beginword' - MaxOverlap + MIN_WORDS_OVERLAP
                    /\ ~rootlast' => root'.end >= beginword'
                    /\ pc' = "stage2" \/ (pc' # "idle" /\ ~rootlast') => returnedlimit' >= beginword'
                    /\ pc' = "stage2" => root'.begin >= beginword' - MaxOverlap
  BY ModeKept DEF KeptInv, Paranoid
<1>1. TypeInv /\ RootInv /\ FragmentsOK(blocks) /\ KeptInv
  BY DEF IInv
<1>2. /\ beginword \in Nat /\ endword = beginword + W /\ (cursor + 1) * W = endword
      /\ root.begin \in Int /\ root.end \in Int /\ returnedlimit \in Int
      /\ root = [begin |-> root.begin, end |-> root.end]
  BY <1>1, SectorFacts
<1>b. ASSUME cursor' = cursor PROVE beginword' = beginword
  BY <1>b DEF beginword
(* A step that starts after a sector was returned finds the root there.    *)
<1>k. ASSUME delivered # NotDelivered
      PROVE  /\ delivered = beginword
             /\ 0 <= root.begin /\ root.begin <= beginword
             /\ root.end >= beginword - MaxOverlap + MIN_WORDS_OVERLAP
             /\ ~rootlast => root.end >= beginword
             /\ pc = "stage2" \/ (pc # "idle" /\ ~rootlast) => returnedlimit >= beginword
             /\ pc = "stage2" => root.begin >= beginword - MaxOverlap
             /\ root # NoRoot
             /\ ~TrimFrees
  BY <1>1, <1>2, <1>k, Constants DEF KeptInv, NoRoot, TrimFrees
<1>3. CASE StartRead
  BY <1>2, <1>b, <1>k, <1>3 DEF StartRead, Larger, readVars
<1>4. CASE Deliver /\ (~Wanting \/ Satisfied)
  <2>1. beginword' = endword /\ delivered' = endword /\ UNCHANGED <<root, rootlast>> /\ pc' = "idle"
    BY <1>2, <1>4 DEF Deliver, beginword
  <2>2. /\ 0 <= root.begin /\ root.begin <= beginword
        /\ root.end >= endword + MaxOverlap
    <3>1. CASE ~Wanting
      BY <1>1, <1>2, <3>1, Constants DEF Wanting, RootInv
    <3>2. CASE Satisfied
      BY <1>1, <1>2, <3>2 DEF Satisfied, RootInv, NoRoot
    <3> QED BY <1>4, <3>1, <3>2
  <2> QED BY <1>2, <2>1, <2>2, Constants
<1>5. CASE PadEnd
  <2>1. beginword' = beginword /\ delivered' = delivered /\ pc' = "enough"
    BY <1>5, <1>b DEF PadEnd, readVars
  <2>2. rootlast /\ UNCHANGED <<rootlast, returnedlimit>>
    BY <1>5 DEF PadEnd, AtDiscEnd
  <2>3. root' = [TrimmedRoot EXCEPT !.end = Larger(@, endword + MaxOverlap)]
    BY <1>5 DEF PadEnd
  <2> QED BY <1>2, <1>k, <2>1, <2>2, <2>3, Constants DEF TrimmedRoot, Larger
<1>6. CASE Trim
  <2>1. /\ beginword' = beginword /\ delivered' = delivered /\ pc' = "stage2"
        /\ pc = "check"
    BY <1>6, <1>b DEF Trim, readVars
  <2>2. ~rootlast
    BY <1>6, <1>k, <2>1 DEF Trim, AtDiscEnd
  <2>3. returnedlimit' = returnedlimit
    BY <1>6, <1>k, <2>1 DEF Trim
  <2>4. root' = TrimmedRoot
    BY <1>6 DEF Trim
  <2> QED BY <1>2, <1>k, <2>1, <2>2, <2>3, <2>4, Constants DEF TrimmedRoot, Larger
<1>7. CASE Stage2Step
  <2>1. ASSUME NEW b \in blocks, NEW f \in b.frags, InitRoot(b, f)
        PROVE  FALSE
    BY <1>k, <2>1 DEF InitRoot, readVars
  <2>2. ASSUME NEW b \in blocks, NEW f \in b.frags, NEW j \in Jitters,
               MergeFragment(b, f, j) \/ MergeSilence(b, f, j)
        PROVE  /\ pc = "stage2" /\ UNCHANGED <<pc, cursor, delivered, returnedlimit>>
               /\ root'.begin = root.begin
               /\ root'.end >= beginword - MaxOverlap + MIN_WORDS_OVERLAP
               /\ ~rootlast' => root'.end >= beginword
    <3>1. pc = "stage2" /\ UNCHANGED <<pc, cursor, delivered, returnedlimit>>
      BY <2>2 DEF MergeFragment, MergeSilence
    <3>2. f.begin \in Int /\ f.end \in Int /\ j \in Int
      BY <1>1, ReadAssumption DEF TypeInv, TypeOK, Block, Fragment
    <3>3. ASSUME Glom(f, j), Matches(f, j)
          PROVE  /\ root'.begin = root.begin
                 /\ root'.end >= beginword - MaxOverlap + MIN_WORDS_OVERLAP
                 /\ ~rootlast' => root'.end >= beginword
      <4>1. ~rootlast' => ~rootlast /\ ~f.last
        BY <3>3, Zenon DEF Glom
      <4>2. root' = [root EXCEPT !.end = f.end + j]
        BY <3>3 DEF Glom
      <4>3. f.end + j > root.end \/ f.last \/ f.end + j > returnedlimit
        BY <3>3 DEF Glom
      <4> QED BY <1>2, <1>k, <3>1, <3>2, <3>3, <4>1, <4>2, <4>3, Constants DEF Matches
    <3>4. ASSUME NEW r \in Jitters, Absorb(r)
          PROVE  /\ root'.begin = root.begin
                 /\ root'.end >= beginword - MaxOverlap + MIN_WORDS_OVERLAP
                 /\ ~rootlast' => root'.end >= beginword
      BY <1>2, <1>k, <3>1, <3>4, Constants, ReadAssumption DEF Absorb
    <3>5. CASE MergeSilence(b, f, j)
      <4>1. ~rootlast' => ~rootlast
        BY <3>5, Zenon DEF MergeSilence
      <4>2. root' = [root EXCEPT !.end = Larger(@, f.end + j)]
        BY <3>5 DEF MergeSilence
      <4>3. root'.begin = root.begin /\ root'.end >= root.end
        BY <1>2, <3>2, <4>2 DEF Larger
      <4>4. root'.end \in Int
        BY <1>2, <3>2, <4>2 DEF Larger
      <4> QED BY <1>2, <1>k, <3>1, <4>1, <4>3, <4>4, Constants
    <3>6. CASE MergeFragment(b, f, j)
      <4>1. Matches(f, j) /\ (Glom(f, j) \/ \E r \in Jitters : Absorb(r))
        BY <3>6, Zenon DEF MergeFragment
      <4>2. CASE Glom(f, j)
        BY <3>1, <3>3, <4>1, <4>2, Zenon
      <4>3. ASSUME NEW r \in Jitters, Absorb(r)
            PROVE  /\ root'.begin = root.begin
                   /\ root'.end >= beginword - MaxOverlap + MIN_WORDS_OVERLAP
                   /\ ~rootlast' => root'.end >= beginword
        BY <3>4, <4>3, Zenon
      <4> QED BY <3>1, <4>1, <4>2, <4>3, Zenon
    <3> QED BY <2>2, <3>1, <3>5, <3>6, Zenon
  <2>3. CASE EndStage2
    BY <1>b, <1>k, <2>3 DEF EndStage2, readVars
  <2> QED BY <1>7, <1>b, <1>k, <2>1, <2>2, <2>3 DEF Stage2Step
<1>8. CASE ReadStep
  <2>1. /\ UNCHANGED <<cursor, delivered, root, rootlast, returnedlimit>>
        /\ pc = "enough" /\ pc' \in {"account", "idle"}
    BY <1>8 DEF ReadStep, ReadVerified, ReadNothing, NoMedium, Unread, ReadRaw,
                Reading, readVars
  <2> QED BY <1>b, <1>k, <2>1
<1>9. CASE AccountProgress \/ CountRetry \/ WidenOverlap
  <2>1. /\ UNCHANGED <<cursor, delivered, root, rootlast, returnedlimit>>
        /\ pc = "account" /\ pc' = "check"
    BY <1>9 DEF AccountProgress, CountRetry, WidenOverlap, readVars
  <2> QED BY <1>b, <1>k, <2>1
<1>10. CASE GiveUp
  <2>1. /\ UNCHANGED <<cursor, delivered, rootlast>> /\ pc = "account" /\ pc' = "check"
    BY <1>10 DEF GiveUp, readVars
  <2>2. CASE Skip
    BY <1>1, <1>2, <1>b, <1>k, <2>1, <2>2, Constants
    DEF Skip, Graft, Zeros, SkipAt, TypeInv, TypeOK, Block
  <2> QED BY <1>10, <1>b, <1>k, <2>1, <2>2 DEF GiveUp
<1>11. ASSUME NEW s \in Starts, Seek(s)
       PROVE  FALSE
  BY <1>11 DEF Seek
<1>12. CASE NoTrim
  BY <1>12 DEF NoTrim
<1>13. CASE UNCHANGED vars
  BY <1>b, <1>k, <1>13 DEF vars
<1> QED
  BY <1>3, <1>4, <1>5, <1>6, <1>7, <1>8, <1>9, <1>10, <1>11, <1>12, <1>13
  DEF Next, Step, ReturnSector, Break, AccountStep

\* The invariant is inductive.
LEMMA IInvNext == IInv /\ [Next]_vars => IInv'
<1> SUFFICES ASSUME IInv, [Next]_vars PROVE IInv'
  OBVIOUS
<1>1. TypeInv'
  BY TypeNext DEF IInv
<1>2. FragmentsOK(blocks)'
  BY FragmentsNext DEF IInv
<1>3. RootInv' /\ KeptInv'
  BY RootNext, KeptNext
<1>4. pc' = "stage2" => Paranoid
  BY DEF IInv, Next, Step, StartRead, ReturnSector, Break, Deliver, PadEnd,
         Trim, NoTrim, Stage2Step, InitRoot, MergeFragment, MergeSilence,
         EndStage2, ReadStep, ReadVerified, ReadRaw, ReadNothing, NoMedium,
         AccountStep, AccountProgress, CountRetry, WidenOverlap, GiveUp, Seek, vars
<1> QED BY <1>1, <1>2, <1>3, <1>4, ModeKept DEF IInv, Paranoid

(* The inductive invariant: where the root of a started track may lie.     *)
THEOREM Invariance == Spec => []IInv
BY IInvInit, IInvNext, PTL DEF Spec

-----------------------------------------------------------------------------
(* What the invariant is for.                                              *)

(* Samples the caller has been given are out of reach of the merges of     *)
(* i_stage2_each and i_silence_match, whatever fragments arrive.           *)
THEOREM ReturnedIsProtected == Spec => []ReturnedProtected
<1>1. IInv => ReturnedProtected
  BY DEF IInv, KeptInv, ReturnedProtected
<1> QED BY <1>1, Invariance, PTL

(* Between two seeks a root that sectors were returned from is never       *)
(* dropped and started anew while a read is under way.                     *)
THEOREM RootIsKept == Spec => RootKept
<1> DEFINE A == Paranoid /\ delivered # NotDelivered /\ root # NoRoot /\ pc # "idle"
                  => root' # NoRoot
<1>1. IInv /\ [Next]_vars => [A]_vars
  <2> SUFFICES ASSUME IInv, [Next]_vars, Paranoid, delivered # NotDelivered, pc # "idle"
               PROVE  root' # NoRoot
    OBVIOUS
  <2>1. RootInv' /\ KeptInv'
    BY RootNext, KeptNext
  <2>2. delivered' # NotDelivered
    <3>1. beginword \in Nat /\ endword = beginword + W
      BY SectorFacts DEF IInv
    <3> QED BY <3>1, Constants
        DEF Next, Step, StartRead, ReturnSector, Break, Deliver, PadEnd, Trim, NoTrim,
            Stage2Step, InitRoot, MergeFragment, MergeSilence, EndStage2, ReadStep,
            ReadVerified, ReadRaw, ReadNothing, NoMedium, AccountStep, AccountProgress,
            CountRetry, WidenOverlap, GiveUp, Seek, readVars, vars, NotDelivered
  <2> QED BY <2>1, <2>2, ModeKept DEF KeptInv, NoRoot, Paranoid
<1> QED BY <1>1, Invariance, PTL DEF Spec, RootKept

(* i_end_case pads with zeros only after a fragment that ends where the    *)
(* session ends was made, or merged into, the root.                        *)
THEOREM PaddingOnlyAtEnd == Spec => PaddingAtEnd
<1> DEFINE A == rootlast' /\ (~rootlast \/ root = NoRoot) =>
                  \E j \in Jitters \cup {0} : SessionEnd + j <= root'.end
<1>1. IInv /\ [Next]_vars => [A]_vars
  <2> SUFFICES ASSUME IInv, [Next]_vars, rootlast', ~rootlast \/ root = NoRoot
               PROVE  \E j \in Jitters \cup {0} : SessionEnd + j <= root'.end
    OBVIOUS
  <2>1. ~rootlast
    BY DEF IInv, RootInv, NoRoot
  <2>2. ASSUME NEW b \in blocks, NEW f \in b.frags
        PROVE  f.begin \in Int /\ f.end \in Int /\ (f.last => f.end = SessionEnd)
    BY DEF IInv, TypeInv, TypeOK, Block, Fragment, FragmentsOK
  <2>3. root.begin \in Int /\ root.end \in Int /\ SessionEnd \in Nat
    BY SectorFacts, Constants DEF IInv
  <2>4. ASSUME NEW b \in blocks, NEW f \in b.frags, InitRoot(b, f)
        PROVE  \E j \in Jitters \cup {0} : SessionEnd + j <= root'.end
    <3>1. f.last
      BY <2>4, Zenon DEF InitRoot
    <3>2. root'.end = SessionEnd
      BY <2>2, <2>4, <3>1 DEF InitRoot
    <3>3. 0 \in Jitters \cup {0} /\ SessionEnd + 0 <= root'.end
      BY <2>3, <3>2
    <3> QED BY <3>3, Zenon
  <2>5. ASSUME NEW b \in blocks, NEW f \in b.frags, NEW j \in Jitters,
               MergeFragment(b, f, j)
        PROVE  SessionEnd + j <= root'.end
    <3>1. ~ \E r \in Jitters : Absorb(r)
      BY <2>1, Zenon DEF Absorb
    <3>2. Glom(f, j)
      BY <2>5, <3>1, Zenon DEF MergeFragment
    <3>3. f.last
      BY <2>1, <3>2, Zenon DEF Glom
    <3>4. root' = [root EXCEPT !.end = SessionEnd + j]
      BY <2>2, <3>2, <3>3 DEF Glom
    <3>5. root'.end = SessionEnd + j /\ j \in Int
      BY <3>4, SectorFacts, ReadAssumption DEF IInv
    <3> QED BY <2>3, <3>5
  <2>6. ASSUME NEW b \in blocks, NEW f \in b.frags, NEW j \in Jitters,
               MergeSilence(b, f, j)
        PROVE  SessionEnd + j <= root'.end
    <3>1. f.last
      BY <2>1, <2>6, Zenon DEF MergeSilence
    <3>2. root' = [root EXCEPT !.end = Larger(root.end, SessionEnd + j)]
      BY <2>2, <2>6, <3>1 DEF MergeSilence
    <3>3. root'.end = Larger(root.end, SessionEnd + j) /\ j \in Int
      BY <3>2, SectorFacts, ReadAssumption DEF IInv
    <3> QED BY <2>3, <3>3 DEF Larger
  <2>7. CASE Trim
    BY <2>1, <2>7, Zenon DEF Trim
  <2>8. CASE PadEnd
    BY <2>1, <2>8, Zenon DEF PadEnd, AtDiscEnd
  <2>9. CASE Stage2Step
    <3>1. ~EndStage2
      BY <2>1, Zenon DEF EndStage2
    <3> QED BY <2>4, <2>5, <2>6, <2>9, <3>1, Zenon DEF Stage2Step
  <2>10. CASE ReadRaw
    BY <2>10, Zenon DEF ReadRaw
  <2>11. CASE Unread
    BY <2>1, <2>11, Zenon DEF Unread
  <2>12. ASSUME NEW s \in Starts, Seek(s) PROVE FALSE
    BY <2>12, Zenon DEF Seek
  <2>13. ASSUME UNCHANGED rootlast PROVE FALSE
    BY <2>1, <2>13, Zenon
  <2> QED
    BY <2>7, <2>8, <2>9, <2>10, <2>11, <2>12, <2>13
    DEF Next, Step, StartRead, ReturnSector, Break, Deliver, NoTrim, ReadStep,
        ReadVerified, ReadNothing, NoMedium, AccountStep, AccountProgress,
        CountRetry, WidenOverlap, GiveUp, vars
<1> QED BY <1>1, Invariance, PTL DEF Spec, PaddingAtEnd

=============================================================================
