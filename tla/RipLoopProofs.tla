---------------------------- MODULE RipLoopProofs ----------------------------
(***************************************************************************)
(* Proofs about the rip loop, for every table a drive may report, every    *)
(* command line and every way the reads and writes may fail.               *)
(***************************************************************************)
EXTENDS RipLoop, SequenceTheorems, WellFoundedInduction, TLAPS

-----------------------------------------------------------------------------
(* Numbers and their extremes.                                             *)

(* A set of naturals has a least one.                                      *)
LEMMA LeastNat ==
  ASSUME NEW S \in SUBSET Nat, S # {}
  PROVE  \E x \in S : \A y \in S : x <= y
<1>1. PICK x \in S : \A y \in S : ~ (<<y, x>> \in OpToRel(<, Nat))
  BY NatLessThanWellFounded, WFMin
<1>2. \A y \in S : ~ (y < x)
  BY <1>1 DEF OpToRel
<1> QED BY <1>2

(* Max is what its name says of a set of integers with a bound.            *)
LEMMA MaxIs ==
  ASSUME NEW S \in SUBSET Int, S # {}, NEW b \in Int, \A x \in S : x <= b
  PROVE  Max(S) \in S /\ \A x \in S : x <= Max(S)
<1> DEFINE D == {b - x : x \in S}
<1>1. \A x \in S : b - x \in Nat
  OBVIOUS
<1>2. D \in SUBSET Nat /\ D # {}
  BY <1>1
<1>3. PICK d \in D : \A y \in D : d <= y
  BY <1>2, LeastNat
<1>4. PICK x \in S : d = b - x
  BY <1>3
<1>5. \A y \in S : x >= y
  BY <1>3, <1>4
<1> QED BY <1>5 DEF Max

(* The smaller of two integers.                                            *)
LEMMA MinOfTwo ==
  ASSUME NEW a \in Int, NEW b \in Int
  PROVE  Min({a, b}) = IF a <= b THEN a ELSE b
BY DEF Min

(* The greater of two.                                                     *)
LEMMA MaxOfTwo ==
  ASSUME NEW a \in Int, NEW b \in Int
  PROVE  Max({a, b}) = IF a >= b THEN a ELSE b
BY DEF Max

(* The starts up to an entry have a bound.                                 *)
LEMMA PrefixBound ==
  ASSUME NEW n \in Nat, NEW start \in [0..n -> Int], NEW j \in 0..n
  PROVE  \E b \in Int : \A i \in 0..j : start[i] <= b
<1> DEFINE Bounded(k) == \E b \in Int : \A i \in 0..k : start[i] <= b
           S == {k \in 0..n : ~Bounded(k)}
<1>1. SUFFICES ASSUME S # {} PROVE FALSE
  OBVIOUS
<1>2. S \in SUBSET Nat
  OBVIOUS
<1>3. PICK k \in S : \A y \in S : k <= y
  BY <1>1, <1>2, LeastNat
<1>4. k # 0
  <2>1. start[0] \in Int /\ \A i \in 0..0 : start[i] <= start[0]
    OBVIOUS
  <2>2. Bounded(0)
    BY <2>1
  <2> QED BY <2>2
<1> HIDE DEF Bounded
<1>5. k - 1 \in 0..n /\ Bounded(k - 1)
  <2>1. k \in Nat /\ k <= n /\ k - 1 \in 0..n
    BY <1>3, <1>4
  <2>2. k - 1 \notin S
    BY <1>3, <2>1
  <2> QED BY <2>1, <2>2
<1> USE DEF Bounded
<1>6. PICK b \in Int : \A i \in 0..(k - 1) : start[i] <= b
  BY <1>5
<1>7. PICK c \in Int : c >= b /\ c >= start[k]
  <2>1. start[k] \in Int
    OBVIOUS
  <2> QED BY <2>1, <1>6
<1>8. \A i \in 0..k : start[i] <= c
  BY <1>6, <1>7
<1>9. Bounded(k)
  BY <1>8
<1> QED BY <1>9

-----------------------------------------------------------------------------
(* The table.                                                              *)

Ordered(t) == \A i, j \in 0..t.tracks : i <= j => t.start[i] <= t.start[j]

(* Raising every start to the earlier ones puts them in order.             *)
LEMMA RaiseOrders ==
  ASSUME NEW t, IsTable(t), NEW start \in [0..t.tracks -> Int]
  PROVE  LET r == RaiseToEarlier(t, start) IN
         /\ r \in [0..t.tracks -> Int]
         /\ \A i, j \in 0..t.tracks : i <= j => r[i] <= r[j]
<1> DEFINE Upto(j) == {start[i] : i \in 0..j}
<1>0. t.tracks \in Nat
  BY DEF IsTable
<1>1. \A j \in 0..t.tracks : Max(Upto(j)) \in Upto(j) /\ \A x \in Upto(j) : x <= Max(Upto(j))
  <2> TAKE j \in 0..t.tracks
  <2>1. PICK b \in Int : \A i \in 0..j : start[i] <= b
    BY <1>0, PrefixBound
  <2>2. Upto(j) \in SUBSET Int
    BY <1>0
  <2>3. Upto(j) # {} /\ \A x \in Upto(j) : x <= b
    BY <2>1, <1>0
  <2> QED BY <2>2, <2>3, MaxIs
<1>2. \A i, j \in 0..t.tracks : i <= j => Upto(i) \subseteq Upto(j)
  BY <1>0
<1>3. \A j \in 0..t.tracks : Upto(j) \subseteq Int
  BY <1>0
<1> HIDE DEF Upto
<1>4. \A j \in 0..t.tracks : Max(Upto(j)) \in Int
  BY <1>1, <1>3
<1>5. \A i, j \in 0..t.tracks : i <= j => Max(Upto(i)) <= Max(Upto(j))
  BY <1>1, <1>2
<1>6. RaiseToEarlier(t, start) = [j \in 0..t.tracks |-> Max(Upto(j))]
  BY DEF RaiseToEarlier, Upto
<1> QED BY <1>4, <1>5, <1>6

(* Ending the first session keeps them in order.                           *)
LEMMA EndOrders ==
  ASSUME NEW t, IsTable(t), NEW start \in [0..t.tracks -> Int], NEW lba \in Int,
         \A i, j \in 0..t.tracks : i <= j => start[i] <= start[j]
  PROVE  LET r == EndFirstSession(t, start, lba) IN
         /\ r \in [0..t.tracks -> Int]
         /\ \A i, j \in 0..t.tracks : i <= j => r[i] <= r[j]
<1> DEFINE turns == {j \in 1..t.tracks : ~t.audio[j] /\ t.audio[j - 1]}
           k     == Max(turns)
           end   == lba - SessionGap
<1>0. t.tracks \in Nat
  BY DEF IsTable
<1>1. CASE lba > 100 /\ turns # {} /\ start[k] > end /\ end > start[k - 1]
  <2>1. turns \in SUBSET Int /\ \A x \in turns : x <= t.tracks
    BY <1>0
  <2>6. turns # {} /\ t.tracks \in Int
    BY <1>0, <1>1
  <2> HIDE DEF turns, k, end
  <2>2. Max(turns) \in turns
    BY <2>1, <2>6, MaxIs
  <2> USE DEF turns, k, end
  <2>3. k \in 1..t.tracks
    BY <2>2
  <2>4. EndFirstSession(t, start, lba) = [start EXCEPT ![k] = end]
    BY <1>1 DEF EndFirstSession
  <2>5. end \in Int
    BY DEF SessionGap
  <2> HIDE DEF turns, k, end
  <2> QED BY <1>0, <1>1, <2>3, <2>4, <2>5
<1>2. CASE ~(lba > 100 /\ turns # {} /\ start[k] > end /\ end > start[k - 1])
  <2>1. EndFirstSession(t, start, lba) = start
    BY <1>2 DEF EndFirstSession
  <2> QED BY <2>1
<1> QED BY <1>1, <1>2

(* A table with other starts is a table.                                   *)
LEMMA TableWith ==
  ASSUME NEW t, IsTable(t), NEW start \in [0..t.tracks -> Int]
  PROVE  LET r == [t EXCEPT !.start = start] IN
         IsTable(r) /\ r.tracks = t.tracks /\ r.start = start /\ r.audio = t.audio
BY DEF IsTable

(* The repaired table is in order, however wild the drive's is.            *)
LEMMA FixupOrders ==
  ASSUME NEW t, IsTable(t), NEW lba \in Int
  PROVE  LET r == FixupTOC(t, lba) IN
         IsTable(r) /\ Ordered(r) /\ r.tracks = t.tracks /\ r.audio = t.audio
<1> DEFINE zeroed == ZeroWildStarts(t)
           raised == RaiseToEarlier(t, zeroed)
           ended  == EndFirstSession(t, raised, lba)
<1>1. zeroed \in [0..t.tracks -> Int]
  BY DEF IsTable, ZeroWildStarts
<1>2. raised \in [0..t.tracks -> Int] /\ \A i, j \in 0..t.tracks : i <= j => raised[i] <= raised[j]
  BY <1>1, RaiseOrders
<1>3. ended \in [0..t.tracks -> Int] /\ \A i, j \in 0..t.tracks : i <= j => ended[i] <= ended[j]
  BY <1>2, EndOrders
<1>4. FixupTOC(t, lba) = [t EXCEPT !.start = ended]
  BY DEF FixupTOC
<1> HIDE DEF ended
<1> QED BY <1>3, <1>4, TableWith DEF Ordered

(* A shifted table is in the same order.                                   *)
LEMMA ShiftOrders ==
  ASSUME NEW t, IsTable(t), Ordered(t), NEW sectors \in Int
  PROVE  LET r == Shifted(t, sectors) IN
         /\ IsTable(r) /\ Ordered(r) /\ r.tracks = t.tracks /\ r.audio = t.audio
         /\ \A j \in 0..t.tracks : r.start[j] = t.start[j] + sectors
<1> DEFINE start == [j \in 0..t.tracks |-> t.start[j] + sectors]
<1>1. start \in [0..t.tracks -> Int]
  BY DEF IsTable
<1>2. \A i, j \in 0..t.tracks : i <= j => start[i] <= start[j]
  BY DEF IsTable, Ordered
<1>3. \A j \in 0..t.tracks : start[j] = t.start[j] + sectors
  OBVIOUS
<1>4. Shifted(t, sectors) = [t EXCEPT !.start = start]
  BY DEF Shifted
<1> HIDE DEF start
<1> QED BY <1>1, <1>2, <1>3, <1>4, TableWith DEF Ordered

(* So is one whose lead-out is a sector further.                           *)
LEMMA LeadOutOrders ==
  ASSUME NEW t, IsTable(t), Ordered(t)
  PROVE  LET r == [t EXCEPT !.start = [t.start EXCEPT ![t.tracks] = @ + 1]] IN
         /\ IsTable(r) /\ Ordered(r) /\ r.tracks = t.tracks /\ r.audio = t.audio
         /\ r.start = [t.start EXCEPT ![t.tracks] = @ + 1]
<1> DEFINE start == [t.start EXCEPT ![t.tracks] = @ + 1]
<1>1. t.tracks \in Nat /\ t.start \in [0..t.tracks -> Int]
  BY DEF IsTable
<1>2. start \in [0..t.tracks -> Int]
  BY <1>1
<1>3. \A i, j \in 0..t.tracks : i <= j => start[i] <= start[j]
  BY <1>1 DEF Ordered
<1> HIDE DEF start
<1>4. LET r == [t EXCEPT !.start = start] IN
         IsTable(r) /\ Ordered(r) /\ r.tracks = t.tracks /\ r.audio = t.audio /\ r.start = start
  BY <1>2, <1>3, TableWith DEF Ordered
<1> QED BY <1>4 DEF start

(* Of an ordered table, a sector before the lead-out is in one track.      *)
LEMMA OneTrack ==
  ASSUME NEW t, IsTable(t), Ordered(t),
         NEW s \in Int, t.start[0] <= s, s < t.start[t.tracks]
  PROVE  LET n == cdda_sector_gettrack(t, s) IN
         /\ n \in 1..t.tracks
         /\ {k \in 1..t.tracks : t.start[k - 1] <= s /\ s < t.start[k]} = {n}
<1> DEFINE holding == {k \in 1..t.tracks : t.start[k - 1] <= s /\ s < t.start[k]}
           S == {k \in 0..t.tracks : s < t.start[k]}
<1>0. t.tracks \in Nat /\ t.start \in [0..t.tracks -> Int]
  BY DEF IsTable
<1>1. S \in SUBSET Nat /\ S # {}
  BY <1>0
<1>2. PICK n \in S : \A y \in S : n <= y
  BY <1>1, LeastNat
<1>3. n \in 1..t.tracks
  BY <1>0, <1>2
<1>4. n - 1 \in 0..t.tracks /\ n - 1 \notin S
  BY <1>0, <1>2, <1>3
<1>5. n \in holding
  BY <1>0, <1>2, <1>3, <1>4
<1>6. \A k \in holding : k = n
  <2> SUFFICES ASSUME NEW k \in holding PROVE k = n
    OBVIOUS
  <2>1. k \in S
    BY <1>0
  <2>2. n <= k
    BY <1>2, <2>1
  <2>3. CASE n < k
    <3>1. k - 1 \in 0..t.tracks /\ n \in 0..t.tracks /\ n <= k - 1
      BY <1>0, <1>3, <2>3
    <3>2. t.start[n] <= t.start[k - 1]
      BY <3>1 DEF Ordered
    <3>3. t.start[n] \in Int /\ t.start[k - 1] \in Int
      BY <1>0, <3>1
    <3> QED BY <1>5, <3>2, <3>3
  <2> QED BY <1>0, <1>3, <2>2, <2>3
<1>7. holding = {n}
  BY <1>5, <1>6
<1>8. Min({n}) = n
  BY <1>3 DEF Min
<1>9. cdda_sector_gettrack(t, s) = Min(holding)
  <2>1. ~(s < t.start[0]) /\ holding # {}
    BY <1>0, <1>7
  <2> QED BY <2>1 DEF cdda_sector_gettrack
<1> HIDE DEF holding
<1>10. cdda_sector_gettrack(t, s) = n
  BY <1>7, <1>8, <1>9
<1> QED BY <1>3, <1>7, <1>10 DEF holding

(* The ends of a listed track.                                             *)
LEMMA TrackEnds ==
  ASSUME NEW t, IsTable(t), NEW n \in 1..t.tracks
  PROVE  /\ cdda_track_firstsector(t, n) = t.start[n - 1]
         /\ cdda_track_lastsector(t, n) = t.start[n] - 1
         /\ t.start[n - 1] \in Int /\ t.start[n] \in Int
BY DEF IsTable, cdda_track_firstsector, cdda_track_lastsector, Listed

(* Every answer about a track is a sector number, or an error code.        *)
LEMMA SectorsAre ==
  ASSUME NEW t, IsTable(t), NEW n
  PROVE  /\ cdda_track_firstsector(t, n) \in Int
         /\ cdda_track_lastsector(t, n) \in Int
         /\ cdda_disc_firstsector(t) \in Int
         /\ cdda_disc_lastsector(t) \in Int
<1>0. t.tracks \in Nat /\ t.start \in [0..t.tracks -> Int]
  BY DEF IsTable
<1>1. \A m : cdda_track_firstsector(t, m) \in Int
  BY <1>0 DEF cdda_track_firstsector, Listed, BadTrack
<1>2. \A m : cdda_track_lastsector(t, m) \in Int
  BY <1>0 DEF cdda_track_lastsector, Listed, BadTrack
<1>3. cdda_disc_firstsector(t) \in Int
  BY <1>1 DEF cdda_disc_firstsector, NoAudio
<1>4. cdda_disc_lastsector(t) \in Int
  BY <1>2 DEF cdda_disc_lastsector, NoAudio
<1> QED BY <1>1, <1>2, <1>3, <1>4

(* A sector is in a track, before the first one, or in none.               *)
LEMMA TrackIs ==
  ASSUME NEW t, IsTable(t), Ordered(t), NEW s \in Int
  PROVE  cdda_sector_gettrack(t, s) \in {BadTrack} \cup 0..t.tracks
<1>0. t.tracks \in Nat /\ t.start \in [0..t.tracks -> Int]
  BY DEF IsTable
<1>1. CASE s < t.start[0]
  BY <1>0, <1>1 DEF cdda_sector_gettrack
<1>2. CASE s >= t.start[t.tracks] /\ ~(s < t.start[0])
  <2>1. {n \in 1..t.tracks : t.start[n - 1] <= s /\ s < t.start[n]} = {}
    <3> SUFFICES ASSUME NEW n \in 1..t.tracks, s < t.start[n] PROVE FALSE
      OBVIOUS
    <3>1. t.start[n] <= t.start[t.tracks]
      BY <1>0 DEF Ordered
    <3>2. t.start[n] \in Int /\ t.start[t.tracks] \in Int
      BY <1>0
    <3> QED BY <1>2, <3>1, <3>2
  <2> QED BY <1>2, <2>1 DEF cdda_sector_gettrack
<1>3. CASE s < t.start[t.tracks] /\ ~(s < t.start[0])
  <2>1. t.start[0] \in Int
    BY <1>0
  <2>2. t.start[0] <= s
    BY <1>3, <2>1
  <2> QED BY <1>0, <1>3, <2>2, OneTrack
<1>4. t.start[0] \in Int /\ t.start[t.tracks] \in Int
  BY <1>0
<1> QED BY <1>1, <1>2, <1>3, <1>4

-----------------------------------------------------------------------------
(* The types, and what the steps keep of them.                             *)

Sample == Int \cup {Padding}
File   == [state : {"absent", "open", "kept", "removed"}, claim : Int,
           data : Seq(Sample), marks : SUBSET Events]

TocInv ==
  /\ opt \in Options /\ disc \in Discs
  /\ IsTable(toc) /\ toc.tracks = disc.toc.tracks
  /\ pc \notin {"start", "exit"} => Ordered(toc)

NumInv ==
  /\ first_sector \in Int /\ last_sector \in Int /\ cursor \in Int
  /\ reader \in [cursor : Int, last : Int]
  /\ batch_first \in Int /\ batch_last \in Int /\ batch_track \in Int

OffsetInv ==
  /\ IF pc \in {"start", "open", "exit"} THEN sample_offset \in Int
                                         ELSE sample_offset \in 0..(Samples - 1)
  /\ offset_buffer_used \in 0..(Samples - 1)
  /\ offset_skip \in 0..(Samples - 1)
  /\ offset_buffer_used # 0 => offset_buffer \in [1..Samples -> Sample]

FileInv == files \in [Names -> File]

FlagInv == skipped_flag \in BOOLEAN /\ medium \in BOOLEAN

TypeInv == TocInv /\ NumInv /\ OffsetInv /\ FileInv /\ FlagInv

(* What is known of the discs and the command lines.                       *)
LEMMA Given ==
  ASSUME opt \in Options, disc \in Discs
  PROVE  /\ IsTable(disc.toc) /\ disc.lba \in Int
         /\ opt.sample \in Int /\ opt.toc \in Int /\ opt.span \in Seq(End)
         /\ opt.bias \in BOOLEAN /\ opt.batch \in BOOLEAN /\ opt.abort \in BOOLEAN
         /\ opt.shown \in BOOLEAN
BY RipAssumption DEF Line

(* The steps that read and write leave the set-up alone.                   *)
Rips ==
  /\ pc \in {"loop", "reading", "shifting", "closing"} /\ UNCHANGED setup
  /\ pc' \in {"loop", "reading", "shifting", "closing", "done", "exit"}
\* Every step is one of setting up or one of the rip itself.
LEMMA Quiet ==
  ASSUME Next
  PROVE  Usage \/ OpenDisc \/ BiasDisc \/ ParseSpan \/ StartRip \/ Rips
<1>1. ASSUME NEW o, NEW w, OpenFile(o, w) PROVE Rips
  BY <1>1 DEF OpenFile, Rips
<1>2. ASSUME NEW e, NEW w, ReadSector(e, w) PROVE Rips
  BY <1>2 DEF ReadSector, Rips
<1>3. ASSUME NEW e, NEW w, ReadShift(e, w) PROVE Rips
  BY <1>3 DEF ReadShift, Rips
<1>4. ASSUME NEW k, ReadFails(k) PROVE Rips
  BY <1>4 DEF ReadFails, Rips
<1>5. ShiftFails => Rips
  BY DEF ShiftFails, Rips
<1>6. CloseFile => Rips
  BY DEF CloseFile, Rips
<1>7. Done => Rips
  BY DEF Done, Rips
<1> QED BY <1>1, <1>2, <1>3, <1>4, <1>5, <1>6, <1>7 DEF Next

(* The table is one, and in order from the moment it is repaired.          *)
LEMMA StepToc == TocInv /\ [Next]_vars => TocInv'
<1> SUFFICES ASSUME TocInv, [Next]_vars PROVE TocInv'
  OBVIOUS
<1>0. IsTable(toc) /\ (pc \notin {"start", "exit"} => Ordered(toc))
  BY DEF TocInv
<1>1. CASE Usage
  BY <1>0, <1>1 DEF Usage, TocInv
<1>7. CASE OpenDisc
  <2>1. IsTable(disc.toc) /\ disc.lba \in Int
    BY Given DEF TocInv
  <2>2. IsTable(toc') /\ Ordered(toc') /\ toc'.tracks = disc.toc.tracks
    BY <1>7, <2>1, FixupOrders DEF OpenDisc
  <2>3. UNCHANGED <<opt, disc>>
    BY <1>7 DEF OpenDisc
  <2> QED BY <2>2, <2>3 DEF TocInv
<1>2. CASE BiasDisc
  <2>1. PICK shift \in Int : toc' = Shifted(toc, shift)
    <3>1. opt.toc \in Int /\ opt.sample \in Int
      BY Given DEF TocInv
    <3>2. opt.sample \div Samples \in Int
      BY <3>1, RipAssumption
    <3>3. cdda_track_firstsector(toc, 1) \in Int
      BY <1>0, SectorsAre
    <3> QED BY <1>2, <3>1, <3>2, <3>3 DEF BiasDisc
  <2>2. pc \notin {"start", "exit"} /\ UNCHANGED <<opt, disc>>
    BY <1>2 DEF BiasDisc
  <2>3. IsTable(toc') /\ Ordered(toc') /\ toc'.tracks = toc.tracks
    BY <1>0, <2>1, <2>2, ShiftOrders
  <2> QED BY <2>2, <2>3 DEF TocInv
<1>3. CASE ParseSpan
  BY <1>3 DEF ParseSpan, TocInv
<1>4. CASE StartRip
  <2>1. pc \notin {"start", "exit"} /\ UNCHANGED <<opt, disc>>
    BY <1>4 DEF StartRip
  <2>2. toc' = toc \/ toc' = [toc EXCEPT !.start = [toc.start EXCEPT ![toc.tracks] = @ + 1]]
    BY <1>4 DEF StartRip
  <2>3. IsTable(toc') /\ Ordered(toc') /\ toc'.tracks = toc.tracks
    BY <1>0, <2>1, <2>2, LeadOutOrders
  <2> QED BY <2>1, <2>3 DEF TocInv
<1>5. CASE Rips
  <2>1. pc \notin {"start", "exit"} /\ UNCHANGED setup
    BY <1>5 DEF Rips
  <2> QED BY <2>1 DEF setup, TocInv
<1>6. CASE UNCHANGED vars
  BY <1>6 DEF vars, setup, TocInv
<1> QED BY <1>1, <1>7, <1>2, <1>3, <1>4, <1>5, <1>6, Quiet

(* The beginning of every run.                                             *)
LEMMA InitTypes == Init => TypeInv
<1> SUFFICES ASSUME Init PROVE TypeInv
  OBVIOUS
<1>1. opt.sample \in Int /\ IsTable(disc.toc) /\ Samples \in Nat \ {0}
  BY Given, RipAssumption DEF Init
<1>2. TocInv
  BY <1>1 DEF Init, TocInv
<1>3. NumInv
  BY DEF Init, NumInv, NoTrack
<1>4. OffsetInv
  BY <1>1 DEF Init, OffsetInv
<1>5. FileInv
  <2>1. NoFile \in File
    BY DEF NoFile, File
  <2> QED BY <2>1 DEF Init, FileInv
<1>6. FlagInv
  BY DEF Init, FlagInv
<1> QED BY <1>2, <1>3, <1>4, <1>5, <1>6 DEF TypeInv

(* A sector's number is an integer when read from the table.               *)
LEMMA ParseIs ==
  ASSUME TocInv, NEW begin \in Int, NEW end \in End
  PROVE  parse_offset(end, begin) \in Int
<1>1. end.track \in Int /\ end.sector \in Int
  BY DEF End
<1>2. IsTable(toc)
  BY DEF TocInv
<1>3. \A n : cdda_track_firstsector(toc, n) \in Int /\ cdda_track_lastsector(toc, n) \in Int
             /\ cdda_disc_firstsector(toc) \in Int
  BY <1>2, SectorsAre
<1> QED BY <1>1, <1>3 DEF parse_offset, Exits

(* Numbers stay numbers.                                                   *)
LEMMA StepNum == TocInv /\ NumInv /\ [Next]_vars => NumInv'
<1> SUFFICES ASSUME TocInv, NumInv, [Next]_vars PROVE NumInv'
  OBVIOUS
<1>0. IsTable(toc) /\ \A n : /\ cdda_track_firstsector(toc, n) \in Int
                             /\ cdda_track_lastsector(toc, n) \in Int
                             /\ cdda_disc_firstsector(toc) \in Int
                             /\ cdda_disc_lastsector(toc) \in Int
  BY SectorsAre DEF TocInv
<1>1. \A c \in Int : SeekTo(toc, c) \in [cursor : Int, last : Int]
  BY <1>0 DEF SeekTo, LastReadable
<1>2. CASE Usage \/ OpenDisc \/ BiasDisc
  BY <1>2 DEF Usage, OpenDisc, BiasDisc, piece, NumInv
<1>3. CASE ParseSpan
  <2>1. SpanFirst \in Int /\ SpanLast \in Int
    <3>1. opt.span \in Seq(End)
      BY Given DEF TocInv
    <3>2. SpanFirst \in Int
      <4>1. CASE opt.span = <<>>
        BY <4>1 DEF SpanFirst
      <4>2. CASE opt.span # <<>>
        BY <3>1, <4>2, ParseIs DEF SpanFirst
      <4> QED BY <4>1, <4>2
    <3>3. SpanLast \in Int
      <4>1. CASE Len(opt.span) < 2
        BY <4>1 DEF SpanLast
      <4>2. CASE ~(Len(opt.span) < 2)
        <5>1. opt.span[2] \in End
          BY <3>1, <4>2
        <5>2. \A b \in Int : parse_offset(opt.span[2], b) \in Int
          BY <5>1, ParseIs
        <5> QED BY <1>0, <3>2, <4>2, <5>2 DEF SpanLast
      <4> QED BY <4>1, <4>2
    <3> QED BY <3>2, <3>3
  <2>2. first_sector' \in Int /\ last_sector' \in Int
    BY <1>0, <1>3, <2>1 DEF ParseSpan, NumInv
  <2>3. UNCHANGED <<cursor, reader, piece>>
    BY <1>3 DEF ParseSpan
  <2> QED BY <2>2, <2>3 DEF NumInv, piece
<1>4. CASE StartRip
  BY <1>1, <1>4 DEF StartRip, piece, NumInv
<1>5. ASSUME NEW o \in BOOLEAN, NEW w \in BOOLEAN, OpenFile(o, w) PROVE NumInv'
  <2>1. NextPiece.first \in Int /\ NextPiece.last \in Int /\ NextPiece.track \in Int
    <3>1. pc \notin {"start", "exit"} /\ Ordered(toc)
      BY <1>5 DEF OpenFile, TocInv
    <3>2. cdda_sector_gettrack(toc, cursor) \in Int
      BY <1>0, <3>1, TrackIs DEF NumInv, BadTrack, IsTable
    <3>3. \A n : PieceEnd(n) \in Int
      BY <1>0, MinOfTwo DEF PieceEnd, NumInv
    <3>4. CASE opt.batch
      BY <3>2, <3>3, <3>4 DEF NextPiece, NumInv
    <3>5. CASE ~opt.batch
      BY <3>5 DEF NextPiece, NumInv, NoTrack
    <3> QED BY <3>4, <3>5
  <2>2. batch_first' = NextPiece.first /\ batch_last' = NextPiece.last /\ batch_track' = NextPiece.track
    BY <1>5 DEF OpenFile
  <2>3. cursor' = cursor \/ cursor' = cursor + 1
    BY <1>5 DEF OpenFile
  <2>4. UNCHANGED <<first_sector, last_sector, reader>>
    BY <1>5 DEF OpenFile, setup
  <2> QED BY <2>1, <2>2, <2>3, <2>4 DEF NumInv
<1>6. ASSUME NEW e \in Events, NEW w \in BOOLEAN, ReadSector(e, w) PROVE NumInv'
  <2>1. UNCHANGED <<first_sector, last_sector, piece>>
    BY <1>6 DEF ReadSector, setup
  <2>2. cursor' = batch_last + 1 \/ cursor' = cursor + 1
    BY <1>6 DEF ReadSector
  <2>3. reader' = [reader EXCEPT !.cursor = @ + 1]
    BY <1>6 DEF ReadSector
  <2> QED BY <2>1, <2>2, <2>3 DEF NumInv, piece
<1>7. ASSUME NEW e \in Events, NEW w \in BOOLEAN, ReadShift(e, w) PROVE NumInv'
  <2>1. UNCHANGED <<first_sector, last_sector, piece, cursor>>
    BY <1>7 DEF ReadShift, setup
  <2>2. reader' = [reader EXCEPT !.cursor = @ + 1]
    BY <1>7 DEF ReadShift
  <2> QED BY <2>1, <2>2 DEF NumInv, piece
<1>8. ASSUME NEW k \in BOOLEAN, ReadFails(k) \/ ShiftFails \/ Done PROVE NumInv'
  BY <1>8 DEF ReadFails, ShiftFails, Done, setup, piece, NumInv
<1>9. CASE CloseFile
  <2>1. UNCHANGED <<first_sector, last_sector, batch_first, batch_last>>
    BY <1>9 DEF CloseFile, setup
  <2>2. \/ UNCHANGED <<cursor, reader, batch_track>>
        \/ /\ cursor' = cdda_track_firstsector(toc, batch_track + 1)
           /\ reader' = SeekTo(toc, cursor')
           /\ batch_track' = batch_track + 1
    BY <1>9 DEF CloseFile, StartAfresh
  <2> QED BY <1>0, <1>1, <2>1, <2>2 DEF NumInv
<1>10. CASE UNCHANGED vars
  BY <1>10 DEF vars, setup, piece, NumInv
<1> QED BY <1>2, <1>3, <1>4, <1>5, <1>6, <1>7, <1>8, <1>9, <1>10 DEF Next

(* The samples of a sector.                                                *)
LEMMA SectorIs ==
  ASSUME NumInv, NEW c \in Int
  PROVE  SectorAt(c) \in [1..Samples -> Sample] /\ SectorAt(c) \in Seq(Sample)
         /\ Len(SectorAt(c)) = Samples
<1>1. Samples \in Nat
  BY RipAssumption
<1>2. \A i \in 1..Samples : c * Samples + i - 1 \in Int
  BY <1>1
<1>3. SectorAt(c) \in [1..Samples -> Sample]
  BY <1>2 DEF SectorAt, Sample
<1> QED BY <1>1, <1>3

(* The offsets stay within a sector.                                       *)
LEMMA StepOffset == NumInv /\ TocInv /\ OffsetInv /\ [Next]_vars => OffsetInv'
<1> SUFFICES ASSUME NumInv, TocInv, OffsetInv, [Next]_vars PROVE OffsetInv'
  OBVIOUS
<1>0. Samples \in Nat \ {0}
  BY RipAssumption
<1>1. CASE Usage \/ OpenDisc
  <2>1. pc = "start" /\ pc' \in {"exit", "open"} /\ UNCHANGED <<sample_offset, offsets>>
    BY <1>1 DEF Usage, OpenDisc
  <2> QED BY <2>1 DEF offsets, OffsetInv
<1>2. CASE BiasDisc
  <2>1. opt.sample \in Int
    BY Given DEF TocInv
  <2>2. opt.sample % Samples \in 0..(Samples - 1)
    BY <1>0, <2>1
  <2> QED BY <1>2, <2>2 DEF BiasDisc, offsets, OffsetInv
<1>3. CASE ParseSpan
  BY <1>3 DEF ParseSpan, offsets, OffsetInv
<1>4. CASE StartRip
  <2>1. pc = "parsed" /\ pc' = "loop" /\ offset_skip' = sample_offset
        /\ UNCHANGED <<sample_offset, offset_buffer, offset_buffer_used>>
    BY <1>4 DEF StartRip
  <2>2. sample_offset \in 0..(Samples - 1) /\ sample_offset' \in 0..(Samples - 1)
    BY <2>1 DEF OffsetInv
  <2>3. pc' \notin {"start", "open", "exit"}
    BY <2>1
  <2>4. offset_buffer_used' \in 0..(Samples - 1)
        /\ (offset_buffer_used' # 0 => offset_buffer' \in [1..Samples -> Sample])
    BY <2>1 DEF OffsetInv
  <2> QED BY <2>1, <2>2, <2>3, <2>4 DEF OffsetInv
<1>5. ASSUME NEW o \in BOOLEAN, NEW w \in BOOLEAN, OpenFile(o, w) PROVE OffsetInv'
  BY <1>5 DEF OpenFile, setup, offsets, OffsetInv
<1>6. ASSUME NEW e \in Events, NEW w \in BOOLEAN, ReadSector(e, w) PROVE OffsetInv'
  BY <1>0, <1>6 DEF ReadSector, setup, offsets, OffsetInv
<1>7. ASSUME NEW e \in Events, NEW w \in BOOLEAN, ReadShift(e, w) PROVE OffsetInv'
  <2>1. SectorAt(reader.cursor) \in [1..Samples -> Sample]
    BY SectorIs DEF NumInv
  <2>2. UNCHANGED <<sample_offset, offset_skip>> /\ pc = "shifting" /\ pc' \in {"closing", "exit"}
    BY <1>7 DEF ReadShift, setup
  <2>3. \/ UNCHANGED <<offset_buffer, offset_buffer_used>>
        \/ offset_buffer' = SectorAt(reader.cursor) /\ offset_buffer_used' = sample_offset
    BY <1>7 DEF ReadShift
  <2> QED BY <2>1, <2>2, <2>3 DEF OffsetInv
<1>8. ASSUME NEW k \in BOOLEAN, ReadFails(k) \/ ShiftFails \/ Done PROVE OffsetInv'
  BY <1>8 DEF ReadFails, ShiftFails, Done, setup, offsets, OffsetInv
<1>9. CASE CloseFile
  BY <1>0, <1>9 DEF CloseFile, StartAfresh, setup, offsets, OffsetInv
<1>10. CASE UNCHANGED vars
  BY <1>10 DEF vars, setup, offsets, OffsetInv
<1> QED BY <1>1, <1>2, <1>3, <1>4, <1>5, <1>6, <1>7, <1>8, <1>9, <1>10 DEF Next

(* What a stored sector makes of the files.                                *)
LEMMA StoreIs ==
  ASSUME FileInv, NEW data \in Seq(Sample), NEW e \in Events
  PROVE  /\ Store(data, e) \in [Names -> File]
         /\ \A n \in Names : LET f == Store(data, e)[n] IN
              /\ f.state = files[n].state /\ f.claim = files[n].claim
              /\ f.data = IF n = batch_track THEN files[n].data \o data ELSE files[n].data
              /\ f.marks = IF n = batch_track THEN files[n].marks \cup ({e} \ {"none"})
                                              ELSE files[n].marks
<1> DEFINE New(n) == [files[n] EXCEPT !.data = @ \o data, !.marks = @ \cup ({e} \ {"none"})]
<1>1. Store(data, e) = [n \in Names |-> IF n = batch_track THEN New(n) ELSE files[n]]
  BY DEF Store, FileInv
<1>2. \A n \in Names : files[n] \in File
  BY DEF FileInv
<1>3. \A n \in Names : files[n].data \o data \in Seq(Sample)
  <2> TAKE n \in Names
  <2>1. files[n].data \in Seq(Sample)
    BY <1>2 DEF File
  <2> QED BY <2>1, ConcatProperties
<1>4. \A n \in Names : files[n].marks \cup ({e} \ {"none"}) \in SUBSET Events
  BY <1>2 DEF File
<1>5. \A n \in Names : /\ New(n) \in File
                       /\ New(n).state = files[n].state /\ New(n).claim = files[n].claim
                       /\ New(n).data = files[n].data \o data
                       /\ New(n).marks = files[n].marks \cup ({e} \ {"none"})
  BY <1>2, <1>3, <1>4 DEF File
<1> HIDE DEF New
<1>6. Store(data, e) \in [Names -> File]
  BY <1>1, <1>2, <1>5
<1>7. \A n \in Names : Store(data, e)[n] = IF n = batch_track THEN New(n) ELSE files[n]
  BY <1>1
<1> QED BY <1>5, <1>6, <1>7

(* The part of a sector that a file gets.                                  *)
LEMMA PartIs ==
  ASSUME NEW s \in [1..Samples -> Sample], NEW m \in 0..Samples, NEW n \in m..Samples
  PROVE  /\ SubSeq(s, m + 1, n) \in Seq(Sample)
         /\ Len(SubSeq(s, m + 1, n)) = n - m
         /\ \A i \in 1..(n - m) : SubSeq(s, m + 1, n)[i] = s[m + i]
<1>1. Samples \in Nat
  BY RipAssumption
<1>2. m + 1 \in Int /\ n \in Int /\ \A i \in (m + 1)..n : s[i] \in Sample
  BY <1>1
<1>3. /\ SubSeq(s, m + 1, n) \in Seq(Sample)
      /\ Len(SubSeq(s, m + 1, n)) = IF m + 1 <= n THEN n - (m + 1) + 1 ELSE 0
      /\ \A i \in 1..(n - (m + 1) + 1) : SubSeq(s, m + 1, n)[i] = s[(m + 1) + i - 1]
  BY <1>2, SubSeqProperties
<1>4. Len(SubSeq(s, m + 1, n)) = n - m
  BY <1>1, <1>3
<1>5. \A i \in 1..(n - m) : SubSeq(s, m + 1, n)[i] = s[m + i]
  <2> TAKE i \in 1..(n - m)
  <2>1. i \in 1..(n - (m + 1) + 1) /\ (m + 1) + i - 1 = m + i
    BY <1>1
  <2> QED BY <1>3, <2>1
<1> QED BY <1>3, <1>4, <1>5

(* What is left of the sector that is kept for the next file.              *)
Rest == IF offset_buffer_used # 0 THEN SubSeq(offset_buffer, offset_buffer_used + 1, Samples)
                                  ELSE <<>>
\* The part of a shared sector that is still to be written.
LEMMA RestIs ==
  ASSUME OffsetInv
  PROVE  /\ Rest \in Seq(Sample)
         /\ offset_buffer_used # 0 => Len(Rest) = Samples - offset_buffer_used
<1>1. Samples \in Nat \ {0}
  BY RipAssumption
<1>2. CASE offset_buffer_used = 0
  BY <1>2 DEF Rest
<1>3. CASE offset_buffer_used # 0
  <2>1. /\ offset_buffer \in [1..Samples -> Sample] /\ offset_buffer_used \in 0..Samples
        /\ Samples \in offset_buffer_used..Samples
    BY <1>1, <1>3 DEF OffsetInv
  <2> QED BY <1>3, <2>1, PartIs DEF Rest
<1> QED BY <1>2, <1>3

(* The file that is opened.                                                *)
NewFile == [state |-> "open", claim |-> (NextPiece.last - NextPiece.first + 1) * Samples,
            data |-> Rest, marks |-> {}]
\* What opening a file does, whether it succeeds or ends the rip.
LEMMA OpenIs ==
  ASSUME TypeInv, NEW o \in BOOLEAN, NEW w \in BOOLEAN, OpenFile(o, w)
  PROVE  /\ pc = "loop" /\ cursor <= last_sector
         /\ UNCHANGED <<setup, reader, offsets, medium>>
         /\ batch_first' = NextPiece.first /\ batch_last' = NextPiece.last
         /\ batch_track' = NextPiece.track
         /\ \/ /\ files' = [files EXCEPT ![batch_track'] = NewFile]
               /\ cursor' = IF offset_buffer_used # 0 THEN cursor + 1 ELSE cursor
               /\ skipped_flag' = FALSE
               /\ \/ pc' = "exit"
                  \/ pc' = "reading" /\ cursor' <= batch_last'
                  \/ pc' = "closing" /\ ~(cursor' <= batch_last')
            \/ pc' = "exit" /\ UNCHANGED <<files, cursor, skipped_flag>>
<1>1. pc = "loop" /\ cursor <= last_sector
      /\ UNCHANGED <<setup, reader, offsets, medium>>
      /\ batch_first' = NextPiece.first /\ batch_last' = NextPiece.last
      /\ batch_track' = NextPiece.track
  BY DEF OpenFile
<1>2. CASE ~o
  BY <1>1, <1>2 DEF OpenFile
<1>3. CASE o
  <2>1. files' = [files EXCEPT ![batch_track'] = NewFile]
    BY <1>3 DEF OpenFile, NewFile, Rest
  <2>2. cursor' = IF offset_buffer_used # 0 THEN cursor + 1 ELSE cursor
    BY <1>3 DEF OpenFile
  <2>3. skipped_flag' = FALSE
    BY <1>3 DEF OpenFile
  <2>4. pc' = IF ~w THEN "exit" ELSE IF cursor' <= batch_last' THEN "reading" ELSE "closing"
    BY <1>3 DEF OpenFile
  <2> QED BY <1>1, <2>1, <2>2, <2>3, <2>4
<1> QED BY <1>2, <1>3

(* The file is one.                                                        *)
LEMMA NewFileIs ==
  ASSUME NumInv', OffsetInv, NEW o \in BOOLEAN, NEW w \in BOOLEAN, OpenFile(o, w)
  PROVE  NewFile \in File
<1>1. NextPiece.first \in Int /\ NextPiece.last \in Int
  BY DEF OpenFile, NumInv
<1>2. (NextPiece.last - NextPiece.first + 1) * Samples \in Int
  BY <1>1, RipAssumption
<1>3. Rest \in Seq(Sample)
  BY RestIs
<1> QED BY <1>2, <1>3 DEF NewFile, File

(* The files stay files.                                                   *)
LEMMA StepFile == TypeInv /\ NumInv' /\ [Next]_vars => FileInv'
<1> SUFFICES ASSUME TypeInv, NumInv', [Next]_vars PROVE FileInv'
  OBVIOUS
<1>0. files \in [Names -> File] /\ NumInv /\ OffsetInv /\ FileInv
  BY DEF TypeInv, FileInv
<1>a. ASSUME files' \in [Names -> File], disc' = disc PROVE FileInv'
  BY <1>a DEF FileInv, Names
<1>1. CASE Usage \/ OpenDisc \/ BiasDisc \/ ParseSpan \/ StartRip
  BY <1>0, <1>1, <1>a DEF Usage, OpenDisc, BiasDisc, ParseSpan, StartRip
<1>2. ASSUME NEW o \in BOOLEAN, NEW w \in BOOLEAN, OpenFile(o, w) PROVE FileInv'
  <2>1. NewFile \in File
    BY <1>0, <1>2, NewFileIs
  <2>2. files' = files \/ files' = [files EXCEPT ![batch_track'] = NewFile]
    BY <1>2, OpenIs
  <2>3. disc' = disc
    BY <1>2 DEF OpenFile, setup
  <2>4. files' \in [Names -> File]
    BY <1>0, <2>1, <2>2
  <2> QED BY <1>a, <2>3, <2>4
<1>3. ASSUME NEW e \in Events, NEW w \in BOOLEAN, ReadSector(e, w) PROVE FileInv'
  <2> DEFINE s == SectorAt(reader.cursor)
  <2>1. s \in [1..Samples -> Sample]
    BY <1>0, SectorIs DEF NumInv
  <2>2. Samples \in Nat /\ offset_skip \in 0..Samples /\ Samples \in offset_skip..Samples
    BY <1>0, RipAssumption DEF OffsetInv
  <2>3. SubSeq(s, offset_skip + 1, Samples) \in Seq(Sample) /\ <<>> \in Seq(Sample)
    BY <2>1, <2>2, PartIs
  <2>4. files' = Store(<<>>, e) \/ files' = Store(SubSeq(s, offset_skip + 1, Samples), e)
    BY <1>3 DEF ReadSector
  <2>5. disc' = disc
    BY <1>3 DEF ReadSector, setup
  <2>6. PICK data \in Seq(Sample) : files' = Store(data, e)
    BY <2>3, <2>4
  <2>7. Store(data, e) \in [Names -> File]
    BY <1>0, StoreIs
  <2> QED BY <1>a, <2>5, <2>6, <2>7
<1>4. ASSUME NEW e \in Events, NEW w \in BOOLEAN, ReadShift(e, w) PROVE FileInv'
  <2> DEFINE s == SectorAt(reader.cursor)
  <2>1. s \in [1..Samples -> Sample]
    BY <1>0, SectorIs DEF NumInv
  <2>2. 0 \in 0..Samples /\ sample_offset \in 0..Samples
    <3>1. pc = "shifting" /\ Samples \in Nat
      BY <1>4, RipAssumption DEF ReadShift
    <3> QED BY <1>0, <3>1 DEF OffsetInv
  <2>3. SubSeq(s, 1, sample_offset) \in Seq(Sample) /\ <<>> \in Seq(Sample)
    <3>1. SubSeq(s, 0 + 1, sample_offset) \in Seq(Sample)
      BY <2>1, <2>2, PartIs
    <3> QED BY <3>1
  <2>4. files' = Store(<<>>, e) \/ files' = Store(SubSeq(s, 1, sample_offset), e)
    BY <1>4 DEF ReadShift
  <2>5. disc' = disc
    BY <1>4 DEF ReadShift, setup
  <2>6. PICK data \in Seq(Sample) : files' = Store(data, e)
    BY <2>3, <2>4
  <2>7. Store(data, e) \in [Names -> File]
    BY <1>0, StoreIs
  <2> QED BY <1>a, <2>5, <2>6, <2>7
<1>5. ASSUME NEW k \in BOOLEAN, ReadFails(k) \/ ShiftFails \/ Done PROVE FileInv'
  BY <1>0, <1>5, <1>a DEF ReadFails, ShiftFails, Done, setup
<1>6. CASE CloseFile
  <2>1. files' = [files EXCEPT ![batch_track].state = ClosedState] /\ disc' = disc
    BY <1>6 DEF CloseFile, setup
  <2>2. ClosedState \in {"kept", "removed"}
    BY DEF ClosedState
  <2>3. \A n \in Names : [files[n] EXCEPT !.state = ClosedState] \in File
    BY <1>0, <2>2 DEF File
  <2>4. files' = [n \in Names |-> IF n = batch_track THEN [files[n] EXCEPT !.state = ClosedState]
                                                   ELSE files[n]]
    BY <1>0, <2>1
  <2>5. files' \in [Names -> File]
    BY <1>0, <2>3, <2>4
  <2> QED BY <1>a, <2>1, <2>5
<1>7. CASE UNCHANGED vars
  BY <1>0, <1>7, <1>a DEF vars, setup
<1> QED BY <1>1, <1>2, <1>3, <1>4, <1>5, <1>6, <1>7 DEF Next

(* The flags stay flags.                                                   *)
LEMMA StepFlag == FlagInv /\ [Next]_vars => FlagInv'
<1> SUFFICES ASSUME FlagInv, [Next]_vars PROVE FlagInv'
  OBVIOUS
<1>1. CASE Usage \/ OpenDisc \/ BiasDisc \/ ParseSpan \/ StartRip
  BY <1>1 DEF Usage, OpenDisc, BiasDisc, ParseSpan, StartRip, FlagInv
<1>2. ASSUME NEW o \in BOOLEAN, NEW w \in BOOLEAN, OpenFile(o, w) PROVE FlagInv'
  BY <1>2 DEF OpenFile, FlagInv
<1>3. ASSUME NEW e \in Events, NEW w \in BOOLEAN, ReadSector(e, w) \/ ReadShift(e, w) PROVE FlagInv'
  <2>1. skipped_flag' \in BOOLEAN /\ medium' = medium
    BY <1>3 DEF ReadSector, ReadShift
  <2> QED BY <2>1 DEF FlagInv
<1>4. ASSUME NEW k \in BOOLEAN, ReadFails(k) PROVE FlagInv'
  BY <1>4 DEF ReadFails, FlagInv
<1>5. CASE ShiftFails \/ CloseFile \/ Done
  BY <1>5 DEF ShiftFails, CloseFile, Done, FlagInv
<1>6. CASE UNCHANGED vars
  BY <1>6 DEF vars, FlagInv
<1> QED BY <1>1, <1>2, <1>3, <1>4, <1>5, <1>6 DEF Next

(* The types are inductive.                                                *)
LEMMA StepTypes == TypeInv /\ [Next]_vars => TypeInv'
BY StepToc, StepNum, StepOffset, StepFile, StepFlag DEF TypeInv

(* Every state has its types.                                              *)
LEMMA TypesHold == Spec => []TypeInv
BY InitTypes, StepTypes, PTL DEF Spec

-----------------------------------------------------------------------------
(* The three invariants.                                                   *)

(* However broken the table a drive reports, once it is accepted every     *)
(* sector before the lead-out belongs to the one track whose ends enclose  *)
(* it: for every table, every shift and every second session.              *)
THEOREM TracksFollow == Spec => []TracksPartitionDisc
<1>1. TypeInv => TracksPartitionDisc
  <2> SUFFICES ASSUME TypeInv, pc \notin {"start", "exit"},
                      NEW s \in toc.start[0]..(toc.start[toc.tracks] - 1)
               PROVE  {n \in 1..toc.tracks : /\ cdda_track_firstsector(toc, n) <= s
                                             /\ s <= cdda_track_lastsector(toc, n)}
                        = {cdda_sector_gettrack(toc, s)}
    BY DEF TracksPartitionDisc
  <2>1. IsTable(toc) /\ Ordered(toc)
    BY DEF TypeInv, TocInv
  <2>2. toc.tracks \in Nat /\ toc.start \in [0..toc.tracks -> Int]
    BY <2>1 DEF IsTable
  <2>3. s \in Int /\ toc.start[0] <= s /\ s < toc.start[toc.tracks]
    BY <2>2
  <2>4. {k \in 1..toc.tracks : toc.start[k - 1] <= s /\ s < toc.start[k]}
          = {cdda_sector_gettrack(toc, s)}
    BY <2>1, <2>3, OneTrack
  <2>5. \A n \in 1..toc.tracks :
           cdda_track_firstsector(toc, n) <= s /\ s <= cdda_track_lastsector(toc, n)
             <=> toc.start[n - 1] <= s /\ s < toc.start[n]
    <3> TAKE n \in 1..toc.tracks
    <3>1. /\ cdda_track_firstsector(toc, n) = toc.start[n - 1]
          /\ cdda_track_lastsector(toc, n) = toc.start[n] - 1
          /\ toc.start[n - 1] \in Int /\ toc.start[n] \in Int
      BY <2>1, TrackEnds
    <3> QED BY <2>3, <3>1
  <2> QED BY <2>4, <2>5
<1> QED BY <1>1, TypesHold, PTL

(* A sector that is read is stored, or not if the file is aborted.         *)
LEMMA ReadsAre ==
  ASSUME TypeInv, NEW e \in Events, NEW w \in BOOLEAN, ReadSector(e, w) \/ ReadShift(e, w)
  PROVE  /\ pc \in {"reading", "shifting"} /\ UNCHANGED <<setup, piece>>
         /\ IF Aborts(e) THEN pc' = "closing" /\ skipped_flag' = TRUE ELSE skipped_flag' = FALSE
         /\ \E data \in Seq(Sample) : files' = Store(data, e)
<1> DEFINE s == SectorAt(reader.cursor)
<1>1. s \in [1..Samples -> Sample] /\ Samples \in Nat
  BY SectorIs, RipAssumption DEF TypeInv, NumInv
<1> HIDE DEF s
<1>2. CASE ReadSector(e, w)
  <2> DEFINE new == SubSeq(s, offset_skip + 1, Samples)
  <2>1. offset_skip \in 0..Samples /\ Samples \in offset_skip..Samples
    BY <1>1 DEF TypeInv, OffsetInv
  <2>2. new \in Seq(Sample) /\ <<>> \in Seq(Sample)
    BY <1>1, <2>1, PartIs
  <2>3. pc = "reading" /\ UNCHANGED <<setup, piece>>
    BY <1>2 DEF ReadSector
  <2>4. IF Aborts(e) THEN files' = Store(<<>>, e) /\ pc' = "closing" /\ skipped_flag' = TRUE
                     ELSE files' = Store(new, e) /\ skipped_flag' = FALSE
    BY <1>2 DEF ReadSector, s
  <2> HIDE DEF new
  <2> QED BY <2>2, <2>3, <2>4
<1>3. CASE ReadShift(e, w)
  <2> DEFINE new == SubSeq(s, 0 + 1, sample_offset)
  <2>1. pc = "shifting" /\ UNCHANGED <<setup, piece>>
    BY <1>3 DEF ReadShift
  <2>2. 0 \in 0..Samples /\ sample_offset \in 0..Samples
    BY <1>1, <2>1 DEF TypeInv, OffsetInv
  <2>3. new \in Seq(Sample) /\ <<>> \in Seq(Sample)
    BY <1>1, <2>2, PartIs
  <2>4. new = SubSeq(s, 1, sample_offset)
    OBVIOUS
  <2> HIDE DEF new
  <2>5. IF Aborts(e) THEN files' = Store(<<>>, e) /\ pc' = "closing" /\ skipped_flag' = TRUE
                     ELSE files' = Store(new, e) /\ skipped_flag' = FALSE
    BY <1>3, <2>4 DEF ReadShift, s
  <2> QED BY <2>1, <2>3, <2>5
<1> QED BY <1>2, <1>3

(* The file that is being written is open.                                 *)
Writing == pc \in {"reading", "shifting", "closing"}
OpenInv == Writing /\ batch_track \in Names => files[batch_track].state = "open"
\* Every step keeps what is known of the open file.
LEMMA StepOpen == TypeInv /\ OpenInv /\ [Next]_vars => OpenInv'
<1> SUFFICES ASSUME TypeInv, OpenInv, [Next]_vars PROVE OpenInv'
  OBVIOUS
<1>0. files \in [Names -> File] /\ FileInv
  BY DEF TypeInv, FileInv
<1>1. CASE Usage \/ OpenDisc \/ BiasDisc \/ ParseSpan \/ StartRip \/ CloseFile \/ Done
  <2>1. pc' \notin {"reading", "shifting", "closing"}
    BY <1>1 DEF Usage, OpenDisc, BiasDisc, ParseSpan, StartRip, CloseFile, Done
  <2> QED BY <2>1 DEF OpenInv, Writing
<1>2. ASSUME NEW o \in BOOLEAN, NEW w \in BOOLEAN, OpenFile(o, w) PROVE OpenInv'
  <2>1. CASE pc' = "exit"
    BY <2>1 DEF OpenInv, Writing
  <2>2. CASE files' = [files EXCEPT ![batch_track'] = NewFile]
    <3>1. UNCHANGED disc
      BY <1>2 DEF OpenFile, setup
    <3> QED BY <1>0, <2>2, <3>1 DEF OpenInv, NewFile, Names
  <2> QED BY <1>2, <2>1, <2>2, OpenIs
<1>3. ASSUME NEW e \in Events, NEW w \in BOOLEAN, ReadSector(e, w) \/ ReadShift(e, w)
      PROVE  OpenInv'
  <2>1. pc \in {"reading", "shifting"} /\ UNCHANGED <<disc, batch_track>>
    BY <1>3, ReadsAre DEF setup, piece
  <2>2. PICK data \in Seq(Sample) : files' = Store(data, e)
    BY <1>3, ReadsAre
  <2>3. \A n \in Names : files'[n].state = files[n].state
    BY <1>0, <2>2, StoreIs
  <2> QED BY <2>1, <2>3 DEF OpenInv, Writing, Names
<1>4. ASSUME NEW k \in BOOLEAN, ReadFails(k) \/ ShiftFails PROVE OpenInv'
  <2>1. UNCHANGED <<disc, files, batch_track>> /\ pc \in {"reading", "shifting"}
    BY <1>4 DEF ReadFails, ShiftFails, setup, piece
  <2> QED BY <2>1 DEF OpenInv, Writing, Names
<1>5. CASE UNCHANGED vars
  BY <1>5 DEF vars, setup, piece, OpenInv, Writing, Names
<1> QED BY <1>1, <1>2, <1>3, <1>4, <1>5 DEF Next

(* A skip that was seen is in a file that is gone, or about to go.         *)
Going == pc = "closing" /\ skipped_flag
SkipInv ==
  opt.abort =>
    /\ \A n \in Names : "seen" \in files[n].marks =>
         files[n].state = "removed" \/ (n = batch_track /\ Going)
    /\ pc \in {"reading", "shifting", "closing"} /\ batch_track \in Names /\ ~Going =>
         "seen" \notin files[batch_track].marks

(* A sector that is stored: a skip that was seen aborts the file.          *)
LEMMA StoreSkips ==
  ASSUME TypeInv, SkipInv, pc \in {"reading", "shifting"}, UNCHANGED <<setup, piece>>,
         NEW data \in Seq(Sample), NEW e \in Events, files' = Store(data, e),
         IF Aborts(e) THEN pc' = "closing" /\ skipped_flag' = TRUE ELSE skipped_flag' = FALSE
  PROVE  SkipInv'
<1> SUFFICES ASSUME opt.abort PROVE SkipInv'
  BY DEF SkipInv, setup
<1>0. Names' = Names /\ batch_track' = batch_track /\ ~Going
  BY DEF setup, piece, Names, Going
<1>1. \A n \in Names :
         /\ files'[n].state = files[n].state
         /\ "seen" \in files'[n].marks => "seen" \in files[n].marks \/ (n = batch_track /\ e = "seen")
  <2> TAKE n \in Names
  <2>1. FileInv
    BY DEF TypeInv
  <2>2. /\ Store(data, e)[n].state = files[n].state
        /\ Store(data, e)[n].marks = IF n = batch_track THEN files[n].marks \cup ({e} \ {"none"})
                                                       ELSE files[n].marks
    BY <2>1, StoreIs
  <2>3. files'[n].marks = files[n].marks
        \/ (n = batch_track /\ files'[n].marks = files[n].marks \cup ({e} \ {"none"}))
    BY <2>2
  <2>4. files'[n].state = files[n].state
    BY <2>2
  <2> QED BY <2>3, <2>4
<1>2. e = "seen" => Going'
  BY DEF Aborts, Going
<1>3. \A n \in Names : "seen" \in files[n].marks => files[n].state = "removed"
  BY <1>0 DEF SkipInv
<1>4. batch_track \in Names => "seen" \notin files[batch_track].marks
  BY <1>0 DEF SkipInv
<1>5. \A n \in Names : "seen" \in files'[n].marks =>
         files'[n].state = "removed" \/ (n = batch_track /\ Going')
  BY <1>1, <1>2, <1>3
<1>6. batch_track \in Names /\ ~Going' => "seen" \notin files'[batch_track].marks
  BY <1>1, <1>2, <1>4
<1> QED BY <1>0, <1>5, <1>6 DEF SkipInv

(* Every step keeps it.                                                    *)
LEMMA StepSkip == TypeInv /\ SkipInv /\ [Next]_vars => SkipInv'
<1> SUFFICES ASSUME TypeInv, SkipInv, [Next]_vars PROVE SkipInv'
  OBVIOUS
<1>0. files \in [Names -> File]
  BY DEF TypeInv, FileInv
<1>a. ASSUME UNCHANGED <<opt, disc, files>>, ~Going,
             pc' \notin {"reading", "shifting", "closing"}
      PROVE SkipInv'
  BY <1>a DEF SkipInv, Names
<1>1. CASE Usage \/ OpenDisc \/ BiasDisc \/ ParseSpan \/ StartRip \/ Done
  <2>1. UNCHANGED <<opt, disc, files>> /\ pc # "closing"
        /\ pc' \notin {"reading", "shifting", "closing"}
    BY <1>1 DEF Usage, OpenDisc, BiasDisc, ParseSpan, StartRip, Done, setup
  <2> QED BY <1>a, <2>1 DEF Going
<1>2. ASSUME NEW o \in BOOLEAN, NEW w \in BOOLEAN, OpenFile(o, w) PROVE SkipInv'
  <2>1. pc = "loop" /\ UNCHANGED <<opt, disc>>
    BY <1>2 DEF OpenFile, setup
  <2>2. ~Going
    BY <2>1 DEF Going
  <2>3. CASE pc' = "exit" /\ UNCHANGED files
    BY <1>a, <2>1, <2>2, <2>3
  <2>4. CASE files' = [files EXCEPT ![batch_track'] = NewFile]
    <3>1. \A n \in Names : files'[n] = IF n = batch_track' THEN NewFile ELSE files[n]
      BY <1>0, <2>4
    <3>2. "seen" \notin NewFile.marks
      BY DEF NewFile
    <3> QED BY <2>1, <2>2, <3>1, <3>2 DEF SkipInv, Names
  <2> QED BY <1>2, <2>3, <2>4, OpenIs
<1>3. ASSUME NEW e \in Events, NEW w \in BOOLEAN, ReadSector(e, w) \/ ReadShift(e, w)
      PROVE  SkipInv'
  BY <1>3, ReadsAre, StoreSkips
<1>5. ASSUME NEW k \in BOOLEAN, ReadFails(k) \/ ShiftFails PROVE SkipInv'
  <2>1. /\ UNCHANGED <<opt, disc, files, batch_track>> /\ pc \in {"reading", "shifting"}
        /\ pc' = "exit" \/ (pc' = "closing" /\ skipped_flag' = TRUE)
    BY <1>5 DEF ReadFails, ShiftFails, setup, piece
  <2>2. ~Going /\ Names' = Names
    BY <2>1 DEF Going, Names
  <2>3. CASE pc' = "exit"
    BY <1>a, <2>1, <2>2, <2>3
  <2>4. CASE pc' = "closing" /\ skipped_flag' = TRUE
    <3>1. Going'
      BY <2>4 DEF Going
    <3> QED BY <2>1, <2>2, <3>1 DEF SkipInv
  <2> QED BY <2>1, <2>3, <2>4
<1>6. CASE CloseFile
  <2>1. /\ UNCHANGED <<opt, disc>> /\ pc = "closing" /\ pc' = "loop"
        /\ files' = [files EXCEPT ![batch_track].state = ClosedState]
    BY <1>6 DEF CloseFile, setup
  <2>2. \A n \in Names :
           /\ files'[n].marks = files[n].marks
           /\ files'[n].state = IF n = batch_track THEN ClosedState ELSE files[n].state
    BY <1>0, <2>1 DEF File
  <2>3. Going => ClosedState = "removed"
    BY DEF Going, ClosedState
  <2>4. CASE Going
    BY <2>1, <2>2, <2>3 DEF SkipInv, Names
  <2>5. CASE ~Going
    BY <2>1, <2>2, <2>5 DEF SkipInv, Names
  <2> QED BY <2>4, <2>5
<1>7. CASE UNCHANGED vars
  BY <1>7 DEF vars, setup, piece, SkipInv, Going, Names
<1> QED BY <1>1, <1>2, <1>3, <1>5, <1>6, <1>7 DEF Next

(* With -X no file is kept in which callback() saw a skip, wherever in it  *)
(* the skip lies and whatever fails around it.                             *)
THEOREM SkipsRemoved == Spec => []SkippedRemoved
<1>1. Init => SkipInv
  BY DEF Init, SkipInv, Names, NoFile
<1>2. OpenInv /\ SkipInv => SkippedRemoved
  <2> SUFFICES ASSUME OpenInv, SkipInv, opt.abort, NEW n \in Names, files[n].state = "kept",
                      "seen" \in files[n].marks
               PROVE  FALSE
    BY DEF SkippedRemoved
  <2>1. n = batch_track /\ Going
    BY DEF SkipInv
  <2> QED BY <2>1 DEF OpenInv, Writing, Going
<1>3. Init => OpenInv
  BY DEF Init, OpenInv, Writing
<1> QED BY <1>1, <1>2, <1>3, StepOpen, StepSkip, TypesHold, PTL DEF Spec

-----------------------------------------------------------------------------
(* What the steps of a rip do, without their conditions.                   *)

(* A sector is read into the file, or skipped and the file aborted.        *)
LEMMA ReadSectorIs ==
  ASSUME NEW e \in Events, NEW w \in BOOLEAN, ReadSector(e, w)
  PROVE  /\ pc = "reading" /\ medium
         /\ UNCHANGED <<setup, piece, offset_buffer, offset_buffer_used, medium>>
         /\ reader' = [reader EXCEPT !.cursor = @ + 1]
         /\ \/ /\ pc' = "closing" /\ skipped_flag' = TRUE
               /\ cursor' = batch_last + 1 /\ offset_skip' = offset_skip
               /\ files' = Store(<<>>, e)
            \/ /\ skipped_flag' = FALSE /\ cursor' = cursor + 1 /\ offset_skip' = 0
               /\ files' = Store(SubSeq(SectorAt(reader.cursor), offset_skip + 1, Samples), e)
               /\ \/ pc' = "exit"
                  \/ pc' = "reading" /\ cursor' <= batch_last
                  \/ pc' = "shifting" /\ ~(cursor' <= batch_last) /\ sample_offset # 0
                  \/ pc' = "closing" /\ ~(cursor' <= batch_last) /\ sample_offset = 0
<1>1. pc = "reading" /\ medium
      /\ UNCHANGED <<setup, piece, offset_buffer, offset_buffer_used, medium>>
      /\ reader' = [reader EXCEPT !.cursor = @ + 1]
  BY DEF ReadSector
<1>2. CASE Aborts(e)
  BY <1>1, <1>2 DEF ReadSector
<1>3. CASE ~Aborts(e)
  <2>1. /\ skipped_flag' = FALSE /\ cursor' = cursor + 1 /\ offset_skip' = 0
        /\ files' = Store(SubSeq(SectorAt(reader.cursor), offset_skip + 1, Samples), e)
    BY <1>3 DEF ReadSector
  <2>2. pc' = IF ~w THEN "exit"
              ELSE IF cursor' <= batch_last THEN "reading"
              ELSE IF sample_offset # 0 THEN "shifting" ELSE "closing"
    BY <1>3 DEF ReadSector
  <2> QED BY <1>1, <2>1, <2>2
<1> QED BY <1>2, <1>3

(* The sector across the end is read and kept, or the file aborted.        *)
LEMMA ReadShiftIs ==
  ASSUME NEW e \in Events, NEW w \in BOOLEAN, ReadShift(e, w)
  PROVE  /\ pc = "shifting" /\ medium
         /\ UNCHANGED <<setup, cursor, piece, offset_skip, medium>>
         /\ reader' = [reader EXCEPT !.cursor = @ + 1]
         /\ \/ /\ pc' = "closing" /\ skipped_flag' = TRUE
               /\ files' = Store(<<>>, e)
               /\ UNCHANGED <<offset_buffer, offset_buffer_used>>
            \/ /\ skipped_flag' = FALSE /\ pc' \in {"closing", "exit"}
               /\ files' = Store(SubSeq(SectorAt(reader.cursor), 1, sample_offset), e)
               /\ offset_buffer' = SectorAt(reader.cursor)
               /\ offset_buffer_used' = sample_offset
<1>1. pc = "shifting" /\ medium
      /\ UNCHANGED <<setup, cursor, piece, offset_skip, medium>>
      /\ reader' = [reader EXCEPT !.cursor = @ + 1]
  BY DEF ReadShift
<1>2. CASE Aborts(e)
  BY <1>1, <1>2 DEF ReadShift
<1>3. CASE ~Aborts(e)
  BY <1>1, <1>3 DEF ReadShift
<1> QED BY <1>2, <1>3

(* A read fails: the program ends or drops the file.                       *)
LEMMA FailureIs ==
  ASSUME NEW k \in BOOLEAN, ReadFails(k) \/ ShiftFails
  PROVE  /\ pc \in {"reading", "shifting"} /\ medium' = FALSE
         /\ UNCHANGED <<setup, cursor, reader, piece, offsets, files>>
         /\ pc' = "exit" \/ (pc' = "closing" /\ skipped_flag' = TRUE)
BY DEF ReadFails, ShiftFails

(* A file is closed and the rip goes on, or starts afresh behind it.       *)
Afresh == skipped_flag /\ batch_track # NoTrack
\* What closing a file does, with another track to begin afresh or without.
LEMMA CloseIs ==
  ASSUME CloseFile
  PROVE  /\ pc = "closing" /\ pc' = "loop"
         /\ UNCHANGED <<setup, batch_first, batch_last, skipped_flag, medium>>
         /\ files' = [files EXCEPT ![batch_track].state = ClosedState]
         /\ Afresh => /\ cursor' = cdda_track_firstsector(toc, batch_track + 1)
                      /\ reader' = SeekTo(toc, cursor')
                      /\ offset_skip' = sample_offset /\ offset_buffer_used' = 0
                      /\ batch_track' = batch_track + 1
         /\ ~Afresh => UNCHANGED <<cursor, reader, offsets, batch_track>>
<1>1. CASE Afresh
  BY <1>1 DEF CloseFile, StartAfresh, Afresh
<1>2. CASE ~Afresh
  BY <1>2 DEF CloseFile, Afresh
<1> QED BY <1>1, <1>2

-----------------------------------------------------------------------------
(* main() and paranoia in step.                                            *)

(* A piece of one sector that begins with a leftover is closed without a   *)
(* read, and without the sector that its end is in: main()'s cursor gets   *)
(* ahead, unless the rip ends there.  Elsewhere every piece is longer.     *)
LongPieces ==
  pc = "loop" /\ cursor <= last_sector /\ offset_buffer_used # 0 =>
    NextPiece.last > cursor \/ NextPiece.last = last_sector

(* The leftover of a piece is a sector that paranoia has read and main()   *)
(* has not counted.                                                        *)
Lead == IF offset_buffer_used # 0 THEN 1 ELSE 0

InStepInv ==
  /\ pc \in {"start", "open", "biased", "parsed"} => offset_buffer_used = 0
  /\ pc \notin {"start", "open"} /\ sample_offset = 0 => offset_buffer_used = 0
  /\ ~opt.batch => batch_track = NoTrack
  /\ ~opt.batch /\ cursor <= last_sector => offset_buffer_used = 0
  /\ Writing /\ batch_track = NoTrack => ~opt.batch /\ batch_last = last_sector
  /\ pc = "shifting" => ~(cursor <= batch_last) /\ sample_offset # 0
  /\ pc \in {"reading", "shifting"} => reader.cursor = cursor
  /\ (pc = "loop" \/ (pc = "closing" /\ ~Afresh)) /\ cursor <= last_sector =>
       reader.cursor = cursor + Lead

(* The piece that comes next.                                              *)
LEMMA PieceIs ==
  ASSUME TypeInv, pc = "loop"
  PROVE  /\ opt.batch => NextPiece.track # NoTrack
         /\ ~opt.batch => NextPiece.track = NoTrack /\ NextPiece.last = last_sector
<1>1. CASE opt.batch
  <2>1. cdda_sector_gettrack(toc, cursor) \in {BadTrack} \cup 0..toc.tracks
    BY TrackIs DEF TypeInv, TocInv, NumInv
  <2>2. toc.tracks \in Nat
    BY DEF TypeInv, TocInv, IsTable
  <2>3. NextPiece.track = cdda_sector_gettrack(toc, cursor)
    BY <1>1 DEF NextPiece
  <2> QED BY <1>1, <2>1, <2>2, <2>3 DEF NoTrack, BadTrack
<1>2. CASE ~opt.batch
  BY <1>2 DEF NextPiece
<1> QED BY <1>1, <1>2

(* Every step keeps them in step, but for short pieces.                    *)
LEMMA StepInStep == TypeInv /\ LongPieces /\ InStepInv /\ [Next]_vars => InStepInv'
<1> SUFFICES ASSUME TypeInv, LongPieces, InStepInv, [Next]_vars PROVE InStepInv'
  OBVIOUS
<1>0. /\ cursor \in Int /\ last_sector \in Int /\ batch_last \in Int
      /\ reader \in [cursor : Int, last : Int]
  BY DEF TypeInv, NumInv
<1>1. CASE Usage \/ OpenDisc \/ BiasDisc \/ ParseSpan
  <2>1. /\ pc \in {"start", "open", "biased"} /\ pc' \in {"exit", "open", "biased", "parsed"}
        /\ UNCHANGED <<opt, batch_track, offset_buffer_used>>
    BY <1>1 DEF Usage, OpenDisc, BiasDisc, ParseSpan, piece, offsets
  <2>2. offset_buffer_used' = 0
    BY <2>1 DEF InStepInv
  <2> QED BY <2>1, <2>2 DEF InStepInv, Writing
<1>2. CASE StartRip
  <2>1. /\ pc = "parsed" /\ pc' = "loop" /\ cursor' = first_sector
        /\ reader' = SeekTo(toc, first_sector)
        /\ UNCHANGED <<opt, batch_track, offset_buffer_used>>
    BY <1>2 DEF StartRip, piece
  <2>2. offset_buffer_used' = 0 /\ reader'.cursor = cursor' /\ cursor' \in Int
    BY <2>1 DEF InStepInv, SeekTo, TypeInv, NumInv
  <2> QED BY <2>1, <2>2 DEF InStepInv, Writing, Lead
<1>3. ASSUME NEW o \in BOOLEAN, NEW w \in BOOLEAN, OpenFile(o, w) PROVE InStepInv'
  <2>1. /\ pc = "loop" /\ cursor <= last_sector
        /\ UNCHANGED <<opt, sample_offset, last_sector, reader, offset_buffer_used>>
        /\ batch_last' = NextPiece.last /\ batch_track' = NextPiece.track
    BY <1>3, OpenIs DEF setup, offsets
  <2>2. /\ opt.batch => batch_track' # NoTrack
        /\ ~opt.batch => batch_track' = NoTrack /\ batch_last' = last_sector
    BY <2>1, PieceIs
  <2>3. batch_last' \in Int
    BY <1>3, StepNum DEF Next, NumInv, TypeInv
  <2>4. reader.cursor = cursor + Lead /\ (~opt.batch => offset_buffer_used = 0)
        /\ (sample_offset = 0 => offset_buffer_used = 0)
    BY <2>1 DEF InStepInv
  <2>5. offset_buffer_used # 0 => batch_last' > cursor \/ batch_last' = last_sector
    BY <2>1 DEF LongPieces
  <2>6. CASE pc' = "exit" /\ UNCHANGED cursor
    BY <2>1, <2>2, <2>4, <2>6 DEF InStepInv, Writing
  <2>7. CASE /\ cursor' = IF offset_buffer_used # 0 THEN cursor + 1 ELSE cursor
             /\ \/ pc' = "exit"
                \/ pc' = "reading" /\ cursor' <= batch_last'
                \/ pc' = "closing" /\ ~(cursor' <= batch_last')
    <3>1. reader'.cursor = cursor'
      BY <1>0, <2>1, <2>4, <2>7 DEF Lead
    <3>2. pc' = "closing" /\ cursor' <= last_sector => offset_buffer_used = 0
      BY <1>0, <2>1, <2>3, <2>5, <2>7
    <3>3. pc' = "closing" /\ cursor' <= last_sector => reader'.cursor = cursor' + Lead'
      BY <1>0, <2>1, <2>7, <3>1, <3>2 DEF Lead
    <3>4. ~opt'.batch /\ cursor' <= last_sector' => offset_buffer_used' = 0
      BY <2>1, <2>4
    <3> QED BY <2>1, <2>2, <2>4, <2>7, <3>1, <3>3, <3>4 DEF InStepInv, Writing
  <2>8. \/ pc' = "exit" /\ UNCHANGED cursor
        \/ /\ cursor' = IF offset_buffer_used # 0 THEN cursor + 1 ELSE cursor
           /\ \/ pc' = "exit"
              \/ pc' = "reading" /\ cursor' <= batch_last'
              \/ pc' = "closing" /\ ~(cursor' <= batch_last')
    BY <1>3, OpenIs
  <2> QED BY <2>6, <2>7, <2>8
<1>4. ASSUME NEW e \in Events, NEW w \in BOOLEAN, ReadSector(e, w) PROVE InStepInv'
  <2>1. /\ pc = "reading" /\ reader' = [reader EXCEPT !.cursor = @ + 1]
        /\ UNCHANGED <<opt, sample_offset, last_sector, batch_last, batch_track, offset_buffer_used>>
    BY <1>4, ReadSectorIs DEF setup, piece
  <2>2. /\ reader.cursor = cursor /\ (~opt.batch => batch_track = NoTrack)
        /\ (batch_track = NoTrack => ~opt.batch /\ batch_last = last_sector)
        /\ (sample_offset = 0 => offset_buffer_used = 0)
        /\ (~opt.batch /\ cursor <= last_sector => offset_buffer_used = 0)
    BY <2>1 DEF InStepInv, Writing
  <2>3. reader'.cursor = cursor + 1
    BY <1>0, <2>1, <2>2
  <2>4. CASE pc' = "closing" /\ skipped_flag' = TRUE /\ cursor' = batch_last + 1
    <3>1. batch_track' = NoTrack => ~(cursor' <= last_sector')
      BY <1>0, <2>1, <2>2, <2>4
    <3>2. Afresh' \/ batch_track' = NoTrack
      BY <2>4 DEF Afresh
    <3> QED BY <2>1, <2>2, <2>4, <3>1, <3>2 DEF InStepInv, Writing
  <2>5. CASE /\ cursor' = cursor + 1
             /\ \/ pc' = "exit"
                \/ pc' = "reading" /\ cursor' <= batch_last
                \/ pc' = "shifting" /\ ~(cursor' <= batch_last) /\ sample_offset # 0
                \/ pc' = "closing" /\ ~(cursor' <= batch_last) /\ sample_offset = 0
    <3>1. ~opt.batch /\ cursor' <= last_sector => offset_buffer_used = 0
      BY <1>0, <2>2, <2>5
    <3>2. pc' = "closing" => reader'.cursor = cursor' + Lead'
      BY <1>0, <2>1, <2>2, <2>3, <2>5 DEF Lead
    <3> QED BY <2>1, <2>2, <2>3, <2>5, <3>1, <3>2 DEF InStepInv, Writing
  <2> QED BY <1>4, <2>4, <2>5, ReadSectorIs
<1>5. ASSUME NEW e \in Events, NEW w \in BOOLEAN, ReadShift(e, w) PROVE InStepInv'
  <2>1. /\ pc = "shifting" /\ reader' = [reader EXCEPT !.cursor = @ + 1]
        /\ UNCHANGED <<opt, sample_offset, last_sector, batch_last, batch_track, cursor>>
    BY <1>5, ReadShiftIs DEF setup, piece
  <2>2. /\ reader.cursor = cursor /\ (~opt.batch => batch_track = NoTrack)
        /\ (batch_track = NoTrack => ~opt.batch /\ batch_last = last_sector)
        /\ ~(cursor <= batch_last) /\ sample_offset # 0
    BY <2>1 DEF InStepInv, Writing
  <2>3. reader'.cursor = cursor + 1
    BY <1>0, <2>1, <2>2
  <2>4. ~opt.batch => ~(cursor <= last_sector)
    BY <2>2
  <2>5. CASE pc' = "closing" /\ skipped_flag' = TRUE
    <3>1. Afresh' \/ batch_track' = NoTrack
      BY <2>5 DEF Afresh
    <3> QED BY <2>1, <2>2, <2>4, <2>5, <3>1 DEF InStepInv, Writing
  <2>6. CASE pc' \in {"closing", "exit"} /\ offset_buffer_used' = sample_offset
    <3>1. reader'.cursor = cursor' + Lead'
      BY <2>1, <2>2, <2>3, <2>6 DEF Lead
    <3> QED BY <2>1, <2>2, <2>4, <2>6, <3>1 DEF InStepInv, Writing
  <2> QED BY <1>5, <2>5, <2>6, ReadShiftIs
<1>6. ASSUME NEW k \in BOOLEAN, ReadFails(k) \/ ShiftFails PROVE InStepInv'
  <2>1. /\ pc \in {"reading", "shifting"}
        /\ UNCHANGED <<opt, sample_offset, last_sector, batch_last, batch_track, cursor, reader,
                       offset_buffer_used>>
        /\ pc' = "exit" \/ (pc' = "closing" /\ skipped_flag' = TRUE)
    BY <1>6, FailureIs DEF setup, piece, offsets
  <2>2. /\ reader.cursor = cursor /\ (~opt.batch => batch_track = NoTrack)
        /\ (batch_track = NoTrack => ~opt.batch /\ batch_last = last_sector)
        /\ (sample_offset = 0 => offset_buffer_used = 0)
        /\ (~opt.batch /\ cursor <= last_sector => offset_buffer_used = 0)
    BY <2>1 DEF InStepInv, Writing
  <2>3. CASE pc' = "exit"
    BY <2>1, <2>2, <2>3 DEF InStepInv, Writing
  <2>4. CASE pc' = "closing" /\ skipped_flag' = TRUE
    <3>1. Afresh' \/ batch_track' = NoTrack
      BY <2>4 DEF Afresh
    <3>2. batch_track' = NoTrack /\ cursor' <= last_sector' => reader'.cursor = cursor' + Lead'
      BY <1>0, <2>1, <2>2 DEF Lead
    <3> QED BY <2>1, <2>2, <2>4, <3>1, <3>2 DEF InStepInv, Writing
  <2> QED BY <2>1, <2>3, <2>4
<1>7. CASE CloseFile
  <2>1. pc = "closing" /\ pc' = "loop" /\ UNCHANGED <<opt, sample_offset, last_sector>>
    BY <1>7, CloseIs DEF setup
  <2>2. (~opt.batch => batch_track = NoTrack) /\ (sample_offset = 0 => offset_buffer_used = 0)
        /\ (~opt.batch /\ cursor <= last_sector => offset_buffer_used = 0)
    BY <2>1 DEF InStepInv
  <2>3. CASE Afresh
    <3>1. /\ cursor' = cdda_track_firstsector(toc, batch_track + 1)
          /\ reader' = SeekTo(toc, cursor') /\ offset_buffer_used' = 0
      BY <1>7, <2>3, CloseIs
    <3>2. cursor' \in Int
      BY <3>1, SectorsAre DEF TypeInv, TocInv
    <3>3. reader'.cursor = cursor' + Lead'
      BY <3>1, <3>2 DEF SeekTo, Lead
    <3>4. opt.batch
      BY <2>2, <2>3 DEF Afresh
    <3> QED BY <2>1, <3>1, <3>3, <3>4 DEF InStepInv, Writing
  <2>4. CASE ~Afresh
    <3>1. UNCHANGED <<cursor, reader, offset_buffer_used, batch_track>>
      BY <1>7, <2>4, CloseIs DEF offsets
    <3>2. cursor <= last_sector => reader.cursor = cursor + Lead
      BY <2>1, <2>4 DEF InStepInv
    <3> QED BY <2>1, <2>2, <3>1, <3>2 DEF InStepInv, Writing, Lead
  <2> QED BY <2>3, <2>4
<1>8. CASE Done
  BY <1>8 DEF Done, setup, piece, offsets, InStepInv, Writing
<1>9. CASE UNCHANGED vars
  BY <1>9 DEF vars, setup, piece, offsets, InStepInv, Writing, Afresh, Lead
<1> QED BY <1>1, <1>2, <1>3, <1>4, <1>5, <1>6, <1>7, <1>8, <1>9 DEF Next

(* The sector main() counts is the one paranoia returns, whatever fails or *)
(* is aborted, as long as no piece is of one sector only.                  *)
THEOREM InStep == Spec /\ []LongPieces => []ReaderInStep
<1>1. Init => InStepInv
  BY DEF Init, InStepInv, Writing
<1>2. InStepInv => ReaderInStep
  BY DEF InStepInv, ReaderInStep
<1> QED BY <1>1, <1>2, StepInStep, TypesHold, PTL DEF Spec

-----------------------------------------------------------------------------
(* The files: each holds its track.                                         *)

(* How far the table is moved, and the starts of its tracks after that.    *)
Shift   == IF opt.bias THEN -Repaired.start[0] ELSE opt.toc + opt.sample \div Samples
Base(j) == Repaired.start[j] + Shift
LeadOut == Base(toc.tracks)

(* The span ends before the lead-out, and what lies before the first track *)
(* is a pre-gap that the table knows: "0" on a disc without one, or an     *)
(* error code taken for a sector, is not in it.                            *)
KnownSpan ==
  pc = "loop" /\ cursor <= last_sector =>
    last_sector < LeadOut /\ (cursor < toc.start[0] => toc.start[0] # 0)

(* The last track of the disc is not aborted: no track is behind it.       *)
LastTrackKept == Going /\ batch_track # NoTrack => batch_track < toc.tracks

(* -T forgets the whole sectors of -O.                                     *)
BiasWhole == opt.bias => opt.sample \in 0..(Samples - 1)

Undisturbed == LongPieces /\ KnownSpan /\ LastTrackKept /\ BiasWhole

-----------------------------------------------------------------------------
(* Sectors and samples.                                                    *)

At(c) == c * Samples

(* Sectors follow one another a sector's samples apart.                    *)
LEMMA AtIs ==
  /\ \A c \in Int : At(c) \in Int /\ At(c + 1) = At(c) + Samples
  /\ \A c, d \in Int : c <= d => At(c) <= At(d)
  /\ \A c, d \in Int : c < d => At(c) < At(d)
  /\ \A c, d \in Int : (d - c) * Samples = At(d) - At(c)
<1>0. Samples \in Nat \ {0}
  BY RipAssumption
<1>1. \A c \in Int : At(c) \in Int /\ At(c + 1) = At(c) + Samples
  BY <1>0 DEF At
<1>2. \A n \in Nat : n * Samples >= 0
  BY <1>0
<1>3. \A c, d \in Int : (d - c) * Samples = At(d) - At(c)
  BY <1>0 DEF At
<1>4. \A c, d \in Int : c <= d => At(c) <= At(d)
  <2> SUFFICES ASSUME NEW c \in Int, NEW d \in Int, c <= d PROVE At(c) <= At(d)
    OBVIOUS
  <2>1. d - c \in Nat
    OBVIOUS
  <2>2. (d - c) * Samples >= 0
    BY <1>2, <2>1
  <2>3. At(d) - At(c) >= 0
    BY <1>3, <2>2
  <2> QED BY <1>1, <2>3
<1>5. \A c, d \in Int : c < d => At(c) < At(d)
  <2> SUFFICES ASSUME NEW c \in Int, NEW d \in Int, c < d PROVE At(c) < At(d)
    OBVIOUS
  <2>1. At(c + 1) <= At(d) /\ At(c + 1) = At(c) + Samples
    BY <1>1, <1>4
  <2> QED BY <1>0, <1>1, <2>1
<1> QED BY <1>1, <1>3, <1>4, <1>5

(* A sample offset is whole sectors and the rest.                          *)
LEMMA OffsetSplit ==
  ASSUME NEW a \in Int
  PROVE  /\ a \div Samples \in Int /\ a % Samples \in 0..(Samples - 1)
         /\ a = (a \div Samples) * Samples + (a % Samples)
         /\ a \in 0..(Samples - 1) => a % Samples = a
<1>0. Samples \in Nat \ {0}
  BY RipAssumption
<1>1. a \div Samples \in Int /\ a % Samples \in 0..(Samples - 1)
  BY <1>0
<1>2. a = (a \div Samples) * Samples + (a % Samples)
  BY <1>0
<1>3. a \in 0..(Samples - 1) => a % Samples = a
  BY <1>0
<1> QED BY <1>1, <1>2, <1>3

(* The data are the samples from one on, or made up behind the span.       *)
InPlace(data, from) ==
  \A i \in 1..Len(data) :
    data[i] = from + i - 1 \/ (data[i] = Padding /\ from + i > At(last_sector + 1))

(* What follows on is in place.                                            *)
LEMMA InPlaceJoin ==
  ASSUME NEW d \in Seq(Sample), NEW e \in Seq(Sample), NEW from \in Int,
         InPlace(d, from), InPlace(e, from + Len(d))
  PROVE  /\ d \o e \in Seq(Sample) /\ Len(d \o e) = Len(d) + Len(e)
         /\ InPlace(d \o e, from)
<1>1. /\ d \o e \in Seq(Sample) /\ Len(d \o e) = Len(d) + Len(e)
      /\ \A i \in 1..(Len(d) + Len(e)) :
           (d \o e)[i] = IF i <= Len(d) THEN d[i] ELSE e[i - Len(d)]
  BY ConcatProperties
<1>2. Len(d) \in Nat /\ Len(e) \in Nat
  OBVIOUS
<1> DEFINE j == d \o e
<1> HIDE DEF j
<1>3. \A i \in 1..Len(j) : j[i] = from + i - 1 \/ (j[i] = Padding /\ from + i > At(last_sector + 1))
  <2> TAKE i \in 1..Len(j)
  <2>1. Len(j) = Len(d) + Len(e) /\ j[i] = IF i <= Len(d) THEN d[i] ELSE e[i - Len(d)]
    BY <1>1, <1>2 DEF j
  <2>2. CASE i <= Len(d)
    BY <1>2, <2>1, <2>2 DEF InPlace
  <2>3. CASE ~(i <= Len(d))
    <3>1. i - Len(d) \in 1..Len(e)
      BY <1>2, <2>1, <2>3
    <3>2. \/ e[i - Len(d)] = from + Len(d) + (i - Len(d)) - 1
          \/ e[i - Len(d)] = Padding /\ from + Len(d) + (i - Len(d)) > At(last_sector + 1)
      BY <3>1 DEF InPlace
    <3> QED BY <1>2, <2>1, <2>3, <3>2
  <2> QED BY <2>2, <2>3
<1> QED BY <1>1, <1>3 DEF InPlace, j

(* A part of what is in place is in place.                                 *)
LEMMA InPlacePart ==
  ASSUME NEW s \in [1..Samples -> Sample], NEW from \in Int, InPlace(s, from),
         NEW m \in 0..Samples, NEW n \in m..Samples
  PROVE  /\ SubSeq(s, m + 1, n) \in Seq(Sample)
         /\ Len(SubSeq(s, m + 1, n)) = n - m
         /\ InPlace(SubSeq(s, m + 1, n), from + m)
<1>0. Samples \in Nat /\ Len(s) = Samples
  BY RipAssumption
<1> DEFINE p == SubSeq(s, m + 1, n)
<1>1. p \in Seq(Sample) /\ Len(p) = n - m /\ \A i \in 1..(n - m) : p[i] = s[m + i]
  BY PartIs
<1> HIDE DEF p
<1>2. \A i \in 1..Len(p) : \/ p[i] = from + m + i - 1
                           \/ p[i] = Padding /\ from + m + i > At(last_sector + 1)
  <2> TAKE i \in 1..Len(p)
  <2>1. m + i \in 1..Len(s) /\ p[i] = s[m + i]
    BY <1>0, <1>1
  <2>2. s[m + i] = from + (m + i) - 1 \/ (s[m + i] = Padding /\ from + (m + i) > At(last_sector + 1))
    BY <2>1 DEF InPlace
  <2> QED BY <1>0, <2>1, <2>2
<1>3. InPlace(p, from + m)
  BY <1>2 DEF InPlace
<1> QED BY <1>1, <1>3 DEF p

(* The sector at a cursor is in place, if all of the span can be read.     *)
LEMMA SectorInPlace ==
  ASSUME NumInv, reader.last >= last_sector, NEW c \in Int
  PROVE  InPlace(SectorAt(c), At(c))
<1>0. Samples \in Nat \ {0} /\ Len(SectorAt(c)) = Samples
  BY SectorIs, RipAssumption
<1>1. last_sector \in Int /\ reader.last \in Int
  BY DEF NumInv
<1>2. At(c) \in Int /\ At(last_sector + 1) \in Int
  BY <1>1, AtIs
<1>3. CASE c > reader.last
  <2>1. last_sector + 1 <= c
    BY <1>1, <1>3
  <2>2. At(last_sector + 1) <= At(c)
    BY <1>1, <2>1, AtIs
  <2>3. \A i \in 1..Samples : SectorAt(c)[i] = Padding
    BY <1>3 DEF SectorAt
  <2>4. \A i \in 1..Samples : At(c) + i > At(last_sector + 1)
    BY <1>0, <1>2, <2>2
  <2> QED BY <1>0, <2>3, <2>4 DEF InPlace
<1>4. CASE ~(c > reader.last)
  <2>1. \A i \in 1..Samples : SectorAt(c)[i] = At(c) + i - 1
    BY <1>4 DEF SectorAt, At
  <2> QED BY <1>0, <2>1 DEF InPlace
<1> QED BY <1>3, <1>4

-----------------------------------------------------------------------------
(* The table that a rip works with.                                        *)

Ripping == pc \in {"loop", "reading", "shifting", "closing"}

(* Of the tracks only the lead-out is moved once more, for a sample offset.*)
Extra(j) == IF Ripping /\ j = toc.tracks /\ sample_offset # 0 THEN 1 ELSE 0

TableInv ==
  /\ pc = "open" => toc = Repaired
  /\ pc \in {"biased", "parsed"} \/ Ripping =>
       /\ toc.audio = Repaired.audio
       /\ \A j \in 0..toc.tracks : toc.start[j] = Base(j) + Extra(j)
       /\ sample_offset = opt.sample % Samples

(* The moved starts are in order.                                          *)
LEMMA BaseIs ==
  ASSUME TocInv
  PROVE  /\ IsTable(Repaired) /\ Repaired.tracks = toc.tracks /\ Shift \in Int
         /\ toc.tracks \in Nat \ {0}
         /\ \A j \in 0..toc.tracks : Base(j) \in Int /\ Repaired.start[j] \in Int
         /\ \A i, j \in 0..toc.tracks : i <= j => Base(i) <= Base(j)
         /\ LeadOut \in Int
<1>1. IsTable(disc.toc) /\ disc.lba \in Int /\ opt.toc \in Int /\ opt.sample \in Int
  BY Given DEF TocInv
<1>2. IsTable(Repaired) /\ Ordered(Repaired) /\ Repaired.tracks = disc.toc.tracks
  BY <1>1, FixupOrders DEF Repaired
<1>3. Repaired.tracks = toc.tracks /\ toc.tracks \in Nat \ {0}
      /\ Repaired.start \in [0..toc.tracks -> Int]
  BY <1>2 DEF TocInv, IsTable
<1>4. opt.sample \div Samples \in Int
  BY <1>1, OffsetSplit
<1>5. \A j \in 0..toc.tracks : Repaired.start[j] \in Int
  BY <1>3
<1>6. 0 \in 0..toc.tracks /\ toc.tracks \in 0..toc.tracks
  BY <1>3
<1>7. Shift \in Int
  BY <1>1, <1>4, <1>5, <1>6 DEF Shift
<1>8. \A j \in 0..toc.tracks : Base(j) \in Int
  BY <1>5, <1>7 DEF Base
<1>9. \A i, j \in 0..toc.tracks : i <= j => Base(i) <= Base(j)
  BY <1>2, <1>3, <1>5, <1>7 DEF Base, Ordered
<1> QED BY <1>2, <1>3, <1>5, <1>6, <1>7, <1>8, <1>9 DEF LeadOut

(* The set-up is the same in the next state.                               *)
LEMMA SameSetup ==
  ASSUME UNCHANGED setup
  PROVE  /\ UNCHANGED <<opt, disc, toc, sample_offset, first_sector, last_sector>>
         /\ Repaired' = Repaired /\ Shift' = Shift /\ LeadOut' = LeadOut
         /\ \A j : Base(j)' = Base(j)
         /\ \A d, a : InPlace(d, a)' = InPlace(d, a)
         /\ \A n : From(n)' = From(n) /\ To(n)' = To(n)
         /\ Names' = Names
BY DEF setup, Repaired, Shift, LeadOut, Base, InPlace, From, To, SpanFrom, SpanTo, Moved, At, Names

(* The table follows the repaired one through every step.                  *)
LEMMA StepTable == TypeInv /\ TableInv /\ [Next]_vars => TableInv'
<1> SUFFICES ASSUME TypeInv, TableInv, [Next]_vars PROVE TableInv'
  OBVIOUS
<1>0. TocInv
  BY DEF TypeInv
<1>8. CASE Usage
  BY <1>8 DEF Usage, TableInv, Ripping
<1>1. CASE OpenDisc
  <2>1. toc' = Repaired /\ pc' \in {"exit", "open"} /\ UNCHANGED <<opt, disc>>
    BY <1>1 DEF OpenDisc, Repaired
  <2>2. Repaired' = Repaired
    BY <2>1 DEF Repaired
  <2> QED BY <2>1, <2>2 DEF TableInv, Ripping
<1>2. CASE BiasDisc
  <2>1. /\ pc = "open" /\ pc' = "biased" /\ sample_offset' = opt.sample % Samples
        /\ UNCHANGED <<opt, disc>>
        /\ toc' = Shifted(toc, IF opt.bias THEN -cdda_track_firstsector(toc, 1)
                               ELSE opt.toc + opt.sample \div Samples)
    BY <1>2 DEF BiasDisc
  <2>2. toc = Repaired /\ IsTable(toc) /\ Ordered(toc) /\ toc.tracks \in Nat \ {0}
    BY <1>0, <2>1, BaseIs DEF TableInv, TocInv
  <2>3. cdda_track_firstsector(toc, 1) = Repaired.start[0]
    <3>1. 1 \in 1..toc.tracks
      BY <2>2
    <3>2. cdda_track_firstsector(toc, 1) = toc.start[1 - 1]
      BY <2>2, <3>1, TrackEnds
    <3> QED BY <2>2, <3>2
  <2>4. toc' = Shifted(toc, Shift) /\ Shift \in Int
    BY <1>0, <2>1, <2>3, BaseIs DEF Shift
  <2>5. toc'.tracks = toc.tracks /\ toc'.audio = toc.audio
        /\ \A j \in 0..toc.tracks : toc'.start[j] = toc.start[j] + Shift
    BY <2>2, <2>4, ShiftOrders
  <2>6. /\ Repaired' = Repaired /\ Shift' = Shift
        /\ \A j \in 0..toc.tracks : Base(j)' = Base(j) /\ Base(j) \in Int
    BY <1>0, <2>1, BaseIs DEF Repaired, Shift, Base
  <2>7. \A j \in 0..toc.tracks : toc'.start[j] = Base(j)' + 0
    BY <2>2, <2>5, <2>6 DEF Base
  <2>8. \A j : Extra(j)' = 0
    BY <2>1 DEF Extra, Ripping
  <2> QED BY <2>1, <2>2, <2>5, <2>6, <2>7, <2>8 DEF TableInv
<1>3. CASE ParseSpan
  <2>1. pc = "biased" /\ pc' \in {"exit", "parsed"} /\ UNCHANGED <<opt, disc, toc, sample_offset>>
    BY <1>3 DEF ParseSpan
  <2>2. Repaired' = Repaired /\ Shift' = Shift /\ \A j : Base(j)' = Base(j) /\ Extra(j)' = Extra(j)
    BY <2>1 DEF Repaired, Shift, Base, Extra, Ripping
  <2> QED BY <2>1, <2>2 DEF TableInv, Ripping
<1>4. CASE StartRip
  <2>1. /\ pc = "parsed" /\ pc' = "loop" /\ UNCHANGED <<opt, disc, sample_offset>>
        /\ toc' = IF sample_offset = 0 THEN toc
                  ELSE [toc EXCEPT !.start = [toc.start EXCEPT ![toc.tracks] = @ + 1]]
    BY <1>4 DEF StartRip
  <2>2. /\ Repaired' = Repaired /\ Shift' = Shift
        /\ \A j \in 0..toc.tracks : Base(j)' = Base(j) /\ Base(j) \in Int
    BY <1>0, <2>1, BaseIs DEF Repaired, Shift, Base
  <2>3. IsTable(toc) /\ Ordered(toc) /\ toc.tracks \in Nat \ {0} /\ toc.start \in [0..toc.tracks -> Int]
    BY <1>0, <2>1, BaseIs DEF TocInv, IsTable
  <2>4. /\ toc.audio = Repaired.audio /\ sample_offset = opt.sample % Samples
        /\ \A j \in 0..toc.tracks : toc.start[j] = Base(j)
    <3>1. \A j : Extra(j) = 0
      BY <2>1 DEF Extra, Ripping
    <3> QED BY <2>1, <2>2, <3>1 DEF TableInv
  <2>5. CASE sample_offset = 0
    <3>1. toc' = toc /\ \A j : Extra(j)' = 0
      BY <2>1, <2>5 DEF Extra
    <3>2. \A j \in 0..toc.tracks : toc'.start[j] = Base(j)' + Extra(j)'
      BY <2>2, <2>4, <3>1
    <3> QED BY <2>1, <2>2, <2>4, <3>1, <3>2 DEF TableInv
  <2>6. CASE sample_offset # 0
    <3>1. toc'.tracks = toc.tracks /\ toc'.audio = toc.audio
          /\ toc'.start = [toc.start EXCEPT ![toc.tracks] = @ + 1]
      BY <2>1, <2>3, <2>6, LeadOutOrders
    <3>2. \A j : Extra(j)' = IF j = toc.tracks THEN 1 ELSE 0
      BY <2>1, <2>6, <3>1 DEF Extra, Ripping
    <3>3. \A j \in 0..toc.tracks : toc'.start[j] = Base(j)' + Extra(j)'
      BY <2>2, <2>3, <2>4, <3>1, <3>2
    <3> QED BY <2>1, <2>2, <2>4, <3>1, <3>3 DEF TableInv
  <2> QED BY <2>5, <2>6
<1>5. CASE Rips
  <2>1. Ripping /\ UNCHANGED setup
    BY <1>5 DEF Rips, Ripping
  <2>2. CASE Ripping'
    <3>1. Repaired' = Repaired /\ \A j : Base(j)' = Base(j)
      BY <2>1, SameSetup
    <3>2. \A j : Extra(j)' = Extra(j)
      BY <2>1, <2>2 DEF Extra, setup
    <3>3. UNCHANGED <<toc, opt, sample_offset>> /\ pc' # "open"
      BY <2>1, <2>2 DEF setup, Ripping
    <3> QED BY <2>1, <3>1, <3>2, <3>3 DEF TableInv
  <2>3. CASE ~Ripping'
    <3>1. pc' \notin {"open", "biased", "parsed"}
      BY <1>5 DEF Rips
    <3> QED BY <2>3, <3>1 DEF TableInv
  <2> QED BY <2>2, <2>3
<1>6. CASE UNCHANGED vars
  <2>1. UNCHANGED <<pc, setup>>
    BY <1>6 DEF vars
  <2>2. Repaired' = Repaired /\ \A j : Base(j)' = Base(j)
    BY <2>1, SameSetup
  <2>3. \A j : Extra(j)' = Extra(j)
    BY <2>1 DEF Extra, setup, Ripping
  <2> QED BY <2>1, <2>2, <2>3 DEF TableInv, setup, Ripping
<1> QED BY <1>8, <1>1, <1>2, <1>3, <1>4, <1>5, <1>6, Quiet

-----------------------------------------------------------------------------
(* What can be read.                                                       *)

(* The track of a sector before the lead-out.                              *)
LEMMA InTrack ==
  ASSUME NEW t, IsTable(t), Ordered(t), NEW s \in Int, s < t.start[t.tracks]
  PROVE  LET g == cdda_sector_gettrack(t, s) IN
         /\ g \in 0..t.tracks
         /\ s < t.start[g]
         /\ g # 0 => t.start[g - 1] <= s
         /\ s < t.start[0] => g = 0
<1>0. t.tracks \in Nat \ {0} /\ t.start \in [0..t.tracks -> Int]
  BY DEF IsTable
<1>1. CASE s < t.start[0]
  <2>1. cdda_sector_gettrack(t, s) = 0
    BY <1>1 DEF cdda_sector_gettrack
  <2> QED BY <1>0, <1>1, <2>1
<1>2. CASE ~(s < t.start[0])
  <2> DEFINE g == cdda_sector_gettrack(t, s)
  <2>1. t.start[0] <= s
    BY <1>0, <1>2
  <2>2. g \in 1..t.tracks /\ g \in {k \in 1..t.tracks : t.start[k - 1] <= s /\ s < t.start[k]}
    BY <2>1, OneTrack
  <2> HIDE DEF g
  <2>3. g \in 0..t.tracks /\ t.start[g - 1] <= s /\ s < t.start[g]
    BY <1>0, <2>2
  <2> QED BY <1>2, <2>3 DEF g
<1> QED BY <1>1, <1>2

(* Whether a track has sound.                                              *)
LEMMA AudioIs ==
  ASSUME NEW t, IsTable(t)
  PROVE  /\ \A n \in 1..t.tracks : (cdda_track_audiop(t, n) = 0) <=> ~t.audio[n - 1]
         /\ (cdda_track_audiop(t, 0) = 0) <=> ~t.audio[0]
         /\ \A n \in 1..t.tracks : (cdda_track_audiop(t, n) = 1) <=> t.audio[n - 1]
<1>0. t.tracks \in Nat \ {0} /\ t.audio \in [0..t.tracks -> BOOLEAN]
  BY DEF IsTable
<1>1. \A n \in 1..t.tracks : cdda_track_audiop(t, n) = IF t.audio[n - 1] THEN 1 ELSE 0
  BY <1>0 DEF cdda_track_audiop, Listed
<1>2. cdda_track_audiop(t, 0) = IF t.audio[0] THEN 1 ELSE 0
  BY <1>0 DEF cdda_track_audiop, Listed
<1> QED BY <1>1, <1>2

(* The tracks that the span touches have sound.                            *)
SoundInv ==
  (pc = "parsed" \/ Ripping) /\ last_sector < LeadOut =>
    /\ \A n \in 1..toc.tracks :
         Base(n - 1) <= last_sector /\ first_sector < Base(n) => toc.audio[n - 1]
    /\ first_sector < Base(0) => toc.audio[0]

(* A span over a data track is refused.                                    *)
LEMMA StepSound == TypeInv /\ TableInv /\ SoundInv /\ [Next]_vars => SoundInv'
<1> SUFFICES ASSUME TypeInv, TableInv, SoundInv, [Next]_vars PROVE SoundInv'
  OBVIOUS
<1>0. TocInv
  BY DEF TypeInv
<1>1. CASE Usage \/ OpenDisc \/ BiasDisc
  <2>1. pc' \in {"exit", "open", "biased"}
    BY <1>1 DEF Usage, OpenDisc, BiasDisc
  <2> QED BY <2>1 DEF SoundInv, Ripping
<1>2. CASE ParseSpan
  <2>1. pc = "biased" /\ UNCHANGED <<opt, disc, toc>>
    BY <1>2 DEF ParseSpan
  <2>2. LeadOut' = LeadOut /\ \A j : Base(j)' = Base(j)
    BY <2>1 DEF Repaired, Shift, Base, LeadOut
  <2>3. CASE pc' = "exit"
    BY <2>3 DEF SoundInv, Ripping
  <2>4. CASE pc' # "exit"
    <3>1. \A n \in cdda_sector_gettrack(toc, first_sector')..cdda_sector_gettrack(toc, last_sector') :
             cdda_track_audiop(toc, n) # 0
      BY <1>2, <2>4 DEF ParseSpan
    <3>2. IsTable(toc) /\ Ordered(toc) /\ toc.tracks \in Nat \ {0}
          /\ toc.start \in [0..toc.tracks -> Int]
      BY <1>0, <2>1, BaseIs DEF TocInv, IsTable
    <3>3. \A j \in 0..toc.tracks : toc.start[j] = Base(j) /\ Base(j) \in Int /\ Base(j) <= LeadOut
      <4>1. \A j : Extra(j) = 0
        BY <2>1 DEF Extra, Ripping
      <4>2. \A j \in 0..toc.tracks : toc.start[j] = Base(j) + Extra(j)
        BY <2>1 DEF TableInv
      <4> QED BY <1>0, <3>2, <4>1, <4>2, BaseIs DEF LeadOut
    <3>4. first_sector' \in Int /\ last_sector' \in Int
      BY StepNum DEF TypeInv, NumInv
    <3> SUFFICES ASSUME last_sector' < LeadOut
                 PROVE  /\ \A n \in 1..toc.tracks :
                             Base(n - 1) <= last_sector' /\ first_sector' < Base(n) => toc.audio[n - 1]
                        /\ first_sector' < Base(0) => toc.audio[0]
      BY <2>1, <2>2 DEF SoundInv
    <3> DEFINE g == cdda_sector_gettrack(toc, first_sector')
               h == cdda_sector_gettrack(toc, last_sector')
    <3>5. last_sector' < toc.start[toc.tracks]
      BY <3>2, <3>3 DEF LeadOut
    <3>6. h \in 0..toc.tracks /\ last_sector' < toc.start[h]
      BY <3>2, <3>4, <3>5, InTrack
    <3>7. ASSUME NEW n \in 1..toc.tracks, Base(n - 1) <= last_sector', first_sector' < Base(n)
          PROVE  toc.audio[n - 1]
      <4>1. first_sector' < toc.start[toc.tracks]
        BY <3>2, <3>3, <3>4, <3>7 DEF LeadOut
      <4>2. g \in 0..toc.tracks /\ (g # 0 => toc.start[g - 1] <= first_sector')
        BY <3>2, <3>4, <4>1, InTrack
      <4> HIDE DEF g, h
      <4>3. g <= n
        <5> SUFFICES ASSUME g > n PROVE FALSE
          BY <3>2, <4>2
        <5>1. n \in 0..toc.tracks /\ g - 1 \in 0..toc.tracks /\ n <= g - 1
          BY <3>2, <4>2
        <5>2. toc.start[n] <= toc.start[g - 1]
          BY <5>1, <3>2 DEF Ordered
        <5>3. toc.start[g - 1] <= first_sector' /\ toc.start[n] = Base(n)
              /\ toc.start[n] \in Int /\ toc.start[g - 1] \in Int
          BY <3>2, <3>3, <4>2, <5>1
        <5> QED BY <3>4, <3>7, <5>2, <5>3
      <4>4. n <= h
        <5> SUFFICES ASSUME h < n PROVE FALSE
          BY <3>2, <3>6
        <5>1. h \in 0..toc.tracks /\ n - 1 \in 0..toc.tracks /\ h <= n - 1
          BY <3>2, <3>6
        <5>2. toc.start[h] <= toc.start[n - 1]
          BY <5>1, <3>2 DEF Ordered
        <5> QED BY <3>2, <3>3, <3>4, <3>6, <3>7, <5>1, <5>2
      <4>5. n \in g..h
        BY <3>2, <3>6, <4>2, <4>3, <4>4
      <4>6. cdda_track_audiop(toc, n) # 0
        BY <3>1, <4>5 DEF g, h
      <4> QED BY <3>2, <4>6, AudioIs
    <3>8. ASSUME first_sector' < Base(0) PROVE toc.audio[0]
      <4>1. first_sector' < toc.start[0]
        BY <3>2, <3>3, <3>8
      <4>2. g = 0
        BY <4>1 DEF cdda_sector_gettrack
      <4>3. 0 \in g..h
        BY <3>2, <3>6, <4>2
      <4>4. cdda_track_audiop(toc, 0) # 0
        BY <3>1, <4>3
      <4> QED BY <3>2, <4>4, AudioIs
    <3> QED BY <3>7, <3>8
  <2> QED BY <2>3, <2>4
<1>3. CASE StartRip
  <2>1. /\ pc = "parsed" /\ UNCHANGED <<opt, disc, first_sector, last_sector>>
        /\ toc' = toc \/ toc' = [toc EXCEPT !.start = [toc.start EXCEPT ![toc.tracks] = @ + 1]]
    BY <1>3 DEF StartRip
  <2>2. toc'.tracks = toc.tracks /\ toc'.audio = toc.audio
    BY <1>0, <2>1, LeadOutOrders DEF TocInv
  <2>3. LeadOut' = LeadOut /\ \A j : Base(j)' = Base(j)
    BY <2>1, <2>2 DEF Repaired, Shift, Base, LeadOut
  <2> QED BY <2>1, <2>2, <2>3 DEF SoundInv
<1>4. CASE Rips
  <2>1. Ripping /\ UNCHANGED <<toc, first_sector, last_sector>> /\ pc' # "parsed"
        /\ LeadOut' = LeadOut /\ \A j : Base(j)' = Base(j)
    BY <1>4, SameSetup DEF Rips, Ripping
  <2> QED BY <2>1 DEF SoundInv
<1>5. CASE UNCHANGED vars
  <2>1. UNCHANGED <<pc, toc, first_sector, last_sector>>
        /\ LeadOut' = LeadOut /\ \A j : Base(j)' = Base(j)
    BY <1>5, SameSetup DEF vars
  <2> QED BY <2>1 DEF SoundInv, Ripping
<1> QED BY <1>1, <1>2, <1>3, <1>4, <1>5, Quiet

(* From every sector of the span paranoia may read to its end.             *)
LEMMA ReadableIs ==
  ASSUME TypeInv, TableInv, SoundInv, pc = "parsed" \/ Ripping,
         NEW c \in Int, first_sector <= c, c <= last_sector, last_sector < LeadOut,
         c < Base(0) => Base(0) # 0
  PROVE  LastReadable(toc, c) >= last_sector
<1>0. TocInv /\ last_sector \in Int /\ first_sector \in Int
  BY DEF TypeInv, NumInv
<1>1. IsTable(toc) /\ Ordered(toc) /\ toc.tracks \in Nat \ {0} /\ toc.start \in [0..toc.tracks -> Int]
  BY <1>0, BaseIs DEF TocInv, Ripping, IsTable
<1>2. \A j \in 0..toc.tracks : Base(j) \in Int
  BY <1>0, BaseIs
<1>3. /\ \A j \in 0..(toc.tracks - 1) : toc.start[j] = Base(j)
      /\ toc.start[toc.tracks] >= LeadOut /\ LeadOut \in Int
  <2>1. \A j \in 0..toc.tracks : toc.start[j] = Base(j) + Extra(j)
    BY DEF TableInv
  <2>2. \A j \in 0..(toc.tracks - 1) : Extra(j) = 0 /\ j \in 0..toc.tracks
    BY <1>1 DEF Extra
  <2>3. Extra(toc.tracks) \in {0, 1} /\ toc.tracks \in 0..toc.tracks
    BY <1>1 DEF Extra
  <2>4. \A j \in 0..(toc.tracks - 1) : toc.start[j] = Base(j)
    BY <1>2, <2>1, <2>2
  <2>5. toc.start[toc.tracks] >= LeadOut /\ LeadOut \in Int
    BY <1>2, <2>1, <2>3 DEF LeadOut
  <2> QED BY <2>4, <2>5
<1>4. /\ \A n \in 1..toc.tracks :
           Base(n - 1) <= last_sector /\ first_sector < Base(n) => toc.audio[n - 1]
      /\ first_sector < Base(0) => toc.audio[0]
  BY DEF SoundInv
<1> DEFINE A == AudioTracks(toc)
           g == cdda_sector_gettrack(toc, c)
           h == cdda_sector_gettrack(toc, last_sector)
<1>5. /\ g \in 0..toc.tracks /\ c < toc.start[g] /\ (g # 0 => toc.start[g - 1] <= c)
      /\ h \in 0..toc.tracks /\ last_sector < toc.start[h] /\ (h # 0 => toc.start[h - 1] <= last_sector)
  <2>1. c < toc.start[toc.tracks] /\ last_sector < toc.start[toc.tracks]
    BY <1>0, <1>1, <1>3
  <2> QED BY <1>0, <1>1, <2>1, InTrack
<1>6. \E n \in A : n >= h
  <2>1. A = {n \in 1..toc.tracks : toc.audio[n - 1]}
    BY <1>1, AudioIs DEF AudioTracks
  <2> HIDE DEF A, h
  <2>2. CASE h = 0
    <3>1. first_sector < Base(0)
      BY <1>0, <1>1, <1>2, <1>3, <1>5, <2>2
    <3>2. toc.audio[1 - 1]
      BY <1>4, <3>1
    <3>3. 1 \in A
      BY <1>1, <2>1, <3>2
    <3> QED BY <2>2, <3>3
  <2>3. CASE h # 0
    <3>1. h \in 1..toc.tracks /\ h - 1 \in 0..(toc.tracks - 1)
      BY <1>1, <1>5, <2>3
    <3>2. Base(h - 1) <= last_sector
      BY <1>3, <1>5, <2>3, <3>1
    <3>3. first_sector < Base(h)
      <4>1. CASE h = toc.tracks
        BY <1>0, <1>3, <4>1 DEF LeadOut
      <4>2. CASE h # toc.tracks
        <5>1. h \in 0..(toc.tracks - 1) /\ h \in 0..toc.tracks
          BY <1>1, <3>1, <4>2
        <5>2. toc.start[h] = Base(h) /\ Base(h) \in Int
          BY <1>2, <1>3, <5>1
        <5>3. last_sector < Base(h) /\ first_sector <= last_sector
          BY <1>0, <1>5, <5>2
        <5> QED BY <1>0, <5>2, <5>3
      <4> QED BY <4>1, <4>2
    <3>4. toc.audio[h - 1]
      BY <1>4, <3>1, <3>2, <3>3
    <3> QED BY <1>1, <2>1, <3>1, <3>4
  <2> QED BY <2>2, <2>3
<1>7. cdda_disc_lastsector(toc) >= last_sector
  <2>1. A \in SUBSET (1..toc.tracks)
    BY DEF AudioTracks
  <2> HIDE DEF A, h
  <2>2. PICK n \in A : n >= h
    BY <1>6
  <2>3. A \in SUBSET Int /\ \A x \in A : x <= toc.tracks
    BY <1>1, <2>1
  <2>4. Max(A) \in A /\ Max(A) >= n
    <3>1. toc.tracks \in Int /\ A # {}
      BY <1>1, <2>2
    <3>2. Max(A) \in A /\ \A x \in A : x <= Max(A)
      BY <2>3, <3>1, MaxIs
    <3>3. n \in Int /\ Max(A) \in Int /\ n <= Max(A)
      BY <2>2, <2>3, <3>2
    <3> QED BY <3>2, <3>3
  <2>5. Max(A) \in 1..toc.tracks /\ h <= Max(A)
    <3>1. h \in 0..toc.tracks
      BY <1>5
    <3>2. n \in Int /\ n >= h
      BY <2>2, <2>3
    <3>3. Max(A) \in 1..toc.tracks
      BY <2>1, <2>4
    <3> QED BY <1>1, <2>4, <3>1, <3>2, <3>3
  <2>6. toc.start[h] <= toc.start[Max(A)]
    BY <1>1, <1>5, <2>5 DEF Ordered
  <2>7. cdda_track_lastsector(toc, Max(A)) = toc.start[Max(A)] - 1 /\ toc.start[Max(A)] \in Int
    BY <1>1, <2>5, TrackEnds
  <2>8. cdda_disc_lastsector(toc) = cdda_track_lastsector(toc, Max(A))
    BY <2>2 DEF cdda_disc_lastsector, A
  <2>9. last_sector < toc.start[h] /\ toc.start[h] \in Int
    BY <1>1, <1>5
  <2> QED BY <1>0, <2>6, <2>7, <2>8, <2>9
<1> DEFINE data == {i \in g..(toc.tracks - 1) : cdda_track_audiop(toc, i) = 0}
           last == cdda_track_lastsector(toc, Max(data) - 1)
<1>8. CASE data = {} \/ last = -1
  <2>1. LastReadable(toc, c) = cdda_disc_lastsector(toc)
    BY <1>8 DEF LastReadable
  <2> QED BY <1>7, <2>1
<1>9. CASE ~(data = {} \/ last = -1)
  <2>1. LastReadable(toc, c) = last
    BY <1>9 DEF LastReadable
  <2>2. data \in SUBSET Int /\ data # {} /\ \A x \in data : x <= toc.tracks
    BY <1>1, <1>5, <1>9
  <2>3. Max(data) \in data
    <3> HIDE DEF data
    <3>1. toc.tracks \in Int
      BY <1>1
    <3> QED BY <2>2, <3>1, MaxIs
  <2> DEFINE M == Max(data)
  <2>4. M \in g..(toc.tracks - 1) /\ cdda_track_audiop(toc, M) = 0
    BY <2>3
  <2> HIDE DEF data, M, g, h
  <2>5. g \in Nat /\ M \in Nat /\ M <= toc.tracks - 1
    BY <1>1, <1>5, <2>4
  <2>6. first_sector < Base(M)
    <3>1. g \in 0..toc.tracks /\ M \in 0..toc.tracks /\ g <= M
      BY <1>1, <1>5, <2>4, <2>5
    <3>2. toc.start[g] <= toc.start[M]
      BY <3>1 , <1>1 DEF Ordered
    <3>3. toc.start[M] = Base(M) /\ Base(M) \in Int
      BY <1>1, <1>2, <1>3, <2>5
    <3>4. c < toc.start[g] /\ toc.start[g] \in Int
      BY <1>1, <1>5, <3>1
    <3> QED BY <1>0, <3>2, <3>3, <3>4
  <2>7. M # 0
    <3> SUFFICES ASSUME M = 0 PROVE FALSE
      OBVIOUS
    <3>1. ~toc.audio[0]
      BY <1>1, <2>4, AudioIs
    <3> QED BY <1>4, <2>6, <3>1
  <2>8. M \in 1..toc.tracks /\ M - 1 \in 0..(toc.tracks - 1)
    BY <1>1, <2>5, <2>7
  <2>9. ~toc.audio[M - 1]
    BY <1>1, <2>4, <2>8, AudioIs
  <2>10. Base(M - 1) > last_sector
    BY <1>0, <1>1, <1>2, <1>4, <2>6, <2>8, <2>9
  <2>11. last = toc.start[M - 1] - 1
    <3>1. CASE M - 1 \in 1..toc.tracks
      BY <1>1, <3>1, TrackEnds DEF M
    <3>2. CASE M - 1 = 0
      <4>1. c < Base(0)
        BY <1>0, <1>1, <1>2, <2>10, <3>2
      <4>2. toc.start[0] # 0
        BY <1>1, <1>3, <4>1
      <4>3. last = cdda_track_lastsector(toc, 0)
        BY <3>2 DEF M
      <4> HIDE DEF last
      <4> QED BY <3>2, <4>2, <4>3 DEF cdda_track_lastsector
    <3> QED BY <1>1, <2>8, <3>1, <3>2
  <2> QED BY <1>0, <1>1, <1>2, <1>3, <2>1, <2>8, <2>10, <2>11
<1> QED BY <1>8, <1>9

-----------------------------------------------------------------------------
(* The progress of a rip.                                                  *)

(* The sectors from f to l are the part of track n that is in the span.    *)
PieceOf(f, l, n) ==
  /\ first_sector <= f /\ f <= l /\ l <= last_sector
  /\ opt.batch =>
       /\ n \in 0..toc.tracks
       /\ f = IF n = 0 \/ Base(n - 1) <= first_sector THEN first_sector ELSE Base(n - 1)
       /\ l + 1 = IF last_sector + 1 <= Base(n) THEN last_sector + 1 ELSE Base(n)
  /\ ~opt.batch => n = NoTrack /\ f = first_sector /\ l = last_sector

(* Between two files: at the beginning of the span or of a track.          *)
LoopInv ==
  pc = "loop" /\ cursor <= last_sector =>
    /\ first_sector <= cursor
    /\ opt.batch => cursor = first_sector \/ \E j \in 0..toc.tracks : cursor = Base(j)
    /\ ~opt.batch => cursor = first_sector \/ ~medium

PieceInv == Writing => PieceOf(batch_first, batch_last, batch_track)

(* The last piece of a batch, if it is one sector that begins with a       *)
(* leftover.                                                               *)
ShortLast ==
  opt.batch /\ sample_offset # 0 /\ batch_first = batch_last /\ batch_first # first_sector

Data == files[batch_track].data

(* What has been written of the piece.                                     *)
DataInv ==
  /\ Writing => /\ files[batch_track].claim = At(batch_last + 1) - At(batch_first)
                /\ InPlace(Data, At(batch_first) + sample_offset)
  /\ pc = "reading" =>
       /\ batch_first <= cursor /\ cursor <= batch_last
       /\ medium => Len(Data) = At(cursor) - At(batch_first) + offset_skip - sample_offset
  /\ pc = "shifting" =>
       /\ cursor = batch_last + 1 /\ offset_skip = 0
       /\ Len(Data) = At(batch_last + 1) - At(batch_first) - sample_offset
  /\ pc = "closing" /\ ~skipped_flag =>
       /\ cursor = batch_last + 1
       /\ Len(Data) = At(batch_last + 1) - At(batch_first) \/ ShortLast

(* What is kept for the next file: the sector main() will count next, or   *)
(* the place to begin in it.                                               *)
KeptSector ==
  /\ offset_buffer_used # 0 =>
       /\ offset_buffer_used = sample_offset /\ offset_skip = 0
       /\ first_sector < cursor
       /\ InPlace(offset_buffer, At(cursor))
  /\ offset_buffer_used = 0 /\ medium => offset_skip = sample_offset
BufferInv ==
  (pc = "loop" \/ (pc = "closing" /\ ~skipped_flag)) /\ cursor <= last_sector => KeptSector

(* All of the span can be read.                                            *)
ReachInv ==
  Writing \/ (pc = "loop" /\ cursor <= last_sector) => reader.last >= last_sector

(* A single file that is dropped inside the span has lost its disc.        *)
DroppedInv ==
  pc = "closing" /\ skipped_flag /\ ~opt.batch /\ cursor <= last_sector =>
    first_sector <= cursor /\ ~medium

AbsentInv == pc \in {"start", "open", "biased", "parsed"} => \A n \in Names : files[n] = NoFile

RipInv == LoopInv /\ PieceInv /\ DataInv /\ BufferInv /\ ReachInv /\ DroppedInv
          /\ FileHoldsTrack /\ AbsentInv

(* What is proved of the states already.                                   *)
Known == TypeInv /\ TableInv /\ SoundInv /\ InStepInv

(* The types that the proofs below need.                                   *)
LEMMA KnownTypes ==
  ASSUME TypeInv
  PROVE  /\ cursor \in Int /\ first_sector \in Int /\ last_sector \in Int
         /\ batch_first \in Int /\ batch_last \in Int
         /\ reader \in [cursor : Int, last : Int]
         /\ offset_skip \in 0..(Samples - 1) /\ offset_buffer_used \in 0..(Samples - 1)
         /\ Writing \/ pc \in {"loop", "parsed"} => sample_offset \in 0..(Samples - 1)
         /\ Samples \in Nat \ {0}
         /\ TocInv /\ FileInv /\ OffsetInv /\ NumInv
         /\ files \in [Names -> File]
         /\ NoTrack \in Names /\ 0..toc.tracks \subseteq Names
BY RipAssumption DEF TypeInv, NumInv, OffsetInv, FileInv, Writing, Names, TocInv

(* A wanted sample of the table, where it is on the disc.                  *)
LEMMA MovedIs ==
  ASSUME TypeInv, TableInv, Ripping, BiasWhole, NEW j \in 0..toc.tracks
  PROVE  Moved(Repaired.start[j]) = At(Base(j)) + sample_offset
<1>1. opt.sample \in Int /\ opt.toc \in Int /\ sample_offset = opt.sample % Samples
  BY Given DEF TypeInv, TocInv, TableInv
<1>2. /\ opt.sample \div Samples \in Int /\ opt.sample % Samples \in 0..(Samples - 1)
      /\ opt.sample = (opt.sample \div Samples) * Samples + (opt.sample % Samples)
      /\ opt.sample \in 0..(Samples - 1) => opt.sample % Samples = opt.sample
  BY <1>1, OffsetSplit
<1>3. Repaired.start[j] \in Int /\ Repaired.start[0] \in Int /\ Samples \in Nat
  BY BaseIs, RipAssumption DEF TypeInv
<1> DEFINE s == Repaired.start[j]
           q == opt.sample \div Samples
           r == opt.sample % Samples
<1>4. CASE opt.bias
  <2>1. Moved(s) = At(Base(j)) + opt.sample
    BY <1>4 DEF Moved, At, Base, Shift
  <2> QED BY <1>1, <1>2, <1>4, <2>1 DEF BiasWhole
<1>5. CASE ~opt.bias
  <2>1. Moved(s) = (s + opt.toc) * Samples + opt.sample
    BY <1>5 DEF Moved
  <2>2. At(Base(j)) = (s + (opt.toc + q)) * Samples
    BY <1>5 DEF At, Base, Shift
  <2>3. s \in Int /\ q \in Int /\ r \in Int /\ opt.sample = q * Samples + r
    BY <1>2, <1>3
  <2> HIDE DEF s, q, r
  <2>4. (s + (opt.toc + q)) * Samples = (s + opt.toc) * Samples + q * Samples
    BY <1>1, <1>3, <2>3
  <2>5. (s + opt.toc) * Samples \in Int /\ q * Samples \in Int
    BY <1>1, <1>3, <2>3
  <2>6. Moved(s) = At(Base(j)) + r
    BY <2>1, <2>2, <2>3, <2>4, <2>5
  <2> QED BY <1>1, <2>6 DEF s, r
<1> QED BY <1>4, <1>5

(* The wanted samples of a piece.                                          *)
LEMMA WantedIs ==
  ASSUME TypeInv, TableInv, Writing, BiasWhole,
         NEW f \in Int, NEW l \in Int, NEW n, PieceOf(f, l, n)
  PROVE  /\ n \in Names
         /\ From(n) = At(f) + sample_offset /\ To(n) = At(l + 1) + sample_offset
         /\ SpanFrom = At(first_sector) + sample_offset
         /\ SpanTo - sample_offset = At(last_sector + 1)
<1>0. /\ first_sector \in Int /\ last_sector \in Int /\ last_sector + 1 \in Int /\ sample_offset \in Int
      /\ NoTrack \in Names /\ 0..toc.tracks \subseteq Names /\ Ripping
  BY KnownTypes DEF Ripping, Writing
<1>1. \A c \in Int : At(c) \in Int
  BY AtIs
<1>2. \A c, d \in Int : c <= d => At(c) <= At(d)
  BY AtIs
<1>3. SpanFrom = At(first_sector) + sample_offset /\ SpanTo = At(last_sector + 1) + sample_offset
  BY DEF SpanFrom, SpanTo, At
<1>4. SpanTo - sample_offset = At(last_sector + 1)
  BY <1>0, <1>1, <1>3
<1>5. CASE ~opt.batch
  <2>1. n = NoTrack /\ f = first_sector /\ l = last_sector
    BY <1>5 DEF PieceOf
  <2> QED BY <1>0, <1>3, <1>4, <2>1 DEF From, To
<1>6. CASE opt.batch
  <2>1. /\ n \in 0..toc.tracks
        /\ f = IF n = 0 \/ Base(n - 1) <= first_sector THEN first_sector ELSE Base(n - 1)
        /\ l + 1 = IF last_sector + 1 <= Base(n) THEN last_sector + 1 ELSE Base(n)
    BY <1>6 DEF PieceOf
  <2>2. n # NoTrack /\ toc.tracks \in Nat
    BY <2>1, BaseIs DEF NoTrack, TypeInv
  <2>3. \A j \in 0..toc.tracks : Base(j) \in Int
    BY BaseIs DEF TypeInv
  <2>4. From(n) = At(f) + sample_offset
    <3>1. CASE n = 0
      BY <1>3, <2>1, <3>1 DEF From
    <3>2. CASE n # 0
      <4> DEFINE b == Base(n - 1)
      <4>1. n - 1 \in 0..toc.tracks /\ b \in Int
        BY <2>1, <2>2, <2>3, <3>2
      <4>2. Moved(Repaired.start[n - 1]) = At(b) + sample_offset
        BY <1>0, <4>1, MovedIs
      <4> HIDE DEF b
      <4>3. From(n) = Max({SpanFrom, At(b) + sample_offset})
        BY <2>2, <3>2, <4>2 DEF From
      <4>4. From(n) = IF SpanFrom >= At(b) + sample_offset THEN SpanFrom ELSE At(b) + sample_offset
        BY <1>0, <1>1, <1>3, <4>1, <4>3, MaxOfTwo
      <4>5. f = IF b <= first_sector THEN first_sector ELSE b
        BY <2>1, <3>2 DEF b
      <4>6. CASE b <= first_sector
        BY <1>0, <1>1, <1>2, <1>3, <4>1, <4>4, <4>5, <4>6
      <4>7. CASE ~(b <= first_sector)
        <5>1. first_sector <= b
          BY <1>0, <4>1, <4>7
        <5>2. At(first_sector) <= At(b) /\ At(b) \in Int /\ At(first_sector) \in Int
          BY <1>0, <1>1, <1>2, <4>1, <5>1
        <5>3. SpanFrom >= At(b) + sample_offset => SpanFrom = At(b) + sample_offset
          BY <1>0, <1>3, <5>2
        <5> QED BY <4>4, <4>5, <4>7, <5>3
      <4> QED BY <4>6, <4>7
    <3> QED BY <3>1, <3>2
  <2>5. To(n) = At(l + 1) + sample_offset
    <3> DEFINE b == Base(n)
    <3>1. b \in Int
      BY <2>1, <2>3
    <3>2. 0 \in 0..toc.tracks
      BY <2>2
    <3>3. Moved(Repaired.start[n]) = At(b) + sample_offset
      BY <1>0, <2>1, MovedIs
    <3> HIDE DEF b
    <3>4. To(n) = Min({SpanTo, At(b) + sample_offset})
      BY <2>2, <3>3 DEF To
    <3>5. To(n) = IF SpanTo <= At(b) + sample_offset THEN SpanTo ELSE At(b) + sample_offset
      BY <1>0, <1>1, <1>3, <3>1, <3>4, MinOfTwo
    <3>6. l + 1 = IF last_sector + 1 <= b THEN last_sector + 1 ELSE b
      BY <2>1 DEF b
    <3>7. CASE last_sector + 1 <= b
      BY <1>0, <1>1, <1>2, <1>3, <3>1, <3>5, <3>6, <3>7
    <3>8. CASE ~(last_sector + 1 <= b)
      <4>1. b <= last_sector + 1
        BY <1>0, <3>1, <3>8
      <4>2. At(b) <= At(last_sector + 1) /\ At(b) \in Int /\ At(last_sector + 1) \in Int
        BY <1>0, <1>1, <1>2, <3>1, <4>1
      <4>3. SpanTo <= At(b) + sample_offset => SpanTo = At(b) + sample_offset
        BY <1>0, <1>3, <4>2
      <4> QED BY <3>5, <3>6, <3>8, <4>3
    <3> QED BY <3>7, <3>8
  <2> QED BY <1>0, <1>3, <1>4, <2>1, <2>4, <2>5
<1> QED BY <1>5, <1>6

(* The piece that comes next is one.                                       *)
LEMMA NextPieceOf ==
  ASSUME TypeInv, TableInv, LoopInv, KnownSpan, pc = "loop", cursor <= last_sector
  PROVE  /\ PieceOf(NextPiece.first, NextPiece.last, NextPiece.track)
         /\ NextPiece.first \in Int /\ NextPiece.last \in Int
         /\ opt.batch => NextPiece.first = cursor
<1>0. cursor \in Int /\ first_sector \in Int /\ last_sector \in Int /\ TocInv /\ Ripping
  BY KnownTypes DEF Ripping
<1>1. IsTable(toc) /\ Ordered(toc) /\ toc.tracks \in Nat \ {0} /\ toc.start \in [0..toc.tracks -> Int]
  BY <1>0, BaseIs DEF TocInv, IsTable
<1>2. first_sector <= cursor /\ last_sector < LeadOut
  BY DEF LoopInv, KnownSpan
<1>3. CASE ~opt.batch
  BY <1>0, <1>2, <1>3 DEF NextPiece, PieceOf
<1>4. CASE opt.batch
  <2> DEFINE n == cdda_sector_gettrack(toc, cursor)
  <2>1. NextPiece = [first |-> cursor, last |-> PieceEnd(n), track |-> n]
    BY <1>4 DEF NextPiece
  <2>2. \A j \in 0..toc.tracks : Base(j) \in Int /\ toc.start[j] = Base(j) + Extra(j)
    BY <1>0, BaseIs DEF TableInv
  <2>3. \A j \in 0..(toc.tracks - 1) : toc.start[j] = Base(j)
    <3>1. \A j \in 0..(toc.tracks - 1) : j \in 0..toc.tracks /\ Extra(j) = 0
      BY <1>1 DEF Extra
    <3> QED BY <2>2, <3>1
  <2>4. toc.start[toc.tracks] >= LeadOut /\ LeadOut \in Int
    <3>1. Extra(toc.tracks) \in {0, 1} /\ toc.tracks \in 0..toc.tracks
      BY <1>1 DEF Extra
    <3> QED BY <2>2, <3>1 DEF LeadOut
  <2>5. /\ n \in 0..toc.tracks /\ cursor < toc.start[n] /\ (n # 0 => toc.start[n - 1] <= cursor)
        /\ (cursor < toc.start[0] => n = 0)
    <3>1. cursor < toc.start[toc.tracks]
      BY <1>0, <1>1, <1>2, <2>4
    <3> QED BY <1>0, <1>1, <3>1, InTrack
  <2> HIDE DEF n
  <2>6. cdda_track_lastsector(toc, n) = toc.start[n] - 1 /\ toc.start[n] \in Int
    <3>1. CASE n = 0
      <4>1. toc.start[0] # 0
        BY <2>5, <3>1 DEF KnownSpan
      <4> QED BY <1>1, <3>1, <4>1 DEF cdda_track_lastsector
    <3>2. CASE n # 0
      <4>1. n \in 1..toc.tracks
        BY <1>1, <2>5, <3>2
      <4> QED BY <1>1, <4>1, TrackEnds
    <3> QED BY <3>1, <3>2
  <2>7. PieceEnd(n) = IF toc.start[n] - 1 <= last_sector THEN toc.start[n] - 1 ELSE last_sector
    BY <1>0, <2>6, MinOfTwo DEF PieceEnd
  <2>8. PieceEnd(n) \in Int /\ cursor <= PieceEnd(n) /\ PieceEnd(n) <= last_sector
    BY <1>0, <2>5, <2>6, <2>7
  <2>9. PieceEnd(n) + 1 = IF last_sector + 1 <= Base(n) THEN last_sector + 1 ELSE Base(n)
    <3>1. CASE n = toc.tracks
      BY <1>0, <1>2, <2>4, <2>6, <2>7, <3>1 DEF LeadOut
    <3>2. CASE n # toc.tracks
      <4>1. n \in 0..(toc.tracks - 1)
        BY <1>1, <2>5, <3>2
      <4>2. toc.start[n] = Base(n)
        BY <2>3, <4>1
      <4> QED BY <1>0, <2>6, <2>7, <4>2
    <3> QED BY <3>1, <3>2
  <2>10. cursor = IF n = 0 \/ Base(n - 1) <= first_sector THEN first_sector ELSE Base(n - 1)
    <3>1. ASSUME NEW j \in 0..toc.tracks, cursor = Base(j) PROVE n # 0 /\ Base(n - 1) = cursor
      <4>1. j \in 0..(toc.tracks - 1) /\ toc.start[j] = cursor
        <5>1. j # toc.tracks
          BY <1>0, <1>2, <2>4, <3>1 DEF LeadOut
        <5> QED BY <1>1, <2>3, <3>1, <5>1
      <4>2. ~(n <= j)
        <5> SUFFICES ASSUME n <= j PROVE FALSE
          OBVIOUS
        <5>1. toc.start[n] <= toc.start[j]
          BY <1>1, <2>5, <4>1 DEF Ordered
        <5> QED BY <1>0, <2>5, <2>6, <4>1, <5>1
      <4>3. n # 0 /\ n - 1 \in 0..(toc.tracks - 1) /\ j <= n - 1
        BY <1>1, <2>5, <4>1, <4>2
      <4>4. toc.start[j] <= toc.start[n - 1]
        BY <1>1, <4>1, <4>3 DEF Ordered
      <4>5. toc.start[n - 1] = Base(n - 1) /\ toc.start[n - 1] \in Int
        BY <1>1, <2>3, <4>3
      <4> QED BY <1>0, <2>5, <4>1, <4>3, <4>4, <4>5
    <3>2. CASE cursor = first_sector
      <4>1. CASE n = 0
        BY <3>2, <4>1
      <4>2. CASE n # 0
        <5>1. n - 1 \in 0..(toc.tracks - 1)
          BY <1>1, <2>5, <4>2
        <5>2. Base(n - 1) <= cursor
          BY <2>3, <2>5, <4>2, <5>1
        <5> QED BY <3>2, <5>2
      <4> QED BY <4>1, <4>2
    <3>3. CASE cursor # first_sector
      <4>1. PICK j \in 0..toc.tracks : cursor = Base(j)
        BY <1>4, <3>3 DEF LoopInv
      <4>2. n # 0 /\ Base(n - 1) = cursor
        BY <3>1, <4>1
      <4>3. ~(Base(n - 1) <= first_sector)
        BY <1>0, <1>2, <3>3, <4>2
      <4> QED BY <4>2, <4>3
    <3> QED BY <3>2, <3>3
  <2> QED BY <1>0, <1>2, <1>4, <2>1, <2>5, <2>8, <2>9, <2>10 DEF PieceOf
<1> QED BY <1>3, <1>4

-----------------------------------------------------------------------------
(* What the steps keep of it.                                              *)

(* Files that are kept stay as they are.                                   *)
LEMMA KeptStays ==
  ASSUME FileHoldsTrack, UNCHANGED setup,
         \A n \in Names : files'[n] = files[n] \/ files'[n].state # "kept"
  PROVE  FileHoldsTrack'
<1>1. /\ Names' = Names /\ \A n : From(n)' = From(n) /\ To(n)' = To(n)
      /\ SpanTo' = SpanTo /\ SpanFrom' = SpanFrom /\ UNCHANGED <<opt, sample_offset>>
  BY SameSetup DEF setup, SpanTo, SpanFrom
<1> SUFFICES ASSUME NEW n \in Names, Whole(n)'
             PROVE  /\ Len(files'[n].data) = To(n) - From(n)
                    /\ files'[n].claim = Len(files'[n].data)
                    /\ \A i \in 1..Len(files'[n].data) :
                         \/ files'[n].data[i] = From(n) + i - 1
                         \/ files'[n].data[i] = Padding /\ From(n) + i > SpanTo - sample_offset
  BY <1>1 DEF FileHoldsTrack
<1>2. files'[n] = files[n]
  BY DEF Whole
<1>3. Whole(n)
  BY <1>1, <1>2 DEF Whole, OneSectorPiece
<1> QED BY <1>2, <1>3 DEF FileHoldsTrack

(* The set-up: nothing is written yet.                                     *)
LEMMA SetupRip ==
  ASSUME Known, RipInv, Usage \/ OpenDisc \/ BiasDisc \/ ParseSpan
  PROVE  RipInv'
<1>1. /\ pc \in {"start", "open", "biased"} /\ pc' \in {"exit", "open", "biased", "parsed"}
      /\ UNCHANGED <<disc, files>>
  BY DEF Usage, OpenDisc, BiasDisc, ParseSpan
<1>2. Names' = Names /\ \A n \in Names : files'[n] = NoFile
  BY <1>1 DEF RipInv, AbsentInv, Names
<1>3. AbsentInv' /\ FileHoldsTrack'
  BY <1>2 DEF AbsentInv, FileHoldsTrack, Whole, NoFile
<1>4. pc' # "loop" /\ ~Writing' /\ pc' # "closing" /\ pc' # "reading" /\ pc' # "shifting"
  BY <1>1 DEF Writing
<1> QED BY <1>3, <1>4 DEF RipInv, LoopInv, PieceInv, DataInv, BufferInv, ReachInv, DroppedInv

(* The rip begins at the first sector.                                     *)
LEMMA StartRips ==
  ASSUME Known, RipInv, KnownSpan', StartRip
  PROVE  RipInv'
<1>0. /\ pc = "parsed" /\ pc' = "loop" /\ cursor' = first_sector
      /\ reader' = SeekTo(toc, first_sector) /\ offset_skip' = sample_offset
      /\ UNCHANGED <<opt, disc, sample_offset, first_sector, last_sector, offset_buffer_used, files>>
      /\ toc' = toc \/ toc' = [toc EXCEPT !.start = [toc.start EXCEPT ![toc.tracks] = @ + 1]]
  BY DEF StartRip
<1>1. first_sector \in Int /\ last_sector \in Int /\ TypeInv /\ TableInv /\ SoundInv /\ TocInv
  BY KnownTypes DEF Known
<1>2. Names' = Names /\ \A n \in Names : files'[n] = NoFile
  BY <1>0 DEF RipInv, AbsentInv, Names
<1>3. AbsentInv' /\ FileHoldsTrack'
  BY <1>0, <1>2 DEF AbsentInv, FileHoldsTrack, Whole, NoFile
<1>4. ~Writing' /\ offset_buffer_used' = 0
  BY <1>0 DEF Writing, Known, InStepInv
<1>5. LoopInv' /\ BufferInv' /\ PieceInv' /\ DataInv' /\ DroppedInv'
  BY <1>0, <1>1, <1>4 DEF LoopInv, BufferInv, KeptSector, PieceInv, DataInv, DroppedInv
<1>6. ReachInv'
  <2> SUFFICES ASSUME cursor' <= last_sector' PROVE reader'.last >= last_sector'
    BY <1>0, <1>4 DEF ReachInv
  <2>1. /\ IsTable(toc) /\ Ordered(toc) /\ toc.tracks \in Nat \ {0}
        /\ toc.start \in [0..toc.tracks -> Int] /\ Base(0) \in Int
    BY <1>0, <1>1, BaseIs DEF TocInv, IsTable
  <2>2. toc'.tracks = toc.tracks /\ toc'.start[0] = toc.start[0]
    <3>1. CASE toc' = toc
      BY <3>1
    <3>2. CASE toc' = [toc EXCEPT !.start = [toc.start EXCEPT ![toc.tracks] = @ + 1]]
      <4>1. toc'.tracks = toc.tracks /\ toc'.start = [toc.start EXCEPT ![toc.tracks] = @ + 1]
        BY <2>1, <3>2, LeadOutOrders
      <4> QED BY <2>1, <4>1
    <3> QED BY <1>0, <3>1, <3>2
  <2>3. LeadOut' = LeadOut
    BY <1>0, <2>2 DEF LeadOut, Base, Shift, Repaired
  <2>4. toc.start[0] = Base(0)
    <3>1. 0 \in 0..toc.tracks /\ Extra(0) = 0
      BY <2>1 DEF Extra
    <3> QED BY <1>0, <1>1, <2>1, <3>1 DEF TableInv
  <2>5. last_sector < LeadOut /\ (first_sector < Base(0) => Base(0) # 0)
    BY <1>0, <2>2, <2>3, <2>4 DEF KnownSpan
  <2>6. LastReadable(toc, first_sector) >= last_sector
    BY <1>0, <1>1, <2>5, ReadableIs
  <2> QED BY <1>0, <2>6 DEF SeekTo
<1> QED BY <1>3, <1>5, <1>6 DEF RipInv

(* A file is opened and begun with what is left of the last sector.        *)
LEMMA OpenRips ==
  ASSUME Known, RipInv, Undisturbed,
         NEW o \in BOOLEAN, NEW w \in BOOLEAN, OpenFile(o, w)
  PROVE  RipInv'
<1>0. /\ pc = "loop" /\ cursor <= last_sector
      /\ UNCHANGED <<setup, reader, offsets, medium>>
      /\ batch_first' = NextPiece.first /\ batch_last' = NextPiece.last
      /\ batch_track' = NextPiece.track
  BY OpenIs DEF Known
<1>1. /\ TypeInv /\ TableInv /\ SoundInv /\ InStepInv /\ LoopInv /\ BufferInv /\ ReachInv
      /\ FileHoldsTrack /\ KnownSpan /\ LongPieces
  BY DEF Known, RipInv, Undisturbed
<1>2. /\ cursor \in Int /\ first_sector \in Int /\ last_sector \in Int
      /\ sample_offset \in 0..(Samples - 1) /\ offset_skip \in 0..(Samples - 1)
      /\ offset_buffer_used \in 0..(Samples - 1) /\ Samples \in Nat \ {0}
      /\ files \in [Names -> File] /\ OffsetInv
      /\ NoTrack \in Names /\ 0..toc.tracks \subseteq Names
  BY <1>0, <1>1, KnownTypes
<1> DEFINE f == NextPiece.first
           l == NextPiece.last
           n == NextPiece.track
<1>3. PieceOf(f, l, n) /\ f \in Int /\ l \in Int /\ (opt.batch => f = cursor)
  BY <1>0, <1>1, NextPieceOf
<1>4. n \in Names /\ first_sector <= f /\ f <= l /\ l <= last_sector
      /\ (~opt.batch => f = first_sector /\ l = last_sector)
  BY <1>2, <1>3 DEF PieceOf
<1>5. KeptSector /\ reader.last >= last_sector /\ first_sector <= cursor
      /\ (~opt.batch => cursor = first_sector \/ ~medium)
      /\ (~opt.batch => offset_buffer_used = 0)
  BY <1>0, <1>1 DEF BufferInv, ReachInv, LoopInv, InStepInv
<1>6. offset_buffer_used # 0 => l > cursor \/ l = last_sector
  BY <1>0, <1>1 DEF LongPieces
<1>7. /\ UNCHANGED <<opt, sample_offset, first_sector, last_sector, offset_buffer, offset_buffer_used,
                     offset_skip, toc, disc>>
      /\ Names' = Names
      /\ \A d, a : InPlace(d, a)' = InPlace(d, a)
      /\ \A j : Base(j)' = Base(j)
  BY <1>0, SameSetup DEF offsets
<1> HIDE DEF f, l, n
<1>9. PieceOf(batch_first', batch_last', batch_track')
  BY <1>0, <1>3 DEF f, l, n
<1>10. PieceOf(batch_first, batch_last, batch_track)'
  BY <1>7, <1>9 DEF PieceOf
<1>11. CASE pc' = "exit" /\ UNCHANGED <<files, cursor, skipped_flag>>
  <2>1. FileHoldsTrack'
    BY <1>0, <1>1, <1>11, KeptStays
  <2> QED BY <1>11, <2>1
      DEF RipInv, LoopInv, PieceInv, DataInv, BufferInv, ReachInv, DroppedInv, AbsentInv, Writing
<1>12. CASE /\ files' = [files EXCEPT ![batch_track'] = NewFile]
            /\ cursor' = IF offset_buffer_used # 0 THEN cursor + 1 ELSE cursor
            /\ skipped_flag' = FALSE
            /\ \/ pc' = "exit"
               \/ pc' = "reading" /\ cursor' <= batch_last'
               \/ pc' = "closing" /\ ~(cursor' <= batch_last')
  <2>1. batch_track' = n /\ batch_first' = f /\ batch_last' = l /\ files'[n] = NewFile
    BY <1>0, <1>2, <1>4, <1>12 DEF f, l, n
  <2>2. FileHoldsTrack'
    <3>1. \A m \in Names : files'[m] = files[m] \/ files'[m].state # "kept"
      BY <1>2, <1>12 DEF NewFile
    <3> QED BY <1>0, <1>1, <3>1, KeptStays
  <2>3. Data' = Rest
    BY <2>1 DEF Data, NewFile
  <2>4. files'[batch_track'].claim = At(l + 1) - At(f)
    <3>1. files'[batch_track'].claim = (l - f + 1) * Samples
      BY <2>1 DEF NewFile, l, f
    <3>2. l - f + 1 = (l + 1) - f /\ l + 1 \in Int
      BY <1>3
    <3>3. ((l + 1) - f) * Samples = At(l + 1) - At(f)
      BY <1>3, <3>2, AtIs
    <3> QED BY <3>1, <3>2, <3>3
  <2>5. /\ At(cursor) \in Int /\ At(f) \in Int /\ At(cursor + 1) = At(cursor) + Samples
        /\ At(cursor + 1) \in Int
    <3>1. \A c \in Int : At(c) \in Int /\ At(c + 1) = At(c) + Samples
      BY AtIs
    <3> QED BY <1>2, <1>3, <3>1
  <2>6. CASE offset_buffer_used = 0
    <3>1. Rest = <<>> /\ cursor' = cursor
      BY <1>12, <2>6 DEF Rest
    <3>2. InPlace(Rest, At(f) + sample_offset)
      BY <3>1 DEF InPlace
    <3>3. medium => offset_skip = sample_offset
      BY <1>5, <2>6 DEF KeptSector
    <3>4. medium => cursor = f
      BY <1>3, <1>4, <1>5
    <3>5. f <= cursor
      BY <1>2, <1>3, <1>4, <1>5
    <3>6. pc' # "closing"
      BY <1>0, <1>2, <1>3, <1>4, <1>12, <2>1, <3>1
    <3>7. Len(Rest) = 0
      BY <3>1
    <3>8. medium => Len(Rest) = At(cursor) - At(f) + offset_skip - sample_offset
      BY <1>2, <2>5, <3>3, <3>4, <3>7
    <3>9. DataInv'
      BY <1>0, <1>7, <1>12, <2>1, <2>3, <2>4, <3>1, <3>2, <3>5, <3>6, <3>8 DEF DataInv, Writing
    <3>10. BufferInv'
      BY <1>12, <3>6 DEF BufferInv
    <3>11. DroppedInv'
      BY <3>6 DEF DroppedInv
    <3> QED BY <3>9, <3>10, <3>11, <1>0, <1>5, <1>7, <1>10, <1>12, <2>2
        DEF RipInv, LoopInv, PieceInv, ReachInv, AbsentInv
  <2>7. CASE offset_buffer_used # 0
    <3>1. cursor' = cursor + 1 /\ opt.batch /\ f = cursor
      BY <1>3, <1>5, <1>12, <2>7
    <3>2. /\ offset_buffer_used = sample_offset /\ offset_skip = 0 /\ first_sector < cursor
          /\ InPlace(offset_buffer, At(cursor)) /\ sample_offset # 0
      BY <1>5, <2>7 DEF KeptSector
    <3>3. offset_buffer \in [1..Samples -> Sample]
      BY <1>2, <2>7 DEF OffsetInv
    <3>4. /\ Len(Rest) = Samples - sample_offset
          /\ InPlace(Rest, At(f) + sample_offset)
      <4>1. offset_buffer_used \in 0..Samples /\ Samples \in offset_buffer_used..Samples
        BY <1>2
      <4>2. /\ Len(SubSeq(offset_buffer, offset_buffer_used + 1, Samples)) = Samples - offset_buffer_used
            /\ InPlace(SubSeq(offset_buffer, offset_buffer_used + 1, Samples), At(cursor) + offset_buffer_used)
        BY <2>5, <3>2, <3>3, <4>1, InPlacePart
      <4> QED BY <2>7, <3>1, <3>2, <4>2 DEF Rest
    <3>5. Len(Rest) = At(cursor') - At(f) + offset_skip - sample_offset
      BY <1>2, <2>5, <3>1, <3>2, <3>4
    <3>6. pc' = "closing" => l = cursor /\ l = last_sector
      BY <1>2, <1>3, <1>4, <1>6, <1>12, <2>1, <2>7, <3>1
    <3>7. DataInv'
      <4>1. Writing' => /\ files'[batch_track'].claim = At(batch_last' + 1) - At(batch_first')
                        /\ InPlace(Data', At(batch_first') + sample_offset')
        BY <1>7, <2>1, <2>3, <2>4, <3>4
      <4>2. pc' = "reading" =>
              /\ batch_first' <= cursor' /\ cursor' <= batch_last'
              /\ Len(Data') = At(cursor') - At(batch_first') + offset_skip' - sample_offset'
        BY <1>2, <1>7, <1>12, <2>1, <2>3, <3>1, <3>5
      <4>3. pc' = "closing" => cursor' = batch_last' + 1 /\ ShortLast'
        BY <1>2, <1>3, <1>7, <2>1, <3>1, <3>2, <3>6 DEF ShortLast
      <4> QED BY <1>7, <1>12, <4>1, <4>2, <4>3 DEF DataInv
    <3>8. BufferInv'
      <4>1. pc' = "closing" => ~(cursor' <= last_sector')
        BY <1>2, <1>7, <3>1, <3>6
      <4> QED BY <1>12, <4>1 DEF BufferInv
    <3>9. DroppedInv'
      BY <1>12 DEF DroppedInv
    <3> QED BY <3>7, <3>8, <3>9, <1>0, <1>5, <1>7, <1>10, <1>12, <2>2
        DEF RipInv, LoopInv, PieceInv, ReachInv, AbsentInv
  <2> QED BY <2>6, <2>7
<1> QED BY <1>1, <1>11, <1>12, OpenIs

(* What is stored goes behind what is there.                               *)
LEMMA StoredIs ==
  ASSUME TypeInv, batch_track \in Names, NEW data \in Seq(Sample), NEW e \in Events,
         files' = Store(data, e), UNCHANGED batch_track,
         NEW from \in Int, InPlace(Data, from), InPlace(data, from + Len(Data))
  PROVE  /\ files'[batch_track'].claim = files[batch_track].claim
         /\ Len(Data') = Len(Data) + Len(data) /\ Len(Data) \in Nat
         /\ InPlace(Data', from)
         /\ \A n \in Names : files'[n].state = files[n].state
         /\ \A n \in Names \ {batch_track} : files'[n] = files[n]
<1>1. FileInv /\ Data \in Seq(Sample)
  BY KnownTypes DEF File, Data
<1>2. \A n \in Names : LET f == Store(data, e)[n] IN
         /\ f.state = files[n].state /\ f.claim = files[n].claim
         /\ f.data = IF n = batch_track THEN files[n].data \o data ELSE files[n].data
  BY <1>1, StoreIs
<1>3. files'[batch_track'].claim = files[batch_track].claim /\ Data' = Data \o data
      /\ \A n \in Names : files'[n].state = files[n].state
  BY <1>2 DEF Data
<1>4. Len(Data \o data) = Len(Data) + Len(data) /\ InPlace(Data \o data, from)
  BY <1>1, InPlaceJoin
<1>5. \A n \in Names \ {batch_track} : files'[n] = files[n]
  BY <1>1 DEF Store, FileInv
<1>6. Len(Data) \in Nat
  BY <1>1
<1> QED BY <1>3, <1>4, <1>5, <1>6

(* A sector is read into the file.                                         *)
LEMMA ReadRips ==
  ASSUME Known, RipInv, OpenInv, NEW e \in Events, NEW w \in BOOLEAN, ReadSector(e, w)
  PROVE  RipInv'
<1>0. /\ pc = "reading" /\ medium
      /\ UNCHANGED <<setup, piece, offset_buffer, offset_buffer_used, medium>>
      /\ reader' = [reader EXCEPT !.cursor = @ + 1]
  BY ReadSectorIs
<1>1. TypeInv /\ InStepInv /\ PieceInv /\ DataInv /\ ReachInv /\ FileHoldsTrack
  BY DEF Known, RipInv
<1>2. Writing
  BY <1>0 DEF Writing
<1>3. /\ cursor \in Int /\ first_sector \in Int /\ last_sector \in Int
      /\ batch_first \in Int /\ batch_last \in Int /\ reader \in [cursor : Int, last : Int]
      /\ sample_offset \in 0..(Samples - 1) /\ offset_skip \in 0..(Samples - 1)
      /\ Samples \in Nat \ {0} /\ NumInv /\ OffsetInv
      /\ NoTrack \in Names /\ 0..toc.tracks \subseteq Names
  BY <1>1, <1>2, KnownTypes
<1>4. /\ reader.cursor = cursor /\ (sample_offset = 0 => offset_buffer_used = 0)
  BY <1>0, <1>1 DEF InStepInv
<1>5. PieceOf(batch_first, batch_last, batch_track) /\ reader.last >= last_sector
  BY <1>1, <1>2 DEF PieceInv, ReachInv
<1>6. batch_track \in Names /\ (~opt.batch => batch_last = last_sector)
  BY <1>3, <1>5 DEF PieceOf
<1>7. files[batch_track].state = "open"
  BY <1>2, <1>6 DEF OpenInv
<1>8. /\ files[batch_track].claim = At(batch_last + 1) - At(batch_first)
      /\ InPlace(Data, At(batch_first) + sample_offset)
      /\ batch_first <= cursor /\ cursor <= batch_last
      /\ Len(Data) = At(cursor) - At(batch_first) + offset_skip - sample_offset
  BY <1>0, <1>1, <1>2 DEF DataInv
<1>9. \A c \in Int : At(c) \in Int /\ At(c + 1) = At(c) + Samples
  BY AtIs
<1>10. At(batch_first) \in Int /\ At(cursor) \in Int /\ At(cursor + 1) = At(cursor) + Samples
       /\ At(cursor + 1) \in Int
  BY <1>3, <1>9
<1>11. /\ UNCHANGED <<opt, sample_offset, first_sector, last_sector, toc, disc,
                      batch_first, batch_last, batch_track>>
       /\ \A d, a : InPlace(d, a)' = InPlace(d, a)
       /\ \A j : Base(j)' = Base(j)
  BY <1>0, SameSetup DEF piece
<1>12. PieceOf(batch_first, batch_last, batch_track)' /\ reader'.last = reader.last
  BY <1>0, <1>3, <1>5, <1>11 DEF PieceOf
<1> DEFINE new == SubSeq(SectorAt(reader.cursor), offset_skip + 1, Samples)
           from == At(batch_first) + sample_offset
<1>13. /\ new \in Seq(Sample) /\ Len(new) = Samples - offset_skip
       /\ InPlace(new, At(cursor) + offset_skip)
  <2>1. SectorAt(cursor) \in [1..Samples -> Sample]
    BY <1>3, SectorIs
  <2>2. InPlace(SectorAt(cursor), At(cursor))
    BY <1>3, <1>5, SectorInPlace
  <2>3. offset_skip \in 0..Samples /\ Samples \in offset_skip..Samples
    BY <1>3
  <2> QED BY <1>4, <1>10, <2>1, <2>2, <2>3, InPlacePart
<1>14. from \in Int /\ from + Len(Data) = At(cursor) + offset_skip
  BY <1>3, <1>8, <1>10
<1> HIDE DEF new, from
<1>16. CASE /\ pc' = "closing" /\ skipped_flag' = TRUE
            /\ cursor' = batch_last + 1 /\ offset_skip' = offset_skip
            /\ files' = Store(<<>>, e)
  <2>1. <<>> \in Seq(Sample) /\ InPlace(<<>>, from + Len(Data))
    BY DEF InPlace
  <2>2. /\ files'[batch_track'].claim = files[batch_track].claim
        /\ InPlace(Data', from)
        /\ \A n \in Names : files'[n].state = files[n].state
        /\ \A n \in Names \ {batch_track} : files'[n] = files[n]
    BY <1>1, <1>6, <1>8, <1>11, <1>14, <1>16, <2>1, StoredIs DEF from
  <2>3. FileHoldsTrack'
    <3>1. \A m \in Names : files'[m] = files[m] \/ files'[m].state # "kept"
      BY <1>7, <2>2
    <3> QED BY <1>0, <1>1, <3>1, KeptStays
  <2>4. DataInv'
    BY <1>8, <1>11, <1>16, <2>2 DEF DataInv, from
  <2>5. DroppedInv'
    <3>1. ~opt.batch => ~(cursor' <= last_sector)
      BY <1>3, <1>6, <1>16
    <3> QED BY <1>11, <3>1 DEF DroppedInv
  <2> QED BY <1>5, <1>11, <1>12, <1>16, <2>3, <2>4, <2>5
      DEF RipInv, LoopInv, PieceInv, BufferInv, ReachInv, AbsentInv
<1>17. CASE /\ skipped_flag' = FALSE /\ cursor' = cursor + 1 /\ offset_skip' = 0
            /\ files' = Store(new, e)
            /\ \/ pc' = "exit"
               \/ pc' = "reading" /\ cursor' <= batch_last
               \/ pc' = "shifting" /\ ~(cursor' <= batch_last) /\ sample_offset # 0
               \/ pc' = "closing" /\ ~(cursor' <= batch_last) /\ sample_offset = 0
  <2>1. /\ files'[batch_track'].claim = files[batch_track].claim
        /\ Len(Data') = Len(Data) + Len(new) /\ Len(Data) \in Nat
        /\ InPlace(Data', from)
        /\ \A n \in Names : files'[n].state = files[n].state
        /\ \A n \in Names \ {batch_track} : files'[n] = files[n]
    BY <1>1, <1>6, <1>8, <1>11, <1>13, <1>14, <1>17, StoredIs DEF from
  <2>2. FileHoldsTrack'
    <3>1. \A m \in Names : files'[m] = files[m] \/ files'[m].state # "kept"
      BY <1>7, <2>1
    <3> QED BY <1>0, <1>1, <3>1, KeptStays
  <2>3. Len(Data') = At(cursor') - At(batch_first) - sample_offset
    <3>1. At(cursor') = At(cursor) + Samples
      BY <1>10, <1>17
    <3>2. Len(Data') = Len(Data) + (Samples - offset_skip) /\ offset_skip \in Int
          /\ sample_offset \in Int /\ Samples \in Int
      BY <1>3, <1>13, <2>1
    <3>3. Len(Data) = At(cursor) - At(batch_first) + offset_skip - sample_offset
      BY <1>8
    <3> QED BY <1>10, <3>1, <3>2, <3>3
  <2>4. pc' \in {"shifting", "closing"} => cursor' = batch_last + 1
    BY <1>3, <1>8, <1>17
  <2>5. DataInv'
    <3>1. Writing' => /\ files'[batch_track'].claim = At(batch_last' + 1) - At(batch_first')
                      /\ InPlace(Data', At(batch_first') + sample_offset')
      BY <1>8, <1>11, <2>1 DEF from
    <3>2. pc' = "reading" =>
            /\ batch_first' <= cursor' /\ cursor' <= batch_last'
            /\ Len(Data') = At(cursor') - At(batch_first') + offset_skip' - sample_offset'
      BY <1>3, <1>8, <1>10, <1>11, <1>17, <2>3
    <3>3. pc' = "shifting" =>
            /\ cursor' = batch_last' + 1 /\ offset_skip' = 0
            /\ Len(Data') = At(batch_last' + 1) - At(batch_first') - sample_offset'
      BY <1>11, <1>17, <2>3, <2>4
    <3>4. pc' = "closing" =>
            /\ cursor' = batch_last' + 1 /\ Len(Data') = At(batch_last' + 1) - At(batch_first')
      BY <1>3, <1>10, <1>11, <1>17, <2>3, <2>4
    <3> QED BY <1>11, <1>17, <3>1, <3>2, <3>3, <3>4 DEF DataInv
  <2>6. BufferInv'
    BY <1>0, <1>4, <1>11, <1>17 DEF BufferInv, KeptSector
  <2>7. DroppedInv'
    BY <1>17 DEF DroppedInv
  <2> QED BY <1>5, <1>11, <1>12, <1>17, <2>2, <2>5, <2>6, <2>7
      DEF RipInv, LoopInv, PieceInv, ReachInv, AbsentInv
<1> QED BY <1>16, <1>17, ReadSectorIs DEF new

(* The sector across the end is read.                                      *)
LEMMA ShiftRips ==
  ASSUME Known, RipInv, OpenInv, NEW e \in Events, NEW w \in BOOLEAN, ReadShift(e, w)
  PROVE  RipInv'
<1>0. /\ pc = "shifting" /\ medium
      /\ UNCHANGED <<setup, cursor, piece, offset_skip, medium>>
      /\ reader' = [reader EXCEPT !.cursor = @ + 1]
  BY ReadShiftIs
<1>1. TypeInv /\ InStepInv /\ PieceInv /\ DataInv /\ ReachInv /\ FileHoldsTrack
  BY DEF Known, RipInv
<1>2. Writing
  BY <1>0 DEF Writing
<1>3. /\ cursor \in Int /\ first_sector \in Int /\ last_sector \in Int
      /\ batch_first \in Int /\ batch_last \in Int /\ reader \in [cursor : Int, last : Int]
      /\ sample_offset \in 0..(Samples - 1) /\ Samples \in Nat \ {0} /\ NumInv
      /\ NoTrack \in Names /\ 0..toc.tracks \subseteq Names
  BY <1>1, <1>2, KnownTypes
<1>4. reader.cursor = cursor /\ sample_offset # 0
  BY <1>0, <1>1 DEF InStepInv
<1>5. PieceOf(batch_first, batch_last, batch_track) /\ reader.last >= last_sector
  BY <1>1, <1>2 DEF PieceInv, ReachInv
<1>6. /\ batch_track \in Names /\ (~opt.batch => batch_last = last_sector)
      /\ first_sector <= batch_first /\ batch_first <= batch_last
  BY <1>3, <1>5 DEF PieceOf
<1>7. files[batch_track].state = "open"
  BY <1>2, <1>6 DEF OpenInv
<1>8. /\ files[batch_track].claim = At(batch_last + 1) - At(batch_first)
      /\ InPlace(Data, At(batch_first) + sample_offset)
      /\ cursor = batch_last + 1 /\ offset_skip = 0
      /\ Len(Data) = At(batch_last + 1) - At(batch_first) - sample_offset
  BY <1>0, <1>1, <1>2 DEF DataInv
<1>9. \A c \in Int : At(c) \in Int
  BY AtIs
<1>10. At(batch_first) \in Int /\ At(cursor) \in Int
  BY <1>3, <1>9
<1>11. /\ UNCHANGED <<opt, sample_offset, first_sector, last_sector, toc, disc,
                      batch_first, batch_last, batch_track>>
       /\ \A d, a : InPlace(d, a)' = InPlace(d, a)
       /\ \A j : Base(j)' = Base(j)
  BY <1>0, SameSetup DEF piece
<1>12. PieceOf(batch_first, batch_last, batch_track)' /\ reader'.last = reader.last
  BY <1>0, <1>3, <1>5, <1>11 DEF PieceOf
<1> DEFINE s == SectorAt(reader.cursor)
           new == SubSeq(s, 0 + 1, sample_offset)
           from == At(batch_first) + sample_offset
<1>13. s \in [1..Samples -> Sample] /\ InPlace(s, At(cursor))
  BY <1>3, <1>4, <1>5, SectorIs, SectorInPlace
<1> HIDE DEF s
<1>14. new \in Seq(Sample) /\ Len(new) = sample_offset /\ InPlace(new, At(cursor))
  <2>1. 0 \in 0..Samples /\ sample_offset \in 0..Samples
    BY <1>3
  <2>2. new \in Seq(Sample) /\ Len(new) = sample_offset - 0 /\ InPlace(new, At(cursor) + 0)
    BY <1>10, <1>13, <2>1, InPlacePart
  <2>3. At(cursor) + 0 = At(cursor) /\ sample_offset - 0 = sample_offset
    BY <1>3, <1>10
  <2> QED BY <2>2, <2>3
<1>15. from \in Int /\ from + Len(Data) = At(cursor)
  BY <1>3, <1>8, <1>10
<1>16. ~opt.batch => ~(cursor <= last_sector)
  BY <1>3, <1>6, <1>8
<1>17. new = SubSeq(s, 1, sample_offset)
  OBVIOUS
<1> HIDE DEF new, from
<1>18. CASE /\ pc' = "closing" /\ skipped_flag' = TRUE
            /\ files' = Store(<<>>, e)
  <2>1. <<>> \in Seq(Sample) /\ InPlace(<<>>, from + Len(Data))
    BY DEF InPlace
  <2>2. /\ files'[batch_track'].claim = files[batch_track].claim
        /\ InPlace(Data', from)
        /\ \A n \in Names : files'[n].state = files[n].state
        /\ \A n \in Names \ {batch_track} : files'[n] = files[n]
    BY <1>1, <1>6, <1>8, <1>11, <1>15, <1>18, <2>1, StoredIs DEF from
  <2>3. FileHoldsTrack'
    <3>1. \A m \in Names : files'[m] = files[m] \/ files'[m].state # "kept"
      BY <1>7, <2>2
    <3> QED BY <1>0, <1>1, <3>1, KeptStays
  <2>4. DataInv'
    BY <1>8, <1>11, <1>18, <2>2 DEF DataInv, from
  <2>5. DroppedInv'
    BY <1>0, <1>11, <1>16 DEF DroppedInv
  <2> QED BY <1>5, <1>11, <1>12, <1>18, <2>3, <2>4, <2>5
      DEF RipInv, LoopInv, PieceInv, BufferInv, ReachInv, AbsentInv
<1>19. CASE /\ skipped_flag' = FALSE /\ pc' \in {"closing", "exit"}
            /\ files' = Store(new, e)
            /\ offset_buffer' = s
            /\ offset_buffer_used' = sample_offset
  <2>1. /\ files'[batch_track'].claim = files[batch_track].claim
        /\ Len(Data') = Len(Data) + Len(new) /\ Len(Data) \in Nat
        /\ InPlace(Data', from)
        /\ \A n \in Names : files'[n].state = files[n].state
        /\ \A n \in Names \ {batch_track} : files'[n] = files[n]
    BY <1>1, <1>6, <1>8, <1>11, <1>14, <1>15, <1>19, StoredIs DEF from
  <2>2. FileHoldsTrack'
    <3>1. \A m \in Names : files'[m] = files[m] \/ files'[m].state # "kept"
      BY <1>7, <2>1
    <3> QED BY <1>0, <1>1, <3>1, KeptStays
  <2>3. Len(Data') = At(batch_last + 1) - At(batch_first)
    BY <1>3, <1>8, <1>10, <1>14, <2>1
  <2>4. DataInv'
    <3>1. /\ files'[batch_track'].claim = At(batch_last' + 1) - At(batch_first')
          /\ InPlace(Data', At(batch_first') + sample_offset')
      BY <1>8, <1>11, <2>1 DEF from
    <3>2. cursor' = batch_last' + 1 /\ Len(Data') = At(batch_last' + 1) - At(batch_first')
      BY <1>0, <1>8, <1>11, <2>3
    <3> QED BY <1>11, <1>19, <3>1, <3>2 DEF DataInv
  <2>5. BufferInv'
    <3>1. first_sector < cursor
      BY <1>3, <1>6, <1>8
    <3>3. KeptSector'
      BY <1>0, <1>4, <1>8, <1>11, <1>13, <1>19, <3>1 DEF KeptSector
    <3> QED BY <3>3 DEF BufferInv
  <2>6. DroppedInv'
    BY <1>19 DEF DroppedInv
  <2> QED BY <1>5, <1>11, <1>12, <1>19, <2>2, <2>4, <2>5, <2>6
      DEF RipInv, LoopInv, PieceInv, ReachInv, AbsentInv
<1> QED BY <1>17, <1>18, <1>19, ReadShiftIs DEF s

(* A read fails.                                                           *)
LEMMA FailRips ==
  ASSUME Known, RipInv, NEW k \in BOOLEAN, ReadFails(k) \/ ShiftFails
  PROVE  RipInv'
<1>0. /\ pc \in {"reading", "shifting"} /\ medium' = FALSE
      /\ UNCHANGED <<setup, cursor, reader, piece, offsets, files>>
      /\ pc' = "exit" \/ (pc' = "closing" /\ skipped_flag' = TRUE)
  BY FailureIs
<1>1. TypeInv /\ PieceInv /\ DataInv /\ ReachInv /\ FileHoldsTrack
  BY DEF Known, RipInv
<1>2. Writing
  BY <1>0 DEF Writing
<1>3. /\ cursor \in Int /\ first_sector \in Int /\ last_sector \in Int
      /\ batch_first \in Int /\ batch_last \in Int
  BY <1>1, KnownTypes
<1>4. PieceOf(batch_first, batch_last, batch_track) /\ reader.last >= last_sector
  BY <1>1, <1>2 DEF PieceInv, ReachInv
<1>5. first_sector <= batch_first /\ batch_first <= batch_last
      /\ (~opt.batch => batch_last = last_sector)
  BY <1>4 DEF PieceOf
<1>6. first_sector <= cursor
  BY <1>0, <1>1, <1>3, <1>5 DEF DataInv
<1>7. /\ UNCHANGED <<opt, sample_offset, first_sector, last_sector, toc, disc, cursor, reader, files,
                     batch_first, batch_last, batch_track>>
      /\ \A d, a : InPlace(d, a)' = InPlace(d, a)
      /\ \A j : Base(j)' = Base(j)
  BY <1>0, SameSetup DEF piece
<1>8. PieceOf(batch_first, batch_last, batch_track)'
  BY <1>4, <1>7 DEF PieceOf
<1>9. Data' = Data
  BY <1>7 DEF Data
<1>10. FileHoldsTrack'
  BY <1>0, <1>1, <1>7, KeptStays
<1>11. DataInv'
  <2>1. /\ files[batch_track].claim = At(batch_last + 1) - At(batch_first)
        /\ InPlace(Data, At(batch_first) + sample_offset)
    BY <1>1, <1>2 DEF DataInv
  <2> QED BY <1>0, <1>7, <1>9, <2>1 DEF DataInv, Writing
<1>12. DroppedInv'
  BY <1>0, <1>6, <1>7 DEF DroppedInv
<1> QED BY <1>0, <1>4, <1>7, <1>8, <1>10, <1>11, <1>12
    DEF RipInv, LoopInv, PieceInv, BufferInv, ReachInv, AbsentInv

(* A file is closed: it holds its piece, or it is gone.                    *)
LEMMA CloseRips ==
  ASSUME Known, RipInv, OpenInv, BiasWhole, LastTrackKept, KnownSpan', CloseFile
  PROVE  RipInv'
<1>0. /\ pc = "closing" /\ pc' = "loop"
      /\ UNCHANGED <<setup, batch_first, batch_last, skipped_flag, medium>>
      /\ files' = [files EXCEPT ![batch_track].state = ClosedState]
  BY CloseIs
<1>1. /\ TypeInv /\ TableInv /\ SoundInv /\ InStepInv /\ PieceInv /\ DataInv /\ ReachInv
      /\ BufferInv /\ DroppedInv /\ FileHoldsTrack
  BY DEF Known, RipInv
<1>2. Writing /\ Ripping
  BY <1>0 DEF Writing, Ripping
<1>3. /\ cursor \in Int /\ first_sector \in Int /\ last_sector \in Int
      /\ batch_first \in Int /\ batch_last \in Int
      /\ sample_offset \in 0..(Samples - 1) /\ Samples \in Nat \ {0} /\ TocInv
      /\ files \in [Names -> File]
      /\ NoTrack \in Names /\ 0..toc.tracks \subseteq Names
  BY <1>1, <1>2, KnownTypes
<1>4. PieceOf(batch_first, batch_last, batch_track) /\ reader.last >= last_sector
  BY <1>1, <1>2 DEF PieceInv, ReachInv
<1>5. /\ first_sector <= batch_first /\ batch_first <= batch_last /\ batch_last <= last_sector
      /\ opt.batch => /\ batch_track \in 0..toc.tracks
                      /\ batch_last + 1 = IF last_sector + 1 <= Base(batch_track)
                                            THEN last_sector + 1 ELSE Base(batch_track)
      /\ ~opt.batch => batch_track = NoTrack /\ batch_last = last_sector
  BY <1>4 DEF PieceOf
<1>6. batch_track \in Names
  BY <1>3, <1>5
<1>7. /\ UNCHANGED <<opt, disc, toc, sample_offset, first_sector, last_sector>>
      /\ LeadOut' = LeadOut
      /\ \A d, a : InPlace(d, a)' = InPlace(d, a)
      /\ \A j : Base(j)' = Base(j)
  BY <1>0, SameSetup
<1>8. /\ toc.tracks \in Nat \ {0} /\ IsTable(toc)
      /\ \A j \in 0..toc.tracks : Base(j) \in Int
  BY <1>3, BaseIs DEF TocInv
<1>9. \A n \in Names : /\ files'[n].data = files[n].data /\ files'[n].claim = files[n].claim
                       /\ n # batch_track => files'[n] = files[n]
                       /\ n = batch_track => files'[n].state = ClosedState
  BY <1>0, <1>3 DEF File
(* The file.                                                               *)
<1>10. FileHoldsTrack'
  <2>1. CASE skipped_flag
    <3>1. ClosedState = "removed"
      BY <2>1 DEF ClosedState
    <3>2. \A n \in Names : files'[n] = files[n] \/ files'[n].state # "kept"
      BY <1>9, <3>1
    <3> QED BY <1>0, <1>1, <3>2, KeptStays
  <2>2. CASE ~skipped_flag
    <3>1. /\ Names' = Names /\ \A n : From(n)' = From(n) /\ To(n)' = To(n)
          /\ SpanTo' = SpanTo /\ SpanFrom' = SpanFrom
      BY <1>0, SameSetup DEF setup, SpanTo, SpanFrom
    <3> SUFFICES ASSUME NEW n \in Names, Whole(n)'
                 PROVE  /\ Len(files'[n].data) = To(n) - From(n)
                        /\ files'[n].claim = Len(files'[n].data)
                        /\ \A i \in 1..Len(files'[n].data) :
                             \/ files'[n].data[i] = From(n) + i - 1
                             \/ files'[n].data[i] = Padding /\ From(n) + i > SpanTo - sample_offset
      BY <1>7, <3>1 DEF FileHoldsTrack
    <3>2. CASE n # batch_track
      <4>1. files'[n] = files[n]
        BY <1>9, <3>2
      <4>2. Whole(n)
        BY <1>7, <3>1, <4>1 DEF Whole, OneSectorPiece
      <4> QED BY <1>1, <4>1, <4>2 DEF FileHoldsTrack
    <3>3. CASE n = batch_track
      <4>1. /\ From(n) = At(batch_first) + sample_offset
            /\ To(n) = At(batch_last + 1) + sample_offset
            /\ SpanFrom = At(first_sector) + sample_offset
            /\ SpanTo - sample_offset = At(last_sector + 1)
        BY <1>1, <1>2, <1>3, <1>4, <3>3, WantedIs
      <4>2. /\ files[n].claim = At(batch_last + 1) - At(batch_first)
            /\ InPlace(files[n].data, At(batch_first) + sample_offset)
            /\ Len(files[n].data) = At(batch_last + 1) - At(batch_first) \/ ShortLast
        BY <1>0, <1>1, <1>2, <2>2, <3>3 DEF DataInv, Data
      <4>3. At(batch_first) \in Int /\ At(batch_last + 1) \in Int /\ At(first_sector) \in Int
            /\ At(batch_first + 1) = At(batch_first) + Samples
        BY <1>3, AtIs
      <4>4. ~ShortLast
        <5> SUFFICES ASSUME ShortLast PROVE FALSE
          OBVIOUS
        <5>1. opt.batch /\ sample_offset # 0 /\ batch_first = batch_last /\ first_sector < batch_first
          BY <1>3, <1>5 DEF ShortLast
        <5>2. files[n].claim = Samples
          BY <1>3, <4>2, <4>3, <5>1
        <5>3. At(first_sector) < At(batch_first)
          BY <1>3, <5>1, AtIs
        <5>4. From(n) # SpanFrom
          BY <1>3, <4>1, <4>3, <5>3
        <5>5. OneSectorPiece(n)'
          BY <1>7, <1>9, <3>1, <5>1, <5>2, <5>4 DEF OneSectorPiece
        <5> QED BY <5>5 DEF Whole
      <4>5. Len(files[n].data) = At(batch_last + 1) - At(batch_first)
        BY <4>2, <4>4
      <4>6. \A i \in 1..Len(files[n].data) :
               \/ files[n].data[i] = From(n) + i - 1
               \/ files[n].data[i] = Padding /\ From(n) + i > SpanTo - sample_offset
        BY <4>1, <4>2 DEF InPlace
      <4>7. files'[n].data = files[n].data /\ files'[n].claim = files[n].claim
        BY <1>9
      <4>8. To(n) - From(n) = At(batch_last + 1) - At(batch_first)
        BY <1>3, <4>1, <4>3
      <4> QED BY <4>2, <4>5, <4>6, <4>7, <4>8
    <3> QED BY <3>2, <3>3
  <2> QED BY <2>1, <2>2
(* The next piece.                                                         *)
<1>11. cursor' <= last_sector =>
         /\ first_sector <= cursor'
         /\ opt.batch => cursor' = first_sector \/ \E j \in 0..toc.tracks : cursor' = Base(j)
         /\ ~opt.batch => cursor' = first_sector \/ ~medium
         /\ KeptSector'
         /\ reader'.last >= last_sector
  <2> SUFFICES ASSUME cursor' <= last_sector
               PROVE  /\ first_sector <= cursor'
                      /\ opt.batch => cursor' = first_sector \/ \E j \in 0..toc.tracks : cursor' = Base(j)
                      /\ ~opt.batch => cursor' = first_sector \/ ~medium
                      /\ KeptSector'
                      /\ reader'.last >= last_sector
    OBVIOUS
  <2>1. CASE Afresh
    <3>1. /\ cursor' = cdda_track_firstsector(toc, batch_track + 1)
          /\ reader' = SeekTo(toc, cursor')
          /\ offset_skip' = sample_offset /\ offset_buffer_used' = 0
      BY <2>1, CloseIs
    <3>2. opt.batch /\ batch_track \in 0..(toc.tracks - 1)
      <4>1. opt.batch
        BY <1>5, <2>1 DEF Afresh
      <4>2. batch_track < toc.tracks
        BY <1>0, <2>1 DEF Afresh, LastTrackKept, Going
      <4> QED BY <1>5, <1>8, <4>1, <4>2
    <3>3. cursor' = toc.start[batch_track]
      <4>1. batch_track + 1 \in 1..toc.tracks /\ (batch_track + 1) - 1 = batch_track
        BY <1>8, <3>2
      <4>2. cdda_track_firstsector(toc, batch_track + 1) = toc.start[(batch_track + 1) - 1]
        BY <1>8, <4>1, TrackEnds
      <4> QED BY <3>1, <4>1, <4>2
    <3>4. \A j \in 0..(toc.tracks - 1) : toc.start[j] = Base(j)
      <4>1. \A j \in 0..(toc.tracks - 1) : j \in 0..toc.tracks /\ Extra(j) = 0
        BY <1>8 DEF Extra
      <4>2. \A j \in 0..toc.tracks : toc.start[j] = Base(j) + Extra(j)
        BY <1>1, <1>2 DEF TableInv
      <4> QED BY <1>8, <4>1, <4>2
    <3>5. cursor' = Base(batch_track) /\ batch_track \in 0..toc.tracks /\ cursor' \in Int
      BY <1>8, <3>2, <3>3, <3>4
    <3>6. first_sector <= cursor'
      BY <1>3, <1>5, <3>2, <3>5
    <3>7. KeptSector'
      BY <1>7, <3>1 DEF KeptSector
    <3>8. last_sector < LeadOut /\ (cursor' < Base(0) => Base(0) # 0)
      <4>1. toc.start[0] = Base(0)
        BY <1>8, <3>4
      <4> QED BY <1>0, <1>7, <4>1 DEF KnownSpan
    <3>9. LastReadable(toc, cursor') >= last_sector
      BY <1>1, <1>2, <3>5, <3>6, <3>8, ReadableIs
    <3>10. reader'.last >= last_sector
      BY <3>1, <3>9 DEF SeekTo
    <3> QED BY <3>2, <3>5, <3>6, <3>7, <3>10
  <2>2. CASE ~Afresh
    <3>1. UNCHANGED <<cursor, reader, offsets, batch_track>>
      BY <2>2, CloseIs
    <3>2. CASE skipped_flag
      <4>1. ~opt.batch
        <5>1. batch_track = NoTrack
          BY <2>2, <3>2 DEF Afresh
        <5>2. \A j \in 0..toc.tracks : j # NoTrack
          BY <1>8 DEF NoTrack
        <5> QED BY <1>5, <5>1, <5>2
      <4>2. first_sector <= cursor /\ ~medium
        BY <1>0, <1>1, <3>1, <3>2, <4>1 DEF DroppedInv
      <4>3. offset_buffer_used = 0
        BY <1>1, <3>1, <4>1 DEF InStepInv
      <4>4. KeptSector'
        BY <1>0, <3>1, <4>2, <4>3 DEF KeptSector, offsets
      <4> QED BY <1>4, <3>1, <4>1, <4>2, <4>4
    <3>3. CASE ~skipped_flag
      <4>1. cursor = batch_last + 1
        BY <1>0, <1>1, <3>3 DEF DataInv
      <4>2. opt.batch /\ cursor = Base(batch_track) /\ batch_track \in 0..toc.tracks
        BY <1>3, <1>5, <3>1, <4>1
      <4>3. first_sector <= cursor
        BY <1>3, <1>5, <4>1
      <4>4. KeptSector
        BY <1>0, <1>1, <3>1, <3>3 DEF BufferInv
      <4>5. KeptSector'
        BY <1>0, <1>7, <3>1, <4>4 DEF KeptSector, offsets
      <4> QED BY <1>4, <3>1, <4>2, <4>3, <4>5
    <3> QED BY <3>2, <3>3
  <2> QED BY <2>1, <2>2
<1>12. LoopInv' /\ BufferInv' /\ ReachInv'
  BY <1>0, <1>7, <1>11 DEF LoopInv, BufferInv, ReachInv, Writing
<1> QED BY <1>0, <1>10, <1>12 DEF RipInv, PieceInv, DataInv, DroppedInv, AbsentInv, Writing

(* Every step keeps what a rip keeps.                                      *)
LEMMA StepRip ==
  Known /\ OpenInv /\ RipInv /\ Undisturbed /\ Undisturbed' /\ [Next]_vars => RipInv'
<1> SUFFICES ASSUME Known, OpenInv, RipInv, Undisturbed, Undisturbed', [Next]_vars PROVE RipInv'
  OBVIOUS
<1>0. KnownSpan' /\ BiasWhole /\ LastTrackKept
  BY DEF Undisturbed
<1>1. CASE Usage \/ OpenDisc \/ BiasDisc \/ ParseSpan
  BY <1>1, SetupRip
<1>2. CASE StartRip
  BY <1>0, <1>2, StartRips
<1>3. ASSUME NEW o \in BOOLEAN, NEW w \in BOOLEAN, OpenFile(o, w) PROVE RipInv'
  BY <1>3, OpenRips
<1>4. ASSUME NEW e \in Events, NEW w \in BOOLEAN, ReadSector(e, w) \/ ReadShift(e, w) PROVE RipInv'
  BY <1>4, ReadRips, ShiftRips
<1>5. ASSUME NEW k \in BOOLEAN, ReadFails(k) \/ ShiftFails PROVE RipInv'
  BY <1>5, FailRips
<1>6. CASE CloseFile
  BY <1>0, <1>6, CloseRips
<1>7. CASE Done
  <2>1. /\ pc' = "done" /\ UNCHANGED <<setup, files>>
    BY <1>7 DEF Done
  <2>2. FileHoldsTrack'
    BY <2>1, KeptStays DEF RipInv
  <2> QED BY <2>1, <2>2
      DEF RipInv, LoopInv, PieceInv, DataInv, BufferInv, ReachInv, DroppedInv, AbsentInv, Writing
<1>8. CASE UNCHANGED vars
  <2>1. UNCHANGED <<pc, setup, cursor, reader, piece, offsets, skipped_flag, medium, files>>
    BY <1>8 DEF vars
  <2>2. FileHoldsTrack'
    BY <2>1, KeptStays DEF RipInv
  <2>3. /\ UNCHANGED <<opt, sample_offset, first_sector, last_sector, toc, disc>>
        /\ \A d, a : InPlace(d, a)' = InPlace(d, a)
        /\ \A j : Base(j)' = Base(j)
        /\ Names' = Names
    BY <2>1, SameSetup
  <2>4. Data' = Data /\ (ShortLast' <=> ShortLast) /\ (Writing' <=> Writing) /\ (KeptSector' <=> KeptSector)
    BY <2>1, <2>3 DEF Data, ShortLast, Writing, KeptSector, piece, offsets
  <2>5. PieceOf(batch_first, batch_last, batch_track)' <=> PieceOf(batch_first, batch_last, batch_track)
    BY <2>1, <2>3 DEF PieceOf, piece
  <2>6. LoopInv' /\ PieceInv' /\ BufferInv' /\ ReachInv' /\ DroppedInv' /\ AbsentInv'
    BY <2>1, <2>3, <2>4, <2>5
       DEF RipInv, LoopInv, PieceInv, BufferInv, ReachInv, DroppedInv, AbsentInv
  <2>7. DataInv'
    BY <2>1, <2>3, <2>4 DEF RipInv, DataInv, piece, offsets
  <2> QED BY <2>2, <2>6, <2>7 DEF RipInv
<1> QED BY <1>1, <1>2, <1>3, <1>4, <1>5, <1>6, <1>7, <1>8 DEF Next

(* Every file that is kept holds exactly the wanted samples of its track,  *)
(* in order and without a gap to the files beside it, whatever was aborted *)
(* before it, and its header tells the length: for every table, span,      *)
(* offset and failure, as long as the rip is undisturbed.                  *)
THEOREM FilesHold == Spec /\ []Undisturbed => []FileHoldsTrack
<1>1. Init => TableInv /\ SoundInv /\ InStepInv /\ OpenInv /\ RipInv
  <2> SUFFICES ASSUME Init PROVE TableInv /\ SoundInv /\ InStepInv /\ OpenInv /\ RipInv
    OBVIOUS
  <2>1. pc = "start" /\ \A n \in Names : files[n] = NoFile
    BY DEF Init
  <2>2. FileHoldsTrack
    BY <2>1 DEF FileHoldsTrack, Whole, NoFile
  <2>3. InStepInv
    BY DEF Init, InStepInv, Writing
  <2> QED BY <2>1, <2>2, <2>3
      DEF TableInv, SoundInv, Ripping, OpenInv, Writing, RipInv, LoopInv, PieceInv, DataInv,
          BufferInv, ReachInv, DroppedInv, AbsentInv
<1>2. TypeInv /\ TableInv /\ SoundInv /\ InStepInv => Known
  BY DEF Known
<1>3. Undisturbed => LongPieces
  BY DEF Undisturbed
<1>4. RipInv => FileHoldsTrack
  BY DEF RipInv
<1> QED BY <1>1, <1>2, <1>3, <1>4, TypesHold, StepTable, StepSound, StepInStep, StepOpen, StepRip,
           PTL DEF Spec
=============================================================================
