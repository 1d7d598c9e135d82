--------------------------- MODULE ReadBlockProofs ---------------------------
(***************************************************************************)
(* Proofs about the reading of a block, for every size of the cache, the   *)
(* requests and the session: the addresses of what is read follow one      *)
(* another, starts vary, and, where the session outlasts the cache that is *)
(* guessed, the guess contains what the drive really caches and no sector  *)
(* of a block is an old copy.                                              *)
(***************************************************************************)
EXTENDS ReadBlock, TLAPS

USE DEF sofar

Entry == [sector : Int, unread : BOOLEAN]

TypeOK ==
  /\ flaky \in BOOLEAN /\ lastsector \in BOOLEAN
  /\ pc \in {"idle", "reading"}
  /\ jitter \in 0..(JIGGLE_MODULO - 1)
  /\ window \in Window /\ drive \in Window
  /\ oldEnd \in Int /\ readat \in Int
  /\ buffer \in Seq(Entry) /\ sofar <= CdcacheSize

(* What is in the buffer is a stretch of the session, the next request     *)
(* follows it, and lastsector tells whether it ends with the last sector.  *)
BufferInv ==
  /\ \A i \in 1..sofar :
       /\ buffer[i].sector = buffer[1].sector + i - 1
       /\ buffer[i].sector \in FirstSector..LastSector
  /\ pc = "reading" /\ sofar > 0 => readat = buffer[1].sector + sofar
  /\ lastsector <=> sofar > 0 /\ buffer[1].sector + sofar - 1 = LastSector
  /\ result = "block" =>
       pc = "idle" /\ sofar > 0 /\ (sofar < CdcacheSize => lastsector)

(* The window is never wider than the cache it stands for, and begins no   *)
(* more than that before the place that is read next.                      *)
WindowInv ==
  /\ window.end - window.begin <= CdcacheSize
  /\ pc = "reading" /\ sofar > 0 => readat - CdcacheSize <= window.begin

(* What the drive caches lies in the window, and what is read next is not  *)
(* in it, save for the sector just read.                                   *)
Cached == drive.begin < drive.end

DriveInv ==
  /\ drive.begin <= drive.end /\ drive.end <= window.end
  /\ Cached => window.begin <= drive.begin
  /\ pc = "reading" => AdjRead < drive.begin \/ drive.end <= AdjRead + 1

(* Where nothing is about to be read a flush cannot keep the beginning of  *)
(* the session in the drive's cache.                                       *)
StartInv ==
  pc = "idle" \/ (sofar = 0 /\ readat > LastSector) =>
    FirstSector = 0 \/ ~Cached \/ window.begin >= FirstSector \/ drive.begin > FirstSector

(* What is read next was not cached before the block began.                *)
FreshInv ==
  /\ pc = "reading" => AdjRead < drive.begin \/ oldEnd <= AdjRead
  /\ stale = {}

CacheInv == ~flaky => DriveInv /\ StartInv /\ FreshInv

-----------------------------------------------------------------------------
(* A start is at or below the target and less than a round of jitter away. *)
LEMMA StartBounds ==
  ASSUME NEW t \in Int, jitter \in 0..(JIGGLE_MODULO - 1)
  PROVE  /\ JitteredStart(t) \in Int
         /\ JitteredStart(t) \in (t - JIGGLE_MODULO + 1)..t
BY DEF JitteredStart, JIGGLE_MODULO

(* The window that results from a request, by cases.                       *)
LEMMA UpdateFacts ==
  ASSUME NEW w \in Window, NEW lba \in Int, NEW n \in Nat \ {0}, n <= CdcacheSize,
         w.end - w.begin <= CdcacheSize
  PROVE  LET u == CacheUpdate(w, lba, n)
             to == lba + n
         IN  /\ u \in Window
             /\ u.end - u.begin <= CdcacheSize
             /\ to <= u.end
             /\ lba >= 0 => to - CdcacheSize <= u.begin
             /\ u.begin <= to - CdcacheSize \/ u.begin <= lba
             /\ \/ u.end = to /\ u.begin < w.begin
                \/ w.end <= u.end /\ w.begin <= u.begin /\ u.begin <= lba
                      /\ (u.begin = w.begin \/ u.begin = to - CdcacheSize)
BY CacheAssumption DEF CacheUpdate, SpanBegin, Larger, Window

(* What the drive caches after a request.                                  *)
LEMMA DriveFacts ==
  ASSUME NEW c \in Window, NEW lba \in Int, NEW n \in Nat \ {0}, c.begin <= c.end
  PROVE  LET d == DriveRead(c, lba, n)
             to == lba + n
         IN  /\ d \in Window /\ d.begin <= d.end
             /\ d.end - DriveCache <= d.begin
             /\ Flushes(c, lba) => d.end = to /\ lba <= d.begin
             /\ ~Flushes(c, lba) =>
                  /\ d.end = Larger(c.end, to) /\ c.begin <= d.begin
                  /\ c.begin < c.end /\ c.begin <= lba
BY CacheAssumption DEF DriveRead, Flushes, Larger, Window

-----------------------------------------------------------------------------
(* A request that is issued is for a sector or more of the session, within *)
(* what is still wanted of the block.                                      *)
LEMMA RequestFacts ==
  ASSUME TypeOK, SecRead > 0
  PROVE  /\ AdjRead \in Nat /\ SecRead \in Nat \ {0}
         /\ FirstSector <= AdjRead /\ readat <= AdjRead
         /\ AdjRead + SecRead - 1 <= LastSector
         /\ sofar + SecRead <= CdcacheSize /\ SecRead <= CdcacheSize
         /\ AdjRead = readat \/ AdjRead = FirstSector
<1>1. sofar \in Nat /\ readat \in Int
  BY DEF TypeOK
<1>2. AdjRead \in Nat /\ FirstSector <= AdjRead /\ readat <= AdjRead
        /\ (AdjRead = readat \/ AdjRead = FirstSector)
  BY <1>1, ReadBlockAssumption DEF AdjRead, Larger
<1> HIDE DEF sofar
<1>3. /\ SecRead \in Int /\ SecRead <= CdcacheSize - sofar
      /\ SecRead <= LastSector - AdjRead + 1
  BY <1>1, <1>2, ReadBlockAssumption, CacheAssumption DEF SecRead, Smaller
<1> QED BY <1>1, <1>2, <1>3, ReadBlockAssumption, CacheAssumption

(* What a request adds to the buffer.                                      *)
LEMMA EntriesFacts ==
  ASSUME NEW from \in Int, NEW num \in Nat, NEW got \in Int
  PROVE  /\ Entries(from, num, got) \in Seq(Entry)
         /\ Len(Entries(from, num, got)) = num
         /\ \A i \in 1..num : Entries(from, num, got)[i].sector = from + i - 1
<1> DEFINE e == [i \in 1..num |-> [sector |-> from + i - 1, unread |-> i > got]]
<1>1. \A i \in 1..num : [sector |-> from + i - 1, unread |-> i > got] \in Entry
  BY DEF Entry
<1>2. e \in [1..num -> Entry]
  BY <1>1
<1>3. e \in Seq(Entry) /\ Len(e) = num
  BY <1>2
<1> QED BY <1>3 DEF Entries

(* The buffer after a request.                                             *)
LEMMA AppendFacts ==
  ASSUME NEW b \in Seq(Entry), NEW e \in Seq(Entry)
  PROVE  /\ b \o e \in Seq(Entry) /\ Len(b \o e) = Len(b) + Len(e)
         /\ \A i \in 1..(Len(b) + Len(e)) :
              (b \o e)[i] = IF i <= Len(b) THEN b[i] ELSE e[i - Len(b)]
OBVIOUS

\* A request appends the sectors it asked for to those of before.
LEMMA BufferAfter ==
  ASSUME TypeOK, NEW got \in Int, Request(got)
  PROVE  /\ buffer' \in Seq(Entry) /\ sofar' = sofar + SecRead
         /\ \A i \in 1..sofar : buffer'[i] = buffer[i]
         /\ \A i \in (sofar + 1)..(sofar + SecRead) :
              buffer'[i].sector = AdjRead + (i - sofar) - 1
<1> DEFINE e == Entries(AdjRead, SecRead, got)
<1>1. AdjRead \in Int /\ SecRead \in Nat
  BY RequestFacts DEF Request
<1>2. e \in Seq(Entry) /\ Len(e) = SecRead /\ \A i \in 1..SecRead : e[i].sector = AdjRead + i - 1
  BY <1>1, EntriesFacts
<1>3. buffer' = buffer \o e /\ buffer \in Seq(Entry) /\ Len(buffer) \in Nat
  BY DEF Request, TypeOK
<1> HIDE DEF e
<1>4. /\ buffer' \in Seq(Entry) /\ Len(buffer') = Len(buffer) + SecRead
      /\ \A i \in 1..(Len(buffer) + SecRead) :
           buffer'[i] = IF i <= Len(buffer) THEN buffer[i] ELSE e[i - Len(buffer)]
  BY <1>2, <1>3, AppendFacts
<1>5. \A i \in (Len(buffer) + 1)..(Len(buffer) + SecRead) : i - Len(buffer) \in 1..SecRead
  BY <1>1, <1>3
<1> QED BY <1>1, <1>2, <1>3, <1>4, <1>5

(* Only a block that has nothing yet is begun at a later place.            *)
LEMMA NothingSkipped ==
  ASSUME TypeOK, BufferInv, SkipAhead
  PROVE  sofar = 0 /\ readat < FirstSector /\ readat + Nsectors <= FirstSector
<1>0. sofar \in Nat /\ sofar < CdcacheSize /\ readat < FirstSector /\ SecRead <= 0
  BY DEF TypeOK, SkipAhead, InLoop
<1>1. sofar = 0
  <2> SUFFICES ASSUME sofar > 0 PROVE FALSE
    BY <1>0
  <2>1. 1 \in 1..sofar /\ readat = buffer[1].sector + sofar
    BY <1>0 DEF BufferInv, SkipAhead, InLoop
  <2>2. buffer[1].sector \in FirstSector..LastSector
    BY <2>1 DEF BufferInv
  <2> QED BY <1>0, <2>1, <2>2, ReadBlockAssumption
<1>2. AdjRead = FirstSector
  BY <1>0, ReadBlockAssumption DEF AdjRead, Larger, TypeOK
<1>3. SecRead = Smaller(CdcacheSize, Smaller(LastSector - FirstSector + 1, Nsectors - (FirstSector - readat)))
  BY <1>1, <1>2, CacheAssumption DEF SecRead
<1> QED BY <1>0, <1>1, <1>3, ReadBlockAssumption, CacheAssumption DEF Smaller, TypeOK

(* The places a call can be at.                                            *)
LEMMA Steps ==
  ASSUME Next
  PROVE  \/ \E t \in Targets, dc \in DriftComps, got \in {0, 1} : BeginRead(t, dc, got)
         \/ \E got \in 0..Nsectors : Request(got)
         \/ SkipAhead
         \/ EndRead
         \/ NoMedium
BY DEF Next, LoopStep

-----------------------------------------------------------------------------
(* Types.                                                                  *)

\* The types hold before the first block.
LEMMA InitTypes == Init => TypeOK
<1> SUFFICES ASSUME Init PROVE TypeOK
  OBVIOUS
<1>1. sofar = 0 /\ buffer \in Seq(Entry)
  BY DEF Init
<1>2. window \in Window /\ drive \in Window
  BY DEF Init, InitWindow, Window
<1>3. flaky \in BOOLEAN /\ lastsector \in BOOLEAN /\ pc \in {"idle", "reading"}
  BY ReadBlockAssumption DEF Init
<1>4. jitter \in 0..(JIGGLE_MODULO - 1) /\ oldEnd \in Int /\ readat \in Int
  BY DEF Init, JIGGLE_MODULO
<1> QED BY <1>1, <1>2, <1>3, <1>4, CacheAssumption DEF TypeOK

\* Every step keeps the types,
LEMMA StepTypes == TypeOK /\ WindowInv /\ [Next]_vars => TypeOK'
<1> SUFFICES ASSUME TypeOK, WindowInv, [Next]_vars PROVE TypeOK'
  OBVIOUS
<1>0. sofar \in Nat /\ CdcacheSize \in Nat \ {0} /\ FirstSector \in Nat /\ LastSector \in Nat
        /\ Nsectors \in Nat \ {0}
  BY ReadBlockAssumption, CacheAssumption DEF TypeOK
<1>1. ASSUME NEW t \in Targets, NEW dc \in DriftComps, NEW got \in {0, 1}, BeginRead(t, dc, got)
      PROVE  TypeOK'
  <2>1. t \in Int /\ dc \in Int
    BY ReadBlockAssumption
  <2>2. JitteredStart(t) + dc \in Int
    BY <2>1, StartBounds DEF TypeOK
  <2>3. jitter' \in 0..(JIGGLE_MODULO - 1)
    BY <1>1 DEF BeginRead, NextJitter, JIGGLE_MODULO, TypeOK
  <2>4. buffer' \in Seq(Entry) /\ sofar' = 0
    BY <1>1 DEF BeginRead
  <2> DEFINE start == JitteredStart(t) + dc
             lba == Larger(start, 0)
             seek == FlushSector(window, lba)
  <2>5. lba \in Nat /\ seek \in Int
    BY <2>2, <1>0, CacheAssumption DEF Larger, FlushSector, TypeOK, Window
  <2>6. readat' \in Int /\ lastsector' \in BOOLEAN /\ pc' = "reading" /\ flaky' = flaky
    BY <1>1, <2>2 DEF BeginRead
  <2>7. window' \in Window /\ drive' \in Window /\ oldEnd' \in Int
    <3>1. CASE NeedsFlush(window, start)
      <4>1. window' = CacheUpdate(window, seek, 1)
              /\ drive' = DriveRead(drive, seek, got)
              /\ oldEnd' \in {seek, drive.end}
        BY <1>1, <3>1 DEF BeginRead
      <4>2. window' \in Window
        BY <4>1, <2>5, <1>0, UpdateFacts DEF TypeOK, WindowInv
      <4>3. drive' \in Window
        BY <4>1, <2>5, CacheAssumption DEF DriveRead, Larger, Window, TypeOK
      <4> QED BY <4>1, <4>2, <4>3, <2>5 DEF TypeOK, Window
    <3>2. CASE ~NeedsFlush(window, start)
      BY <1>1, <3>2 DEF BeginRead, TypeOK, Window
    <3> QED BY <3>1, <3>2
  <2> QED BY <2>3, <2>4, <2>6, <2>7, <1>0 DEF TypeOK
<1>2. ASSUME NEW got \in 0..Nsectors, Request(got)
      PROVE  TypeOK'
  <2>1. SecRead > 0 /\ got \in 0..SecRead /\ got \in Int
    BY <1>2, <1>0 DEF Request
  <2>2. AdjRead \in Nat /\ SecRead \in Nat \ {0} /\ sofar + SecRead <= CdcacheSize
          /\ SecRead <= CdcacheSize
    BY <2>1, RequestFacts
  <2>3. buffer' \in Seq(Entry) /\ sofar' = sofar + SecRead
    BY <1>2, <2>1, BufferAfter
  <2>4. window' \in Window
    BY <1>2, <2>2, UpdateFacts DEF Request, TypeOK, WindowInv
  <2>5. drive' \in Window /\ oldEnd' \in Int
    BY <1>2, <2>1, <2>2, CacheAssumption DEF Request, Served, DriveRead, Larger, Window, TypeOK
  <2>6. readat' \in Int /\ lastsector' \in BOOLEAN
    BY <1>2, <2>2, <1>0 DEF Request, ReachesLast, TypeOK
  <2> QED BY <1>2, <2>2, <2>3, <2>4, <2>5, <2>6 DEF Request, TypeOK
<1>3. CASE SkipAhead
  BY <1>3, <1>0 DEF SkipAhead, TypeOK
<1>4. CASE EndRead
  BY <1>4 DEF EndRead, TypeOK
<1>5. CASE NoMedium
  BY <1>5 DEF NoMedium, TypeOK
<1>6. CASE UNCHANGED vars
  BY <1>6 DEF vars, TypeOK
<1> QED BY <1>1, <1>2, <1>3, <1>4, <1>5, <1>6, Steps

-----------------------------------------------------------------------------
(* The buffer and the window, whatever the drive does.                     *)

\* keeps the buffer a row of consecutive sectors,
LEMMA StepBuffer == TypeOK /\ BufferInv /\ [Next]_vars => BufferInv'
<1> SUFFICES ASSUME TypeOK, BufferInv, [Next]_vars PROVE BufferInv'
  OBVIOUS
<1>0. sofar \in Nat /\ CdcacheSize \in Nat \ {0} /\ FirstSector \in Nat /\ LastSector \in Nat
        /\ Nsectors \in Nat \ {0} /\ readat \in Int
  BY ReadBlockAssumption, CacheAssumption DEF TypeOK
<1>1. ASSUME NEW t \in Targets, NEW dc \in DriftComps, NEW got \in {0, 1}, BeginRead(t, dc, got)
      PROVE  BufferInv'
  <2>1. buffer' = <<>> /\ sofar' = 0 /\ ~lastsector' /\ result' = "reading"
    BY <1>1 DEF BeginRead
  <2> QED BY <2>1 DEF BufferInv
<1>2. ASSUME NEW got \in 0..Nsectors, Request(got)
      PROVE  BufferInv'
  <2>1. got \in Int /\ SecRead > 0
    BY <1>2, <1>0 DEF Request
  <2>2. /\ AdjRead \in Nat /\ SecRead \in Nat \ {0}
        /\ FirstSector <= AdjRead /\ AdjRead + SecRead - 1 <= LastSector
        /\ readat <= AdjRead /\ (AdjRead = readat \/ AdjRead = FirstSector)
    BY <2>1, RequestFacts
  <2>3. /\ buffer' \in Seq(Entry) /\ sofar' = sofar + SecRead
        /\ \A i \in 1..sofar : buffer'[i] = buffer[i]
        /\ \A i \in (sofar + 1)..(sofar + SecRead) :
             buffer'[i].sector = AdjRead + (i - sofar) - 1
    BY <1>2, <2>1, BufferAfter
  <2>4. pc = "reading" /\ pc' = "reading" /\ readat' = AdjRead + SecRead
          /\ result' = result /\ lastsector' = (lastsector \/ ReachesLast)
    BY <1>2 DEF Request, InLoop
  <2>5. result # "block"
    BY <2>4 DEF BufferInv
  <2> HIDE DEF sofar
  <2>6. CASE sofar = 0
    <3>1. buffer'[1].sector = AdjRead
      <4>1. 1 \in (sofar + 1)..(sofar + SecRead)
        BY <2>2, <2>6
      <4> QED BY <4>1, <2>2, <2>3, <2>6
    <3>2. ~lastsector
      BY <2>6 DEF BufferInv
    <3>3. \A i \in 1..SecRead : buffer'[i].sector = AdjRead + i - 1
      BY <2>2, <2>3, <2>6
    <3>4. lastsector' <=> AdjRead + SecRead - 1 = LastSector
      BY <2>4, <3>2 DEF ReachesLast
    <3>5. sofar' = SecRead
      BY <2>2, <2>3, <2>6
    <3>6. \A i \in 1..SecRead : AdjRead + i - 1 \in FirstSector..LastSector
      BY <2>2, <1>0
    <3> QED BY <2>2, <2>4, <2>5, <3>1, <3>3, <3>4, <3>5, <3>6 DEF BufferInv
  <2>7. CASE sofar > 0
    <3> DEFINE b == buffer[1].sector
    <3>0. 1 \in 1..sofar
      BY <1>0, <2>7
    <3>1. b \in Int /\ buffer'[1].sector = b /\ FirstSector <= b
      BY <1>0, <2>3, <3>0 DEF BufferInv
    <3>2. readat = b + sofar
      BY <2>4, <2>7 DEF BufferInv
    <3>3. \A i \in 1..sofar : buffer'[i].sector = b + i - 1
      BY <2>3 DEF BufferInv
    <3>4. ~lastsector
      <4>1. lastsector => b + sofar - 1 = LastSector
        BY DEF BufferInv
      <4> HIDE DEF b
      <4> QED BY <4>1, <2>2, <3>1, <3>2, <1>0
    <3> HIDE DEF b
    <3>5. AdjRead = readat /\ AdjRead = b + sofar
      BY <2>2, <3>1, <3>2, <2>7, <1>0
    <3>6. \A i \in 1..(sofar + SecRead) : buffer'[i].sector = b + i - 1
      <4> SUFFICES ASSUME NEW i \in 1..(sofar + SecRead) PROVE buffer'[i].sector = b + i - 1
        OBVIOUS
      <4>1. CASE i <= sofar
        BY <3>3, <4>1, <1>0
      <4>2. CASE i > sofar
        <5>1. i \in (sofar + 1)..(sofar + SecRead)
          BY <4>2, <1>0, <2>2
        <5> QED BY <5>1, <2>2, <2>3, <3>5, <3>1, <1>0
      <4> QED BY <4>1, <4>2, <1>0
    <3>7. \A i \in 1..(sofar + SecRead) : b + i - 1 \in FirstSector..LastSector
      BY <2>2, <3>1, <3>5, <1>0
    <3>8. lastsector' <=> b + (sofar + SecRead) - 1 = LastSector
      <4>1. lastsector' <=> AdjRead + SecRead - 1 = LastSector
        BY <2>4, <3>4 DEF ReachesLast
      <4>2. AdjRead + SecRead - 1 = b + (sofar + SecRead) - 1
        BY <2>2, <3>1, <3>5, <1>0
      <4> QED BY <4>1, <4>2
    <3>9. readat' = b + (sofar + SecRead) /\ sofar + SecRead > 0
      BY <2>2, <2>4, <3>1, <3>5, <1>0
    <3> QED BY <2>3, <2>4, <2>5, <3>1, <3>6, <3>7, <3>8, <3>9 DEF BufferInv
  <2> QED BY <2>6, <2>7, <1>0
<1>3. CASE SkipAhead
  BY <1>3, NothingSkipped DEF SkipAhead, BufferInv
<1>4. CASE EndRead
  <2>1. UNCHANGED <<buffer, lastsector, readat>> /\ pc = "reading" /\ pc' = "idle"
    BY <1>4 DEF EndRead
  <2>2. ASSUME result' = "block" PROVE sofar > 0 /\ (sofar < CdcacheSize => lastsector)
    <3>1. sofar > 0
      BY <1>4, <2>2, <1>0 DEF EndRead
    <3>2. readat = buffer[1].sector + sofar /\ 1 \in 1..sofar
      BY <2>1, <3>1, <1>0 DEF BufferInv
    <3>3. buffer[1].sector \in FirstSector..LastSector
            /\ buffer[1].sector + sofar - 1 \in FirstSector..LastSector
      <4>1. sofar \in 1..sofar
        BY <3>1, <1>0
      <4> QED BY <3>2, <4>1 DEF BufferInv
    <3>4. ASSUME sofar < CdcacheSize PROVE lastsector
      <4>1. SecRead <= 0
        BY <1>4, <3>4, <1>0 DEF EndRead
      <4>2. AdjRead = readat
        BY <3>1, <3>2, <3>3, <1>0 DEF AdjRead, Larger
      <4>3. LastSector - readat + 1 <= 0
        <5> HIDE DEF sofar
        <5> QED BY <4>1, <4>2, <3>4, <1>0 DEF SecRead, Smaller
      <4> QED BY <4>3, <3>1, <3>2, <3>3, <1>0 DEF BufferInv
    <3> QED BY <3>1, <3>4
  <2> QED BY <2>1, <2>2 DEF BufferInv
<1>5. CASE NoMedium
  BY <1>5 DEF NoMedium, BufferInv
<1>6. CASE UNCHANGED vars
  BY <1>6 DEF vars, BufferInv
<1> QED BY <1>1, <1>2, <1>3, <1>4, <1>5, <1>6, Steps

\* and keeps the window around what this target read.
LEMMA StepWindow == TypeOK /\ BufferInv /\ WindowInv /\ [Next]_vars => WindowInv'
<1> SUFFICES ASSUME TypeOK, BufferInv, WindowInv, [Next]_vars PROVE WindowInv'
  OBVIOUS
<1>0. sofar \in Nat /\ CdcacheSize \in Nat \ {0} /\ FirstSector \in Nat /\ LastSector \in Nat
        /\ Nsectors \in Nat \ {0}
  BY ReadBlockAssumption, CacheAssumption DEF TypeOK
<1>1. ASSUME NEW t \in Targets, NEW dc \in DriftComps, NEW got \in {0, 1}, BeginRead(t, dc, got)
      PROVE  WindowInv'
  <2> DEFINE start == JitteredStart(t) + dc
             lba == Larger(start, 0)
             seek == FlushSector(window, lba)
  <2>1. t \in Int /\ dc \in Int
    BY ReadBlockAssumption
  <2>2. start \in Int
    BY <2>1, StartBounds DEF TypeOK
  <2>3. seek \in Int
    BY <2>2, <1>0, CacheAssumption DEF Larger, FlushSector, TypeOK, Window
  <2>4. sofar' = 0
    BY <1>1 DEF BeginRead
  <2>5. CASE NeedsFlush(window, start)
    <3>1. window' = CacheUpdate(window, seek, 1)
      BY <1>1, <2>5 DEF BeginRead
    <3> QED BY <3>1, <2>3, <2>4, <1>0, UpdateFacts DEF TypeOK, WindowInv
  <2>6. CASE ~NeedsFlush(window, start)
    BY <1>1, <2>6, <2>4 DEF BeginRead, WindowInv
  <2> QED BY <2>5, <2>6
<1>2. ASSUME NEW got \in 0..Nsectors, Request(got)
      PROVE  WindowInv'
  <2>1. SecRead > 0
    BY <1>2 DEF Request
  <2>2. AdjRead \in Nat /\ SecRead \in Nat \ {0} /\ SecRead <= CdcacheSize
    BY <2>1, RequestFacts
  <2>3. window' = CacheUpdate(window, AdjRead, SecRead) /\ readat' = AdjRead + SecRead
    BY <1>2 DEF Request
  <2> QED BY <2>2, <2>3, <1>0, UpdateFacts DEF TypeOK, WindowInv
<1>3. CASE SkipAhead
  BY <1>3, NothingSkipped DEF SkipAhead, WindowInv
<1>4. CASE EndRead \/ NoMedium \/ UNCHANGED vars
  BY <1>4 DEF EndRead, NoMedium, vars, WindowInv
<1> QED BY <1>1, <1>2, <1>3, <1>4, Steps

-----------------------------------------------------------------------------
(* Copies.  What follows needs a drive that caches no more than is guessed,*)
(* a session that starts the disc or outlasts the cache, and sectors that  *)
(* can be read wherever the cache handler sends the drive.                 *)
WithinModel ==
  /\ DriveCache <= CdcacheSize
  /\ FirstSector = 0 \/ CdcacheSize <= LastSector - FirstSector
  /\ \A t \in Targets, dc \in DriftComps :
       \A s \in 0..(Larger(t + dc, 0) + CdcacheSize) : CanRead(s)

(* Where the cache handler sends the drive: below the window, or a whole   *)
(* cache above the place that is wanted.                                   *)
LEMMA SeekFacts ==
  ASSUME NEW w \in Window, NEW lba \in Nat
  PROVE  LET seek == FlushSector(w, lba)
         IN  /\ seek \in Nat
             /\ \/ seek < w.begin /\ seek <= lba
                     /\ (seek >= lba - 1 \/ seek = w.begin - 1)
                \/ seek = lba + CdcacheSize /\ w.begin <= lba /\ w.begin <= DiscFirst
BY CacheAssumption DEF FlushSector, Window

(* The window after a read a whole cache above lba.                        *)
LEMMA FarFacts ==
  ASSUME NEW w \in Window, NEW lba \in Nat, w.begin <= lba
  PROVE  LET u == CacheUpdate(w, lba + CdcacheSize, 1)
         IN  u.begin = lba + 1 /\ lba + CdcacheSize + 1 <= u.end
BY CacheAssumption DEF CacheUpdate, SpanBegin, Larger, Window

(* The window after a read below it.                                       *)
LEMMA NearFacts ==
  ASSUME NEW w \in Window, NEW seek \in Nat, seek < w.begin
  PROVE  LET u == CacheUpdate(w, seek, 1)
         IN  u.begin <= seek /\ u.end = seek + 1
BY CacheAssumption DEF CacheUpdate, SpanBegin, Larger, Window

(* Beginning a block, whichever way the drive is made to forget.           *)
LEMMA BeginFresh ==
  ASSUME WithinModel, TypeOK, WindowInv, CacheInv,
         NEW t \in Targets, NEW dc \in DriftComps, NEW got \in {0, 1},
         BeginRead(t, dc, got), ~flaky
  PROVE  DriveInv' /\ StartInv' /\ FreshInv'
<1> DEFINE start == JitteredStart(t) + dc
           lba == Larger(start, 0)
           seek == FlushSector(window, lba)
<1>0. /\ CdcacheSize \in Nat \ {0} /\ FirstSector \in Nat /\ LastSector \in Nat
      /\ DriveCache \in Nat /\ DriveCache <= CdcacheSize /\ DiscFirst \in Nat
      /\ DiscFirst <= FirstSector /\ FirstSector <= LastSector
      /\ FirstSector = 0 \/ CdcacheSize <= LastSector - FirstSector
  BY ReadBlockAssumption, CacheAssumption DEF WithinModel
<1>1. window \in Window /\ drive \in Window /\ oldEnd \in Int
  BY DEF TypeOK
<1>2. t \in Int /\ dc \in Int
  BY ReadBlockAssumption
<1>3. start \in Int /\ start <= t + dc
  <2>1. JitteredStart(t) \in Int /\ JitteredStart(t) <= t
    BY <1>2, StartBounds DEF TypeOK, JIGGLE_MODULO
  <2> QED BY <1>2, <2>1
<1>4. lba \in Nat /\ lba <= Larger(t + dc, 0) /\ start <= lba /\ (lba = start \/ lba = 0)
  BY <1>2, <1>3 DEF Larger
<1>5. /\ seek \in Nat
      /\ \/ seek < window.begin /\ seek <= lba
              /\ (seek >= lba - 1 \/ seek = window.begin - 1)
         \/ seek = lba + CdcacheSize /\ window.begin <= lba /\ window.begin <= DiscFirst
  BY <1>1, <1>4, SeekFacts
<1>6. pc = "idle" /\ pc' = "reading" /\ readat' = start /\ stale' = {} /\ sofar' = 0
  BY DEF BeginRead
<1> DEFINE place == AdjRead'
<1>7. place = Larger(start, FirstSector)
  BY <1>6 DEF AdjRead
<1>8. place \in Nat /\ place >= start /\ place >= FirstSector /\ (place = start \/ place = FirstSector)
  BY <1>7, <1>0, <1>3 DEF Larger
<1>9. drive.begin <= drive.end /\ drive.end <= window.end
        /\ (drive.begin < drive.end => window.begin <= drive.begin)
        /\ window.end - window.begin <= CdcacheSize
  BY DEF CacheInv, DriveInv, Cached, WindowInv
<1>10. FirstSector = 0 \/ ~(drive.begin < drive.end) \/ window.begin >= FirstSector
         \/ drive.begin > FirstSector
  BY <1>6 DEF CacheInv, StartInv, Cached
<1>11. SUFFICES /\ drive'.begin <= drive'.end /\ drive'.end <= window'.end
                /\ drive'.begin < drive'.end => window'.begin <= drive'.begin
                /\ place < drive'.begin \/ drive'.end <= place + 1
                /\ place < drive'.begin \/ oldEnd' <= place
                /\ start > LastSector => \/ FirstSector = 0 \/ ~(drive'.begin < drive'.end)
                                         \/ window'.begin >= FirstSector
                                         \/ drive'.begin > FirstSector
  BY <1>6 DEF DriveInv, FreshInv, StartInv, Cached
<1>12. CASE ~NeedsFlush(window, start)
  <2>1. window' = window /\ drive' = drive /\ oldEnd' = drive.end
    BY <1>12 DEF BeginRead
  <2>2. window.end <= start
    BY <1>12, <1>1, <1>3 DEF NeedsFlush, Window
  <2> HIDE DEF start, place
  <2> QED BY <2>1, <2>2, <1>1, <1>3, <1>8, <1>9, <1>10 DEF Window
<1>13. CASE NeedsFlush(window, start)
  <2>1. start < window.end
    BY <1>13 DEF NeedsFlush
  <2>2. seek \in 0..(Larger(t + dc, 0) + CdcacheSize)
    <3> DEFINE top == Larger(t + dc, 0)
    <3>1. top \in Int /\ lba <= top
      BY <1>2, <1>4 DEF Larger
    <3> HIDE DEF top, lba, seek
    <3> QED BY <3>1, <1>0, <1>4, <1>5 DEF top
  <2>3. got = 1
    <3>1. CanRead(seek)
      BY <2>2 DEF WithinModel
    <3> QED BY <3>1, <1>13 DEF BeginRead
  <2>4. /\ window' = CacheUpdate(window, seek, 1) /\ drive' = DriveRead(drive, seek, 1)
        /\ oldEnd' = IF Flushes(drive, seek) THEN seek ELSE drive.end
    BY <2>3, <1>13 DEF BeginRead
  <2>5. /\ drive' \in Window /\ drive'.begin <= drive'.end
        /\ drive'.end - DriveCache <= drive'.begin
        /\ Flushes(drive, seek) => drive'.end = seek + 1 /\ seek <= drive'.begin
        /\ ~Flushes(drive, seek) =>
             /\ drive'.end = Larger(drive.end, seek + 1) /\ drive.begin <= drive'.begin
             /\ drive.begin < drive.end /\ drive.begin <= seek
    BY <2>4, <1>1, <1>5, <1>9, DriveFacts
  <2>6. window' \in Window
    BY <2>4, <1>1, <1>5, <1>0, <1>9, UpdateFacts
  <2>7. CASE seek < window.begin
    <3>1. window'.begin <= seek /\ window'.end = seek + 1
      BY <2>4, <2>7, <1>1, <1>5, NearFacts
    <3>2. Flushes(drive, seek)
      BY <2>7, <1>1, <1>5, <1>9 DEF Flushes, Window
    <3>3. drive'.end = seek + 1 /\ seek <= drive'.begin /\ oldEnd' = seek
      BY <2>4, <2>5, <3>2
    <3>4. seek <= place
      <4> HIDE DEF seek, start, place, lba
      <4> QED BY <2>7, <1>0, <1>1, <1>4, <1>5, <1>8 DEF Window
    <3>5. start > LastSector => FirstSector = 0 \/ drive'.begin > FirstSector
      <4> HIDE DEF seek, start, place, lba
      <4> QED BY <2>1, <2>5, <2>7, <3>3, <1>0, <1>1, <1>3, <1>4, <1>5, <1>9 DEF Window
    <3> HIDE DEF seek, start, place, lba
    <3> QED BY <2>5, <2>6, <3>1, <3>3, <3>4, <3>5, <1>5, <1>8 DEF Window
  <2>8. CASE ~(seek < window.begin)
    <3>1. seek = lba + CdcacheSize /\ window.begin <= lba /\ window.begin <= DiscFirst
      BY <2>8, <1>5
    <3>2. window'.begin = lba + 1 /\ seek + 1 <= window'.end
      BY <2>4, <3>1, <1>1, <1>4, FarFacts
    <3>3. window.end <= window'.end
      BY <2>4, <3>1, <1>0, <1>1, <1>4 DEF CacheUpdate, SpanBegin, Larger, Window
    <3> HIDE DEF seek, start, place, lba
    <3>4. drive'.end <= window'.end
      BY <2>5, <3>2, <3>3, <1>1, <1>5, <1>9, <2>6 DEF Larger, Window
    <3>5. lba + 1 <= drive'.begin
      BY <2>5, <3>1, <1>0, <1>1, <1>4, <1>5 DEF Larger, Window
    <3>6. start > LastSector => FirstSector = 0
      BY <3>1, <2>1, <1>0, <1>1, <1>3, <1>4, <1>9 DEF Window
    <3>7. CASE FirstSector <= lba
      <4>1. place = lba
        BY <3>7, <1>0, <1>3, <1>4, <1>8
      <4> QED BY <4>1, <3>2, <3>4, <3>5, <3>6, <2>5, <2>6, <1>4 DEF Window
    <3>8. CASE lba < FirstSector
      <4>1. place = FirstSector
        BY <3>8, <1>0, <1>3, <1>4, <1>8
      <4>2. ~(drive.begin < drive.end) \/ drive.begin > FirstSector
        BY <1>0, <1>1, <1>4, <1>10, <3>1, <3>8 DEF Window
      <4>3. CASE Flushes(drive, seek)
        <5>1. drive'.end = seek + 1 /\ seek <= drive'.begin /\ oldEnd' = seek
          BY <2>4, <2>5, <4>3
        <5> QED BY <5>1, <4>1, <3>2, <3>4, <3>5, <3>6, <2>5, <2>6, <1>0, <1>5 DEF Window
      <4>4. CASE ~Flushes(drive, seek)
        <5>1. FirstSector < drive'.begin
          BY <4>2, <4>4, <2>5, <1>0, <1>1 DEF Window
        <5> QED BY <5>1, <4>1, <3>2, <3>4, <3>5, <3>6, <2>5, <2>6, <1>0 DEF Window
      <4> QED BY <4>3, <4>4
    <3> QED BY <3>7, <3>8, <1>0, <1>4
  <2> QED BY <2>7, <2>8
<1> QED BY <1>12, <1>13

(* A request of a drive that delivers what it is asked for.                *)
LEMMA RequestFresh ==
  ASSUME WithinModel, TypeOK, WindowInv, CacheInv, NEW got \in 0..Nsectors,
         Request(got), ~flaky
  PROVE  DriveInv' /\ StartInv' /\ FreshInv'
<1> DEFINE to == AdjRead + SecRead
<1>0. /\ CdcacheSize \in Nat \ {0} /\ DriveCache \in Nat /\ DriveCache <= CdcacheSize
      /\ FirstSector \in Nat
  BY ReadBlockAssumption, CacheAssumption DEF WithinModel
<1>1. window \in Window /\ drive \in Window /\ oldEnd \in Int
  BY DEF TypeOK
<1>2. SecRead > 0 /\ got = SecRead /\ pc = "reading" /\ pc' = "reading" /\ readat' = to
  BY DEF Request, InLoop
<1>3. /\ AdjRead \in Nat /\ SecRead \in Nat \ {0} /\ SecRead <= CdcacheSize
      /\ FirstSector <= AdjRead /\ sofar + SecRead <= CdcacheSize
  BY <1>2, RequestFacts
<1>4. /\ drive.begin <= drive.end /\ drive.end <= window.end
      /\ drive.begin < drive.end => window.begin <= drive.begin
      /\ AdjRead < drive.begin \/ drive.end <= AdjRead + 1
      /\ AdjRead < drive.begin \/ oldEnd <= AdjRead
      /\ stale = {} /\ window.end - window.begin <= CdcacheSize
  BY <1>2 DEF CacheInv, DriveInv, FreshInv, Cached, WindowInv
<1>5. /\ window' = CacheUpdate(window, AdjRead, SecRead)
      /\ drive' = DriveRead(drive, AdjRead, SecRead)
      /\ oldEnd' = IF Flushes(drive, AdjRead) THEN AdjRead ELSE oldEnd
      /\ stale' = {s \in AdjRead..(AdjRead + SecRead - 1) : drive.begin <= AdjRead /\ s < oldEnd}
  <2>1. Served(AdjRead, SecRead)
    BY <1>2 DEF Request
  <2> DEFINE copies == {s \in AdjRead..(AdjRead + SecRead - 1) : drive.begin <= AdjRead /\ s < oldEnd}
  <2>2. stale' = copies
    <3>1. stale' = stale \cup copies
      BY <2>1 DEF Served
    <3> HIDE DEF copies
    <3> QED BY <3>1, <1>4
  <2>3. oldEnd' = IF Flushes(drive, AdjRead) THEN AdjRead ELSE oldEnd
    BY <2>1, <1>2 DEF Served
  <2> QED BY <2>1, <2>2, <2>3, <1>2 DEF Request, Served
<1>6. stale' = {}
  BY <1>1, <1>3, <1>4, <1>5 DEF Window
<1>7. AdjRead' = to /\ sofar' > 0
  <2>1. AdjRead' = Larger(to, FirstSector)
    BY <1>2 DEF AdjRead
  <2>2. sofar' = sofar + SecRead
    BY <1>2, <1>3, BufferAfter
  <2>3. sofar \in Nat
    BY DEF TypeOK
  <2> HIDE DEF sofar
  <2>4. to >= FirstSector /\ sofar + SecRead > 0
    BY <2>3, <1>0, <1>3
  <2> QED BY <2>1, <2>2, <2>4, <1>3, <1>0 DEF Larger
<1>8. /\ drive' \in Window /\ drive'.begin <= drive'.end
      /\ drive'.end - DriveCache <= drive'.begin
      /\ Flushes(drive, AdjRead) => drive'.end = to /\ AdjRead <= drive'.begin
      /\ ~Flushes(drive, AdjRead) =>
           /\ drive'.end = Larger(drive.end, to) /\ drive.begin <= drive'.begin
           /\ drive.begin < drive.end /\ drive.begin <= AdjRead
  BY <1>1, <1>3, <1>4, <1>5, DriveFacts
<1>9. /\ window' \in Window /\ to <= window'.end
      /\ window'.begin <= to - CdcacheSize \/ window'.begin <= AdjRead
      /\ window'.begin < window.begin
           \/ window'.begin = window.begin \/ window'.begin = to - CdcacheSize
  BY <1>1, <1>3, <1>4, <1>5, UpdateFacts
<1>10. drive'.end = to
  BY <1>1, <1>3, <1>4, <1>8 DEF Larger, Window
<1>11. drive'.begin < drive'.end => window'.begin <= drive'.begin
  BY <1>0, <1>1, <1>3, <1>4, <1>8, <1>9, <1>10 DEF Window
<1>12. oldEnd' <= to
  BY <1>1, <1>3, <1>4, <1>5, <1>8 DEF Window
<1> HIDE DEF to
<1>13. to \in Int
  BY <1>3 DEF to
<1> QED BY <1>2, <1>6, <1>7, <1>8, <1>9, <1>10, <1>11, <1>12, <1>13
        DEF DriveInv, StartInv, FreshInv, Cached, Window

(* The end of a block of a drive that delivers what it is asked for.       *)
LEMMA EndFresh ==
  ASSUME WithinModel, TypeOK, BufferInv, WindowInv, CacheInv, EndRead, ~flaky
  PROVE  DriveInv' /\ StartInv' /\ FreshInv'
<1>0. /\ CdcacheSize \in Nat \ {0} /\ FirstSector \in Nat /\ LastSector \in Nat
      /\ FirstSector <= LastSector /\ sofar \in Nat /\ readat \in Int /\ Nsectors \in Nat \ {0}
      /\ FirstSector = 0 \/ CdcacheSize <= LastSector - FirstSector
  BY ReadBlockAssumption, CacheAssumption DEF WithinModel, TypeOK
<1>1. UNCHANGED <<flaky, window, drive, oldEnd, readat, buffer, stale>>
        /\ pc = "reading" /\ pc' = "idle"
  BY DEF EndRead
<1>2. DriveInv /\ StartInv /\ FreshInv
  BY DEF CacheInv
<1>3. FirstSector = 0 \/ ~Cached \/ window.begin >= FirstSector \/ drive.begin > FirstSector
  <2>1. sofar >= CdcacheSize \/ (SecRead <= 0 /\ readat >= FirstSector)
    BY DEF EndRead
  <2>2. ASSUME SecRead <= 0, readat >= FirstSector, sofar < CdcacheSize
        PROVE  readat > LastSector
    <3>1. AdjRead = readat
      BY <2>2, <1>0 DEF AdjRead, Larger
    <3> HIDE DEF sofar
    <3> QED BY <3>1, <2>2, <1>0 DEF SecRead, Smaller
  <2>3. CASE sofar = 0
    BY <2>1, <2>2, <2>3, <1>0, <1>2 DEF StartInv
  <2>4. CASE sofar > 0
    <3>1. readat - CdcacheSize <= window.begin
      BY <1>1, <2>4 DEF WindowInv
    <3>2. sofar >= CdcacheSize => readat >= FirstSector + CdcacheSize
      <4>1. 1 \in 1..sofar
        BY <2>4, <1>0
      <4>2. readat = buffer[1].sector + sofar /\ buffer[1].sector \in FirstSector..LastSector
        BY <4>1, <1>1, <2>4 DEF BufferInv
      <4> HIDE DEF sofar
      <4> QED BY <4>2, <1>0
    <3> HIDE DEF sofar
    <3>3. FirstSector = 0 \/ readat >= FirstSector + CdcacheSize
      BY <3>2, <2>1, <2>2, <1>0
    <3>4. window.begin \in Int
      BY DEF TypeOK, Window
    <3> QED BY <3>1, <3>3, <3>4, <1>0
  <2> HIDE DEF sofar
  <2> QED BY <2>3, <2>4, <1>0
<1> QED BY <1>1, <1>2, <1>3 DEF DriveInv, StartInv, FreshInv, Cached

\* Within the model the drive caches nothing outside the window.
LEMMA StepCache ==
  ASSUME WithinModel, TypeOK, BufferInv, WindowInv, CacheInv, [Next]_vars
  PROVE  CacheInv'
<1> SUFFICES ASSUME ~flaky' PROVE DriveInv' /\ StartInv' /\ FreshInv'
  BY DEF CacheInv
<1>1. ~flaky
  BY DEF Next, LoopStep, BeginRead, Request, SkipAhead, EndRead, NoMedium, vars
<1>2. DriveInv /\ StartInv /\ FreshInv
  BY <1>1 DEF CacheInv
<1>3. ASSUME NEW t \in Targets, NEW dc \in DriftComps, NEW got \in {0, 1}, BeginRead(t, dc, got)
      PROVE  DriveInv' /\ StartInv' /\ FreshInv'
  BY <1>1, <1>3, BeginFresh
<1>4. ASSUME NEW got \in 0..Nsectors, Request(got)
      PROVE  DriveInv' /\ StartInv' /\ FreshInv'
  BY <1>1, <1>4, RequestFresh
<1>5. CASE SkipAhead
  <2>1. sofar = 0 /\ readat < FirstSector /\ readat + Nsectors <= FirstSector
    BY <1>5, NothingSkipped
  <2>2. UNCHANGED <<pc, window, drive, oldEnd, buffer, stale>> /\ readat' = readat + Nsectors
          /\ pc = "reading"
    BY <1>5 DEF SkipAhead, InLoop
  <2>3. readat \in Int /\ FirstSector \in Int /\ LastSector \in Int /\ Nsectors \in Int
          /\ FirstSector <= LastSector
    BY ReadBlockAssumption DEF TypeOK
  <2>4. AdjRead' = FirstSector /\ AdjRead = FirstSector /\ ~(readat' > LastSector)
    BY <2>1, <2>2, <2>3 DEF AdjRead, Larger
  <2> QED BY <1>2, <2>2, <2>4 DEF DriveInv, StartInv, FreshInv, Cached
<1>6. CASE EndRead
  BY <1>1, <1>6, EndFresh
<1>7. CASE NoMedium
  BY <1>1, <1>7 DEF NoMedium
<1>8. CASE UNCHANGED vars
  BY <1>2, <1>8 DEF vars, DriveInv, StartInv, FreshInv, Cached, AdjRead
<1> QED BY <1>3, <1>4, <1>5, <1>6, <1>7, <1>8, Steps

\* At the start buffer and cache are empty.
LEMMA InitInvs == Init => BufferInv /\ WindowInv /\ CacheInv
<1> SUFFICES ASSUME Init PROVE BufferInv /\ WindowInv /\ CacheInv
  OBVIOUS
<1>1. pc = "idle" /\ sofar = 0 /\ ~lastsector /\ result = "none" /\ stale = {}
  BY DEF Init
<1>2. window.begin = 9999999 /\ window.end = 9999999 /\ drive.begin = 0 /\ drive.end = 0
  BY DEF Init, InitWindow
<1>3. BufferInv
  BY <1>1 DEF BufferInv
<1> QED BY <1>1, <1>2, <1>3, CacheAssumption
        DEF WindowInv, CacheInv, DriveInv, StartInv, FreshInv, Cached

-----------------------------------------------------------------------------
(* Theorems.                                                               *)

(* The variables of the block reader keep their types; the buffer never    *)
(* holds more than the model of the cache (i_read_c_block).                *)
THEOREM TypesHold == Spec => [](TypeOK /\ WindowInv /\ BufferInv)
<1>1. Init => TypeOK /\ WindowInv /\ BufferInv
  BY InitTypes, InitInvs
<1>2. (TypeOK /\ WindowInv /\ BufferInv) /\ [Next]_vars => (TypeOK /\ WindowInv /\ BufferInv)'
  BY StepTypes, StepWindow, StepBuffer
<1> QED BY <1>1, <1>2, PTL DEF Spec

(* The sectors of a block follow one another, lie in the session, and the  *)
(* caller learns when the last of them is the session's last.              *)
THEOREM AddressesFollow == Spec => []BlockIsContiguous
<1>1. TypeOK /\ BufferInv => BlockIsContiguous
  <2> SUFFICES ASSUME TypeOK, BufferInv PROVE BlockIsContiguous
    OBVIOUS
  <2>1. ASSUME result = "block"
        PROVE  lastsector <=> buffer[sofar].sector = LastSector
    <3>1. sofar > 0 /\ sofar \in Nat
      BY <2>1 DEF BufferInv, TypeOK
    <3>2. sofar \in 1..sofar
      BY <3>1
    <3>3. buffer[sofar].sector = buffer[1].sector + sofar - 1
      BY <3>2 DEF BufferInv
    <3> QED BY <3>1, <3>3 DEF BufferInv
  <2> QED BY <2>1 DEF BufferInv, BlockIsContiguous
<1> QED BY <1>1, TypesHold, PTL

(* Blocks begun one after the other for the same target start at different *)
(* sectors, each less than a round of the jitter below the target.         *)
THEOREM StartsDiffer == Spec => StartsVary
<1>1. ASSUME TypeOK, [Next]_vars, NEW t \in Targets, pc = "idle", pc' = "reading"
      PROVE  /\ JitteredStart(t) \in (t - JIGGLE_MODULO + 1)..t
             /\ (JitteredStart(t)' - JitteredStart(t)) % JIGGLE_MODULO = JIGGLE_MODULO - 1
  <2>1. t \in Int
    BY ReadBlockAssumption
  <2>2. jitter' = NextJitter
    BY <1>1 DEF Next, LoopStep, BeginRead, Request, SkipAhead, EndRead, NoMedium, InLoop, vars
  <2>3. jitter \in 0..14 /\ jitter' \in 0..14
          /\ jitter' = IF jitter = 0 THEN 14 ELSE jitter - 1
    BY <1>1, <2>2 DEF TypeOK, NextJitter, JIGGLE_MODULO
  <2>4. JitteredStart(t) \in (t - JIGGLE_MODULO + 1)..t
    BY <1>1, <2>1, StartBounds DEF TypeOK
  <2> DEFINE low == t - 2 * ((t \div 2) % 8)
  <2>5. low \in Int /\ low <= t /\ t <= low + 15
    BY <2>1
  <2>6. JitteredStart(t) = IF low + jitter > t THEN low + jitter - 15 ELSE low + jitter
    BY <2>1, <2>3, <2>5 DEF JitteredStart, JIGGLE_MODULO
  <2>8. JitteredStart(t)' = IF low + jitter' > t THEN low + jitter' - 15 ELSE low + jitter'
    BY <2>1, <2>3, <2>5 DEF JitteredStart, JIGGLE_MODULO
  <2> HIDE DEF low
  <2>7. JitteredStart(t)' - JitteredStart(t) \in {-1, 14, -16, 29}
    BY <2>1, <2>3, <2>5, <2>6, <2>8
  <2> QED BY <2>4, <2>7 DEF JIGGLE_MODULO
<1>2. TypeOK /\ [Next]_vars =>
        [\A t \in Targets : pc = "idle" /\ pc' = "reading" =>
           /\ JitteredStart(t) \in (t - JIGGLE_MODULO + 1)..t
           /\ (JitteredStart(t)' - JitteredStart(t)) % JIGGLE_MODULO = JIGGLE_MODULO - 1]_vars
  BY <1>1
<1> QED BY <1>2, TypesHold, PTL DEF Spec, StartsVary

(* What the window, the cache handler and the seeks of the driver are for. *)
LEMMA CacheHolds ==
  ASSUME WithinModel
  PROVE  Spec => []CacheInv
<1>1. Init => CacheInv
  BY InitInvs
<1>2. (TypeOK /\ WindowInv /\ BufferInv) /\ CacheInv /\ [Next]_vars => CacheInv'
  BY StepCache
<1> QED BY <1>1, <1>2, TypesHold, PTL DEF Spec

(* A drive that delivers what it is asked for never answers a request from *)
(* what it cached for an earlier block, if it caches no more than is       *)
(* guessed and the session outlasts the guess.                             *)
THEOREM NoStaleSector ==
  ASSUME WithinModel
  PROVE  Spec => []FreshBlock
<1>1. CacheInv => FreshBlock
  BY DEF CacheInv, FreshInv, FreshBlock
<1> QED BY <1>1, CacheHolds, PTL

(* The window always contains what such a drive caches.                    *)
THEOREM GuessCovers ==
  ASSUME WithinModel
  PROVE  Spec => []WindowCoversDrive
<1>1. CacheInv => WindowCoversDrive
  BY DEF CacheInv, DriveInv, Cached, WindowCoversDrive
<1> QED BY <1>1, CacheHolds, PTL
=============================================================================
