-------------------------- MODULE TransportProofs --------------------------
(***************************************************************************)
(* Proofs about one read of a transport, for every length of reads, every  *)
(* retry limit and every length of the sg driver's queue: types, the bound *)
(* on commands, whose data is returned, and how a lost medium is reported. *)
(***************************************************************************)
EXTENDS Transport, FiniteSetTheorems, TLAPS

-----------------------------------------------------------------------------
(* The sg driver's queue.                                                  *)

Item == [begin : Begins, n : 0..MaxAsked, done : BOOLEAN]

(* What clear_garbage leaves are entries of the queue, and none if all     *)
(* were replies.                                                           *)
LEMMA ClearGarbageFacts ==
  ASSUME queue \in Seq(Item)
  PROVE  /\ ClearGarbage \in Seq(Item)
         /\ Len(ClearGarbage) <= Len(queue)
         /\ \A i \in DOMAIN ClearGarbage : \E j \in DOMAIN queue : ClearGarbage[i] = queue[j]
         /\ (\A i \in DOMAIN queue : queue[i].done) => ClearGarbage = <<>>
<1> DEFINE D == {i \in DOMAIN queue : queue[i].done}
           d == Cardinality(D)
<1>1. Len(queue) \in Nat /\ DOMAIN queue = 1..Len(queue)
  OBVIOUS
<1>2. IsFiniteSet(1..Len(queue)) /\ Cardinality(1..Len(queue)) = Len(queue)
  BY <1>1, FS_Interval
<1>3. IsFiniteSet(D)
  BY <1>1, <1>2, FS_Subset
<1>4. d \in Nat
  BY <1>3, FS_CardinalityType
<1>5. (\A i \in DOMAIN queue : queue[i].done) => d = Len(queue)
  <2>1. (\A i \in DOMAIN queue : queue[i].done) => D = 1..Len(queue)
    BY <1>1
  <2> QED BY <2>1, <1>2
<1>6. ClearGarbage = SubSeq(queue, 1 + d, Len(queue))
  BY DEF ClearGarbage
<1> HIDE DEF D, d
<1>7. SubSeq(queue, 1 + d, Len(queue)) \in Seq(Item)
  BY <1>1, <1>4
<1>8. Len(SubSeq(queue, 1 + d, Len(queue))) = IF d <= Len(queue) THEN Len(queue) - d ELSE 0
  BY <1>1, <1>4
<1>9. \A i \in 1..Len(SubSeq(queue, 1 + d, Len(queue))) :
        /\ SubSeq(queue, 1 + d, Len(queue))[i] = queue[d + i]
        /\ d + i \in 1..Len(queue)
  BY <1>1, <1>4, <1>8
<1> DEFINE s == SubSeq(queue, 1 + d, Len(queue))
<1>10. s \in Seq(Item) /\ DOMAIN s = 1..Len(s) /\ Len(s) \in Nat
  BY <1>7
<1>11. \A i \in DOMAIN s : \E j \in DOMAIN queue : s[i] = queue[j]
  BY <1>1, <1>9, <1>10
<1>12. Len(s) <= Len(queue)
  BY <1>1, <1>4, <1>8
<1>13. (\A i \in DOMAIN queue : queue[i].done) => Len(s) = 0
  <2>1. d = Len(queue) => Len(s) = 0
    BY <1>1, <1>4, <1>8
  <2> QED BY <2>1, <1>5
<1>14. s = ClearGarbage
  BY <1>6
<1> HIDE DEF s
<1>15. Len(s) = 0 => s = <<>>
  BY <1>10
<1> QED BY <1>10, <1>11, <1>12, <1>13, <1>14, <1>15

(* TEST UNIT READY leaves entries of the queue and perhaps its own.        *)
LEMMA TestUnitReadyFacts ==
  ASSUME queue \in Seq(Item), Len(queue) <= MaxQueued, begin \in Begins, TestUnitReady
  PROVE  /\ queue' \in Seq(Item)
         /\ Len(queue') <= MaxQueued
         /\ \A i \in DOMAIN queue' :
              queue'[i].begin = begin \/ \E j \in DOMAIN queue : queue'[i] = queue[j]
         /\ interface # "sg" => queue' = queue
<1> DEFINE c == Command(begin, 0)
           q == Append(ClearGarbage, c)
<1>1. c \in Item /\ c.begin = begin
  BY TransportAssumption DEF Command, Item
<1>2. ClearGarbage \in Seq(Item) /\ Len(ClearGarbage) <= Len(queue)
  BY ClearGarbageFacts
<1>3. \A i \in DOMAIN ClearGarbage : \E j \in DOMAIN queue : ClearGarbage[i] = queue[j]
  BY ClearGarbageFacts
<1> HIDE DEF c, q
<1>4. CASE queue' = queue /\ interface # "sg"
  BY <1>4
<1>5. CASE queue' = ClearGarbage /\ interface = "sg"
  <2>1. Len(ClearGarbage) <= MaxQueued
    BY <1>2, TransportAssumption
  <2> QED BY <2>1, <1>2, <1>3, <1>5
<1>6. CASE interface = "sg" /\ Len(ClearGarbage) # MaxQueued /\ queue' \in {Tail(q), q}
  <2>1. Len(ClearGarbage) < MaxQueued /\ Len(ClearGarbage) \in Nat /\ MaxQueued \in Nat
    BY <1>2, <1>6, TransportAssumption
  <2>2. /\ q \in Seq(Item) /\ Len(q) = Len(ClearGarbage) + 1
        /\ \A i \in 1..Len(q) : q[i] = IF i <= Len(ClearGarbage) THEN ClearGarbage[i] ELSE c
    BY <1>1, <1>2 DEF q
  <2>3. /\ Tail(q) \in Seq(Item) /\ Len(Tail(q)) = Len(ClearGarbage)
        /\ \A i \in 1..Len(Tail(q)) : Tail(q)[i] = q[i + 1]
    BY <2>2, <2>1
  <2>4. \A i \in 1..Len(q) : q[i].begin = begin \/ \E j \in DOMAIN queue : q[i] = queue[j]
    BY <2>2, <1>1, <1>2, <1>3
  <2>5. CASE queue' = q
    BY <2>1, <2>2, <2>4, <2>5, <1>6
  <2>6. CASE queue' = Tail(q)
    <3>1. \A i \in 1..Len(queue') : i + 1 \in 1..Len(q)
      BY <2>1, <2>2, <2>3, <2>6
    <3> QED BY <2>1, <2>3, <2>4, <2>6, <3>1, <1>6
  <2> QED BY <2>5, <2>6, <1>6
<1> QED BY <1>4, <1>5, <1>6 DEF TestUnitReady, c, q

-----------------------------------------------------------------------------
(* Types.                                                                  *)

QueueOK == queue \in Seq(Item) /\ Len(queue) <= MaxQueued

PlainTypes ==
  /\ interface \in Interfaces /\ error_retry \in BOOLEAN
  /\ pc \in {"idle", "issue", "wait", "over", "reset", "unready"}
  /\ begin \in Begins /\ asked \in 1..MaxAsked /\ buffer \in BOOLEAN /\ crossed \in BOOLEAN
  /\ sectors \in 1..MaxAsked /\ nframes \in 1..MaxAsked /\ retry_count \in Nat
  /\ errno \in Failures \union Gone
  /\ outcome \in {"none", "took", "failed", "lost"}
  /\ got \in [begin : Begins, n : 0..MaxAsked]
  /\ ret \in {-404, -300, -10, -7} \union 0..MaxAsked
  /\ {tries, signals, unready} \subseteq Nat

(* The type invariant is that of the queue and that of the rest.           *)
LEMMA TypeParts == TypeOK <=> PlainTypes /\ QueueOK
BY DEF TypeOK, PlainTypes, QueueOK, Item

(* The types hold at first.                                                *)
LEMMA InitTypes == Init => TypeOK
<1> SUFFICES ASSUME Init PROVE PlainTypes /\ QueueOK
  BY TypeParts
<1>1. 1 \in 1..MaxAsked /\ 0 \in 0..MaxAsked
  BY TransportAssumption
<1>3. error_retry \in BOOLEAN
  BY TransportAssumption DEF Init
<1>5. got \in [begin : Begins, n : 0..MaxAsked]
  BY <1>1 DEF Init
<1>6. errno \in Failures /\ ret \in 0..MaxAsked /\ {tries, signals, unready} \subseteq Nat
  BY <1>1 DEF Init, Failures
<1>4. PlainTypes
  BY <1>1, <1>3, <1>5, <1>6 DEF Init, PlainTypes
<1>2. QueueOK
  BY TransportAssumption DEF Init, QueueOK
<1> QED BY <1>2, <1>4

(* No step makes the queue longer than the driver allows.                  *)
LEMMA QueueStep == TypeOK /\ [Next]_vars => QueueOK'
<1> SUFFICES ASSUME PlainTypes, QueueOK, [Next]_vars PROVE QueueOK'
  BY TypeParts
<1> USE DEF QueueOK
<1>a. ClearGarbage \in Seq(Item) /\ Len(ClearGarbage) <= Len(queue) /\ Len(queue) \in Nat
  BY ClearGarbageFacts
<1>m. MaxQueued \in Nat /\ MaxQueued >= 1 /\ MaxAsked \in Nat
  BY TransportAssumption
<1>1. ASSUME NEW b \in Begins, NEW n \in Lengths, NEW w \in BOOLEAN, Call(b, n, w) PROVE QueueOK'
  BY <1>1 DEF Call
<1>2. CASE SgSend
  <2>1. Command(begin, sectors) \in Item
    BY <1>m DEF Command, Item, PlainTypes
  <2>2. queue' = Append(ClearGarbage, Command(begin, sectors)) /\ Len(ClearGarbage) < MaxQueued
    BY <1>2 DEF SgSend
  <2> QED BY <2>1, <2>2, <1>a, <1>m
<1>3. ASSUME NEW code \in Failures, SgSendTimesOut(code) \/ SgWriteFails(code)
      PROVE  QueueOK'
  BY <1>3, <1>a, <1>m DEF SgSendTimesOut, SgWriteFails
<1>4. CASE DriveAnswers
  <2>1. PICK i \in DOMAIN queue : queue' = [queue EXCEPT ![i].done = TRUE]
    BY <1>4 DEF DriveAnswers
  <2>2. [queue[i] EXCEPT !.done = TRUE] \in Item
    <3>1. queue[i] \in Item
      BY <2>1
    <3> QED BY <3>1 DEF Item
  <2>3. queue' = [queue EXCEPT ![i] = [queue[i] EXCEPT !.done = TRUE]]
    BY <2>1
  <2>4. queue' \in Seq(Item) /\ Len(queue') = Len(queue)
    BY <2>1, <2>2, <2>3
  <2> QED BY <2>4
<1>5. ASSUME NEW n \in 0..MaxAsked, NEW code, SgReply(n, code) PROVE QueueOK'
  <2>1. queue # <<>> /\ queue' \in {queue, Tail(queue)}
    BY <1>5 DEF SgReply
  <2>2. Tail(queue) \in Seq(Item) /\ Len(Tail(queue)) = Len(queue) - 1
    BY <2>1
  <2> QED BY <2>1, <2>2, <1>a, <1>m
<1>6. ASSUME TestUnitReady PROVE QueueOK'
  BY <1>6, TestUnitReadyFacts DEF PlainTypes
<1>7. ASSUME NEW ok \in BOOLEAN, ScsiReset(ok) PROVE QueueOK'
  BY <1>7, <1>m DEF ScsiReset
<1>8. CASE UNCHANGED queue
  BY <1>8
<1> QED BY <1>1, <1>2, <1>3, <1>4, <1>5, <1>6, <1>7, <1>8
       DEF Next, Working, SgTimeout, IoctlCommand, ScsiPlain, ScsiFailed, ScsiTook,
           StillUnready, BackFromReset, CookedTook, CookedPlain, CookedFailed, vars

(* What scsi_read_map's way round its loop leaves is well formed.          *)
LEMMA NextTryTypes ==
  ASSUME PlainTypes, NextTry
  PROVE  /\ pc' \in {"idle", "issue"} /\ sectors' \in 1..MaxAsked /\ retry_count' \in Nat
         /\ ret' \in {-404, -300, -10, -7} \union 0..MaxAsked
BY TransportAssumption DEF PlainTypes, NextTry, Return, Again

(* So is the state after a command failed ...                              *)
LEMMA FailsTypes ==
  ASSUME PlainTypes, NEW code \in Failures \union Gone, Fails(code)
  PROVE  /\ pc' = "over" /\ signals' \in Nat /\ errno' \in Failures \union Gone
         /\ outcome' \in {"failed", "lost"} /\ UNCHANGED got
BY DEF PlainTypes, Fails, Leaves

(* ... after a reply was taken ...                                         *)
LEMMA TakesTypes ==
  ASSUME PlainTypes, NEW b \in Begins, NEW n \in 0..MaxAsked, Takes(b, n)
  PROVE  /\ pc' = "over" /\ signals' \in Nat /\ errno' \in Failures \union Gone
         /\ outcome' = "took" /\ got' \in [begin : Begins, n : 0..MaxAsked]
BY DEF PlainTypes, Takes, Failures

(* ... and the count of commands.                                          *)
LEMMA CountTypes == PlainTypes /\ Count => tries' \in Nat
BY DEF PlainTypes, Count

(* ... and the state after the sg driver did not take a command.           *)
LEMMA UnsentTypes ==
  ASSUME PlainTypes, NEW code \in Failures, SgSendTimesOut(code) \/ SgWriteFails(code)
  PROVE  /\ pc' = "over" /\ {tries', signals'} \subseteq Nat /\ errno' \in Failures \union Gone
         /\ outcome' \in {"failed", "lost"} /\ UNCHANGED got
<1>1. CASE Leaves(code) /\ UNCHANGED <<tries, signals>>
  BY <1>1 DEF Leaves, PlainTypes
<1>2. CASE Leaves(code) /\ Count /\ UNCHANGED signals
  BY <1>2, CountTypes DEF Leaves, PlainTypes
<1>3. CASE Fails(code) /\ Count
  BY <1>3, CountTypes, FailsTypes
<1> QED BY <1>1, <1>2, <1>3 DEF SgSendTimesOut, SgWriteFails

(* Every step keeps the types of everything but the queue.                 *)
LEMMA PlainStep == TypeOK /\ [Next]_vars => PlainTypes'
<1> SUFFICES ASSUME PlainTypes, QueueOK, [Next]_vars PROVE PlainTypes'
  BY TypeParts
<1> USE DEF drive, call, count
<1>1. ASSUME NEW b \in Begins, NEW n \in Lengths, NEW w \in BOOLEAN, Call(b, n, w)
      PROVE  PlainTypes'
  <2>1. sectors' \in 1..MaxAsked /\ 0 \in 0..MaxAsked
    BY <1>1, TransportAssumption DEF Call
  <2>2. asked' \in 1..MaxAsked /\ errno' \in Failures \union Gone
    BY <1>1, TransportAssumption DEF Call, PlainTypes, Failures
  <2>3. got' \in [begin : Begins, n : 0..MaxAsked] /\ crossed' \in BOOLEAN
    BY <1>1, <2>1 DEF Call
  <2> QED BY <1>1, <2>1, <2>2, <2>3 DEF Call, PlainTypes
<1>2. CASE SgSend
  BY <1>2, CountTypes DEF SgSend, PlainTypes, Failures
<1>3. ASSUME NEW code \in Failures, SgSendTimesOut(code) \/ SgWriteFails(code)
      PROVE  PlainTypes'
  BY <1>3, UnsentTypes DEF SgSendTimesOut, SgWriteFails, PlainTypes
<1>4. CASE DriveAnswers
  BY <1>4 DEF DriveAnswers, PlainTypes
<1>5. ASSUME NEW n \in 0..MaxAsked, NEW code \in Failures \union {"none"}, SgReply(n, code)
      PROVE  PlainTypes'
  <2>1. CASE code = "none"
    <3>1. Head(queue) \in Item
      BY <1>5 DEF SgReply, QueueOK
    <3>2. Head(queue).begin \in Begins
      BY <3>1 DEF Item
    <3>3. Takes(Head(queue).begin, n)
      BY <1>5, <2>1 DEF SgReply
    <3> QED BY <1>5, <3>2, <3>3, TakesTypes DEF SgReply, PlainTypes
  <2>2. CASE code # "none"
    <3>1. code \in Failures \union Gone /\ Fails(code)
      BY <1>5, <2>2 DEF SgReply
    <3> QED BY <1>5, <3>1, FailsTypes DEF SgReply, PlainTypes
  <2> QED BY <2>1, <2>2
<1>6. ASSUME NEW code \in Failures, SgTimeout(code) PROVE PlainTypes'
  <2>1. Fails(code)
    BY <1>6 DEF SgTimeout
  <2> QED BY <1>6, <2>1, FailsTypes DEF SgTimeout, PlainTypes
<1>7. ASSUME NEW n \in 0..MaxAsked, NEW code \in Failures \union Gone \union {"none"},
             IoctlCommand(n, code)
      PROVE  PlainTypes'
  <2>1. CASE code = "none"
    <3>1. begin \in Begins /\ Takes(begin, n)
      BY <1>7, <2>1 DEF IoctlCommand, PlainTypes
    <3> QED BY <1>7, <3>1, TakesTypes, CountTypes DEF IoctlCommand, PlainTypes
  <2>2. CASE code # "none"
    <3>1. code \in Failures \union Gone /\ Fails(code)
      BY <1>7, <2>2 DEF IoctlCommand
    <3> QED BY <1>7, <3>1, FailsTypes, CountTypes DEF IoctlCommand, PlainTypes
  <2> QED BY <2>1, <2>2
<1>8. CASE ScsiPlain
  <2>1. sectors' \in 1..MaxAsked /\ retry_count' \in Nat
    BY <1>8, TransportAssumption DEF ScsiPlain, PlainTypes, Asis
  <2> QED BY <1>8, <2>1 DEF ScsiPlain, PlainTypes, Return, Again
<1>9. CASE ScsiFailed
  BY <1>9, NextTryTypes DEF ScsiFailed, PlainTypes, Return, Again, Asis
<1>10. CASE ScsiTook
  BY <1>10 DEF ScsiTook, PlainTypes, Return
<1>11. ASSUME NEW ok \in BOOLEAN, ScsiReset(ok) PROVE PlainTypes'
  BY <1>11 DEF ScsiReset, PlainTypes
<1>12. CASE StillUnready
  BY <1>12 DEF StillUnready, PlainTypes
<1>13. ASSUME NEW code \in {"0", "EIO", "EINTR", "ENOMEDIUM"}, BackFromReset(code) PROVE PlainTypes'
  <2>1. errno' \in Failures \union Gone
    BY <1>13 DEF BackFromReset, Failures
  <2>2. /\ pc' \in {"idle", "issue"} /\ sectors' \in 1..MaxAsked /\ retry_count' \in Nat
        /\ ret' \in {-404, -300, -10, -7} \union 0..MaxAsked
    BY <1>13, NextTryTypes DEF BackFromReset, PlainTypes, Return, Asis
  <2> QED BY <1>13, <2>1, <2>2 DEF BackFromReset, PlainTypes
<1>14. CASE CookedTook
  <2>1. ret' \in 0..MaxAsked
    BY <1>14, TransportAssumption DEF CookedTook, PlainTypes, Return
  <2> QED BY <1>14, <2>1 DEF CookedTook, PlainTypes, Return, Asis
<1>15. CASE CookedPlain
  <2>1. 0 \in 0..MaxAsked
    BY TransportAssumption
  <2> QED BY <1>15, <2>1 DEF CookedPlain, CookedGone, PlainTypes, Return, Gone
<1>16. CASE CookedFailed
  <2>1. sectors' \in 1..MaxAsked /\ retry_count' \in Nat
    BY <1>16, TransportAssumption DEF CookedFailed, PlainTypes, Asis
  <2> QED BY <1>16, <2>1 DEF CookedFailed, PlainTypes, Return, Again
<1>17. CASE UNCHANGED vars
  BY <1>17 DEF vars, PlainTypes
<1> QED BY <1>1, <1>2, <1>3, <1>4, <1>5, <1>6, <1>7, <1>8, <1>9, <1>10, <1>11,
           <1>12, <1>13, <1>14, <1>15, <1>16, <1>17 DEF Next, Working

(* Every state of a transport has its types, for all parameters.           *)
THEOREM TypesHold == Spec => []TypeOK
<1>1. Init => TypeOK
  BY InitTypes
<1>2. TypeOK /\ [Next]_vars => TypeOK'
  <2> SUFFICES ASSUME TypeOK, [Next]_vars PROVE TypeOK'
    OBVIOUS
  <2>1. PlainTypes' /\ QueueOK'
    BY PlainStep, QueueStep
  <2> QED BY <2>1 DEF TypeOK, PlainTypes, QueueOK, Item
<1> QED BY <1>1, <1>2, PTL DEF Spec

-----------------------------------------------------------------------------
(* The invariant.                                                          *)

(* Which waits belong to which transport; only sg has a queue.             *)
PlacesInv ==
  /\ interface # "sg" => queue = <<>> /\ pc # "wait"
  /\ pc \in {"reset", "unready"} => IsScsi /\ outcome \in {"took", "failed"}
  /\ pc = "over" => outcome # "none"

(* A missing medium ends the read at once.                                 *)
LossInv ==
  /\ outcome = "lost" => pc \in {"over", "idle"}
  /\ pc = "over" /\ outcome = "lost" => errno \in Gone /\ (IsScsi => errno = "ENOMEDIUM")
  /\ MediumLossReported

(* How many sectors there are at the end never exceeds what was asked.     *)
SizeInv ==
  /\ sectors <= nframes /\ nframes <= asked
  /\ pc \in {"over", "reset", "unready"} /\ outcome = "took" =>
       got.n <= nframes /\ (~IsScsi => got.n = nframes)
  /\ pc = "idle" /\ outcome # "none" /\ ret > 0 /\ buffer => ret <= got.n /\ ret <= asked

(* No command of another read is in the queue, once clear_garbage has run  *)
(* and unless there was one with the drive; before, there are only replies. *)
DataInv ==
  ~crossed =>
    /\ got.begin = begin
    /\ pc # "idle" =>
         \/ pc = "issue" /\ outcome = "none" /\ \A i \in DOMAIN queue : queue[i].done
         \/ \A i \in DOMAIN queue : queue[i].begin = begin

(* What may have been tried: a command that is no retry made the request   *)
(* smaller, and so did a retry unless the request was for one sector.      *)
Spent == IF IsScsi
  THEN asked - sectors + (IF sectors = 1 /\ retry_count <= MAX_RETRIES THEN retry_count ELSE 0)
  ELSE retry_count
TriesInv ==
  /\ ~IsScsi /\ pc # "idle" => retry_count <= MAX_RETRIES
  /\ pc = "issue" => tries - signals <= Spent
  /\ pc = "over" /\ outcome # "took" /\ errno = "EINTR" => tries - signals <= Spent
  /\ pc \in {"wait", "over", "reset", "unready"} => tries - signals <= Spent + 1
  /\ pc = "idle" => tries - signals <= MAX_RETRIES + 1 + asked

IInv == TypeOK /\ PlacesInv /\ LossInv /\ SizeInv /\ DataInv /\ TriesInv

(* Every step keeps the transports apart.                                  *)
LEMMA PlacesStep == IInv /\ [Next]_vars => PlacesInv'
<1> SUFFICES ASSUME PlainTypes, QueueOK, PlacesInv, LossInv, [Next]_vars PROVE PlacesInv'
  BY TypeParts DEF IInv
<1> USE DEF drive, call, count, PlacesInv, IsScsi, Over
<1>1. ASSUME NEW b \in Begins, NEW n \in Lengths, NEW w \in BOOLEAN, Call(b, n, w)
      PROVE  PlacesInv'
  BY <1>1 DEF Call, PlainTypes
<1>2. CASE SgSend
  BY <1>2 DEF SgSend, Count, PlainTypes
<1>3. ASSUME NEW code \in Failures, SgSendTimesOut(code) \/ SgWriteFails(code)
      PROVE  PlacesInv'
  BY <1>3 DEF SgSendTimesOut, SgWriteFails, Fails, Leaves, Count, PlainTypes
<1>4. CASE DriveAnswers
  BY <1>4 DEF DriveAnswers
<1>5. ASSUME NEW n \in 0..MaxAsked, NEW code \in Failures \union {"none"}, SgReply(n, code)
      PROVE  PlacesInv'
  BY <1>5 DEF SgReply, Fails, Leaves, Takes, PlainTypes
<1>6. ASSUME NEW code \in Failures, SgTimeout(code) PROVE PlacesInv'
  BY <1>6 DEF SgTimeout, Fails, Leaves, PlainTypes
<1>7. ASSUME NEW n \in 0..MaxAsked, NEW code \in Failures \union Gone \union {"none"},
             IoctlCommand(n, code)
      PROVE  PlacesInv'
  BY <1>7 DEF IoctlCommand, Fails, Leaves, Takes, Count, PlainTypes
<1>8. CASE ScsiPlain
  BY <1>8 DEF ScsiPlain, Return, Again, Asis, PlainTypes
<1>9. CASE ScsiFailed
  BY <1>9 DEF ScsiFailed, Return, Again, Asis, NextTry, LossInv
<1>10. CASE ScsiTook
  BY <1>10 DEF ScsiTook, Return, PlainTypes
<1>11. ASSUME NEW ok \in BOOLEAN, ScsiReset(ok) PROVE PlacesInv'
  BY <1>11 DEF ScsiReset, PlainTypes
<1>12. CASE StillUnready
  BY <1>12, TestUnitReadyFacts DEF StillUnready, PlainTypes, QueueOK
<1>13. ASSUME NEW code \in {"0", "EIO", "EINTR", "ENOMEDIUM"}, BackFromReset(code) PROVE PlacesInv'
  BY <1>13, TestUnitReadyFacts DEF BackFromReset, PlainTypes, QueueOK, Return, NextTry, Again
<1>14. CASE CookedTook
  BY <1>14 DEF CookedTook, Return, Asis, PlainTypes
<1>15. CASE CookedPlain
  BY <1>15 DEF CookedPlain, Return, CookedGone, PlainTypes
<1>16. CASE CookedFailed
  BY <1>16 DEF CookedFailed, Return, Again, Asis, PlainTypes
<1>17. CASE UNCHANGED vars
  BY <1>17 DEF vars, PlainTypes
<1> QED BY <1>1, <1>2, <1>3, <1>4, <1>5, <1>6, <1>7, <1>8, <1>9, <1>10, <1>11,
           <1>12, <1>13, <1>14, <1>15, <1>16, <1>17 DEF Next, Working

(* Every step keeps what is known of a missing medium.                     *)
LEMMA LossStep == IInv /\ [Next]_vars => LossInv'
<1> SUFFICES ASSUME PlainTypes, PlacesInv, LossInv, [Next]_vars PROVE LossInv'
  BY TypeParts DEF IInv
<1> USE DEF drive, call, count, LossInv, MediumLossReported, IsScsi, Over
<1>1. ASSUME NEW b \in Begins, NEW n \in Lengths, NEW w \in BOOLEAN, Call(b, n, w)
      PROVE  LossInv'
  BY <1>1 DEF Call, PlacesInv, PlainTypes, Failures, Gone
<1>2. CASE SgSend
  BY <1>2 DEF SgSend, Count, PlacesInv, PlainTypes, Failures, Gone
<1>3. ASSUME NEW code \in Failures, SgSendTimesOut(code) \/ SgWriteFails(code)
      PROVE  LossInv'
  BY <1>3 DEF SgSendTimesOut, SgWriteFails, Fails, Leaves, Count, PlacesInv, PlainTypes, Failures, Gone
<1>4. CASE DriveAnswers
  BY <1>4 DEF DriveAnswers, PlacesInv, PlainTypes, Failures, Gone
<1>5. ASSUME NEW n \in 0..MaxAsked, NEW code \in Failures \union {"none"}, SgReply(n, code)
      PROVE  LossInv'
  BY <1>5 DEF SgReply, Fails, Leaves, Takes, PlacesInv, PlainTypes, Failures, Gone
<1>6. ASSUME NEW code \in Failures, SgTimeout(code) PROVE LossInv'
  BY <1>6 DEF SgTimeout, Fails, Leaves, PlacesInv, PlainTypes, Failures, Gone
<1>7. ASSUME NEW n \in 0..MaxAsked, NEW code \in Failures \union Gone \union {"none"},
             IoctlCommand(n, code)
      PROVE  LossInv'
  <2>1. interface = "sgio" \/ interface = "cooked"
    BY <1>7, TransportAssumption DEF IoctlCommand, PlainTypes
  <2>2. IsScsi => code \in Failures \union {"none"}
    BY <1>7, <2>1 DEF IoctlCommand, Failures
  <2> QED BY <1>7, <2>2 DEF IoctlCommand, Fails, Leaves, Takes, Failures, Gone
<1>8. CASE ScsiPlain
  BY <1>8 DEF ScsiPlain, Return, Again, Asis, PlacesInv, PlainTypes, Failures, Gone
<1>9. CASE ScsiFailed
  BY <1>9 DEF ScsiFailed, Return, Again, Asis, NextTry, PlacesInv, PlainTypes, Failures, Gone
<1>10. CASE ScsiTook
  BY <1>10 DEF ScsiTook, Return, PlacesInv, PlainTypes, Failures, Gone
<1>11. ASSUME NEW ok \in BOOLEAN, ScsiReset(ok) PROVE LossInv'
  BY <1>11 DEF ScsiReset, PlacesInv, PlainTypes, Failures, Gone
<1>12. CASE StillUnready
  BY <1>12 DEF StillUnready, PlacesInv, PlainTypes, Failures, Gone
<1>13. ASSUME NEW code \in {"0", "EIO", "EINTR", "ENOMEDIUM"}, BackFromReset(code) PROVE LossInv'
  BY <1>13 DEF BackFromReset, Return, Again, Asis, NextTry, PlacesInv, PlainTypes, Failures, Gone
<1>14. CASE CookedTook
  BY <1>14 DEF CookedTook, Return, Asis, PlacesInv, PlainTypes, Failures, Gone
<1>15. CASE CookedPlain
  BY <1>15 DEF CookedPlain, Return, CookedGone, PlacesInv, PlainTypes, Failures, Gone
<1>16. CASE CookedFailed
  BY <1>16 DEF CookedFailed, Return, Again, Asis, PlacesInv, PlainTypes, Failures, Gone
<1>17. CASE UNCHANGED vars
  BY <1>17 DEF vars, PlacesInv, PlainTypes, Failures, Gone
<1> QED BY <1>1, <1>2, <1>3, <1>4, <1>5, <1>6, <1>7, <1>8, <1>9, <1>10, <1>11,
           <1>12, <1>13, <1>14, <1>15, <1>16, <1>17 DEF Next, Working

(* Every step keeps the sizes: what the driver delivers is no more than    *)
(* what was asked of it, what is returned no more than what it delivered.  *)
LEMMA SizeStep == IInv /\ [Next]_vars => SizeInv'
<1> SUFFICES ASSUME PlainTypes, PlacesInv, SizeInv, [Next]_vars PROVE SizeInv'
  BY TypeParts DEF IInv
<1> USE DEF drive, call, count, SizeInv, IsScsi, Over
<1>1. ASSUME NEW b \in Begins, NEW n \in Lengths, NEW w \in BOOLEAN, Call(b, n, w)
      PROVE  SizeInv'
  BY <1>1, TransportAssumption DEF Call
<1>2. CASE SgSend
  BY <1>2 DEF SgSend, Count, PlacesInv, PlainTypes
<1>3. ASSUME NEW code \in Failures, SgSendTimesOut(code) \/ SgWriteFails(code)
      PROVE  SizeInv'
  BY <1>3 DEF SgSendTimesOut, SgWriteFails, Fails, Leaves, Count, PlacesInv, PlainTypes
<1>4. CASE DriveAnswers
  BY <1>4 DEF DriveAnswers, PlacesInv, PlainTypes
<1>5. ASSUME NEW n \in 0..MaxAsked, NEW code \in Failures \union {"none"}, SgReply(n, code)
      PROVE  SizeInv'
  BY <1>5 DEF SgReply, Fails, Leaves, Takes, PlacesInv, PlainTypes
<1>6. ASSUME NEW code \in Failures, SgTimeout(code) PROVE SizeInv'
  BY <1>6 DEF SgTimeout, Fails, Leaves, PlacesInv, PlainTypes
<1>7. ASSUME NEW n \in 0..MaxAsked, NEW code \in Failures \union Gone \union {"none"},
             IoctlCommand(n, code)
      PROVE  SizeInv'
  BY <1>7 DEF IoctlCommand, Fails, Leaves, Takes, Count, PlacesInv, PlainTypes
<1>8. CASE ScsiPlain
  BY <1>8 DEF ScsiPlain, Return, Again, Asis, PlacesInv, PlainTypes
<1>9. CASE ScsiFailed
  BY <1>9 DEF ScsiFailed, Return, Again, Asis, NextTry, PlacesInv, PlainTypes
<1>10. CASE ScsiTook
  BY <1>10 DEF ScsiTook, Return, PlacesInv, PlainTypes
<1>11. ASSUME NEW ok \in BOOLEAN, ScsiReset(ok) PROVE SizeInv'
  BY <1>11 DEF ScsiReset, PlacesInv, PlainTypes
<1>12. CASE StillUnready
  BY <1>12 DEF StillUnready, PlacesInv, PlainTypes
<1>13. ASSUME NEW code \in {"0", "EIO", "EINTR", "ENOMEDIUM"}, BackFromReset(code) PROVE SizeInv'
  BY <1>13 DEF BackFromReset, Return, Again, Asis, NextTry, PlacesInv, PlainTypes
<1>14. CASE CookedTook
  BY <1>14 DEF CookedTook, Return, Asis, PlacesInv, PlainTypes
<1>15. CASE CookedPlain
  BY <1>15 DEF CookedPlain, Return, CookedGone, PlacesInv, PlainTypes
<1>16. CASE CookedFailed
  BY <1>16 DEF CookedFailed, Return, Again, Asis, PlacesInv, PlainTypes
<1>17. CASE UNCHANGED vars
  BY <1>17 DEF vars, PlacesInv, PlainTypes
<1> QED BY <1>1, <1>2, <1>3, <1>4, <1>5, <1>6, <1>7, <1>8, <1>9, <1>10, <1>11,
           <1>12, <1>13, <1>14, <1>15, <1>16, <1>17 DEF Next, Working

(* Every step keeps the queue free of other reads' commands.               *)
LEMMA DataStep == IInv /\ [Next]_vars => DataInv'
<1> SUFFICES ASSUME PlainTypes, QueueOK, PlacesInv, DataInv, [Next]_vars PROVE DataInv'
  BY TypeParts DEF IInv
<1> USE DEF drive, call, count, DataInv, Over
<1> DEFINE Own(q) == \A i \in DOMAIN q : q[i].begin = begin
           Done == pc = "issue" /\ outcome = "none" /\ \A i \in DOMAIN queue : queue[i].done
<1>a. /\ ClearGarbage \in Seq(Item)
      /\ \A i \in DOMAIN ClearGarbage : \E j \in DOMAIN queue : ClearGarbage[i] = queue[j]
      /\ (\A i \in DOMAIN queue : queue[i].done) => ClearGarbage = <<>>
  BY ClearGarbageFacts DEF QueueOK
<1>b. ~crossed /\ pc # "idle" => Own(ClearGarbage)
  <2> SUFFICES ASSUME ~crossed, pc # "idle" PROVE Own(ClearGarbage)
    OBVIOUS
  <2>1. CASE Done
    BY <1>a, <2>1
  <2>2. CASE Own(queue)
    BY <1>a, <2>2
  <2> QED BY <2>1, <2>2
<1>c. ~crossed /\ pc # "idle" /\ TestUnitReady /\ pc # "issue" => Own(queue')
  <2> SUFFICES ASSUME ~crossed, pc # "idle", TestUnitReady, pc # "issue" PROVE Own(queue')
    OBVIOUS
  <2>1. Own(queue)
    OBVIOUS
  <2>2. \A i \in DOMAIN queue' :
          queue'[i].begin = begin \/ \E j \in DOMAIN queue : queue'[i] = queue[j]
    BY TestUnitReadyFacts DEF QueueOK, PlainTypes
  <2> QED BY <2>1, <2>2
<1>d. ~crossed /\ pc \notin {"idle", "issue"} => Own(queue)
  OBVIOUS
<1>1. ASSUME NEW b \in Begins, NEW n \in Lengths, NEW w \in BOOLEAN, Call(b, n, w)
      PROVE  DataInv'
  BY <1>1 DEF Call
<1>2. CASE SgSend
  <2>1. queue' = Append(ClearGarbage, Command(begin, sectors)) /\ pc = "issue"
    BY <1>2 DEF SgSend
  <2>2. \A i \in DOMAIN queue' : \/ i \in DOMAIN ClearGarbage /\ queue'[i] = ClearGarbage[i]
                               \/ queue'[i] = Command(begin, sectors)
    BY <2>1, <1>a
  <2>3. Command(begin, sectors).begin = begin
    BY DEF Command
  <2>4. ~crossed => Own(queue')
    BY <2>1, <2>2, <2>3, <1>b
  <2> QED BY <1>2, <2>4 DEF SgSend
<1>3. ASSUME NEW code \in Failures, SgSendTimesOut(code) \/ SgWriteFails(code)
      PROVE  DataInv'
  <2>1. ~crossed => Own(queue')
    BY <1>3, <1>b DEF SgSendTimesOut, SgWriteFails
  <2> QED BY <1>3, <2>1 DEF SgSendTimesOut, SgWriteFails, Fails, Leaves
<1>4. CASE DriveAnswers
  <2>1. PICK i \in DOMAIN queue : queue' = [queue EXCEPT ![i].done = TRUE]
    BY <1>4 DEF DriveAnswers
  <2>2. /\ DOMAIN queue' = DOMAIN queue
        /\ \A j \in DOMAIN queue : j # i => queue'[j] = queue[j]
        /\ queue'[i] = [queue[i] EXCEPT !.done = TRUE]
    BY <2>1 DEF QueueOK
  <2>3. queue[i] \in Item
    BY <2>1 DEF QueueOK
  <2>4. queue'[i].begin = queue[i].begin /\ queue'[i].done
    BY <2>2, <2>3 DEF Item
  <2>5. Own(queue) => Own(queue')
    BY <2>2, <2>4
  <2>6. (\A j \in DOMAIN queue : queue[j].done) => \A j \in DOMAIN queue' : queue'[j].done
    BY <2>2, <2>4
  <2> QED BY <1>4, <2>5, <2>6 DEF DriveAnswers
<1>5. ASSUME NEW n \in 0..MaxAsked, NEW code \in Failures \union {"none"}, SgReply(n, code)
      PROVE  DataInv'
  <2>1. queue \in Seq(Item) /\ queue # <<>> /\ queue' \in {queue, Tail(queue)} /\ pc = "wait"
    BY <1>5 DEF SgReply, QueueOK
  <2>2. Own(queue) => Head(queue).begin = begin /\ Own(queue')
    <3>1. \A i \in DOMAIN Tail(queue) : i + 1 \in DOMAIN queue /\ Tail(queue)[i] = queue[i + 1]
      BY <2>1
    <3>2. Head(queue) = queue[1] /\ 1 \in DOMAIN queue
      BY <2>1
    <3> QED BY <2>1, <3>1, <3>2
  <2>3. ~crossed => Own(queue)
    BY <2>1, <1>d
  <2>4. ~crossed => got'.begin = begin
    BY <1>5, <2>2, <2>3 DEF SgReply, Takes, Fails, Leaves
  <2> QED BY <1>5, <2>2, <2>3, <2>4 DEF SgReply
<1>6. ASSUME NEW code \in Failures, SgTimeout(code) PROVE DataInv'
  BY <1>6, <1>d DEF SgTimeout, Fails, Leaves
<1>7. ASSUME NEW n \in 0..MaxAsked, NEW code \in Failures \union Gone \union {"none"},
             IoctlCommand(n, code)
      PROVE  DataInv'
  <2>1. queue' = <<>> /\ UNCHANGED <<crossed, begin>>
    BY <1>7 DEF IoctlCommand, PlacesInv
  <2>2. ~crossed => got'.begin = begin
    BY <1>7 DEF IoctlCommand, Fails, Leaves, Takes
  <2> QED BY <2>1, <2>2
<1>8. CASE ScsiPlain
  BY <1>8, <1>d DEF ScsiPlain
<1>9. CASE ScsiFailed
  BY <1>9, <1>d DEF ScsiFailed
<1>10. CASE ScsiTook
  BY <1>10, <1>d DEF ScsiTook
<1>11. ASSUME NEW ok \in BOOLEAN, ScsiReset(ok) PROVE DataInv'
  <2>1. ~crossed => Own(queue')
    BY <1>11, <1>d DEF ScsiReset
  <2> QED BY <1>11, <2>1 DEF ScsiReset
<1>12. CASE StillUnready
  BY <1>12, <1>c DEF StillUnready
<1>13. ASSUME NEW code \in {"0", "EIO", "EINTR", "ENOMEDIUM"}, BackFromReset(code) PROVE DataInv'
  BY <1>13, <1>c DEF BackFromReset
<1>14. CASE CookedTook
  BY <1>14, <1>d DEF CookedTook
<1>15. CASE CookedPlain
  BY <1>15, <1>d DEF CookedPlain
<1>16. CASE CookedFailed
  BY <1>16, <1>d DEF CookedFailed
<1>17. CASE UNCHANGED vars
  BY <1>17 DEF vars
<1> QED BY <1>1, <1>2, <1>3, <1>4, <1>5, <1>6, <1>7, <1>8, <1>9, <1>10, <1>11,
           <1>12, <1>13, <1>14, <1>15, <1>16, <1>17 DEF Next, Working

(* Nothing is spent when a read begins.                                    *)
LEMMA SpentAtCall ==
  ASSUME NEW b \in Begins, NEW n \in Lengths, NEW w \in BOOLEAN, Call(b, n, w)
  PROVE  Spent' >= 0
<1>1. PICK s \in 1..n : sectors' = s
  BY TransportAssumption DEF Call
<1>3. n \in Nat /\ retry_count' = 0 /\ asked' = n
  BY TransportAssumption DEF Call
<1>2. asked' - sectors' >= 0 /\ asked' - sectors' \in Int
  <2>1. n - s >= 0 /\ n - s \in Int
    BY <1>3
  <2> QED BY <1>1, <1>3, <2>1
<1> QED BY <1>2, <1>3 DEF Spent

(* Every step keeps the account of commands.                               *)
LEMMA TriesStep == IInv /\ [Next]_vars => TriesInv'
<1> SUFFICES ASSUME PlainTypes, PlacesInv, SizeInv, TriesInv, [Next]_vars PROVE TriesInv'
  BY TypeParts DEF IInv
<1> USE DEF drive, call, count, TriesInv, Spent, IsScsi, Over, PlainTypes, SizeInv
<1>m. MAX_RETRIES \in Nat
  BY TransportAssumption
<1>1. ASSUME NEW b \in Begins, NEW n \in Lengths, NEW w \in BOOLEAN, Call(b, n, w)
      PROVE  TriesInv'
  <2>1. sectors' \in 1..n /\ retry_count' = 0 /\ pc' = "issue" /\ asked' = n
    BY <1>1, TransportAssumption DEF Call
  <2>2. tries' = 0 /\ signals' = 0
    BY <1>1 DEF Call
  <2>3. Spent' >= 0
    BY <1>1, SpentAtCall
  <2> HIDE DEF Spent
  <2> QED BY <2>1, <2>2, <2>3, <1>m
<1>2. CASE SgSend
  BY <1>2, <1>m DEF SgSend, Count, PlacesInv
<1>3. ASSUME NEW code \in Failures, SgSendTimesOut(code) \/ SgWriteFails(code)
      PROVE  TriesInv'
  <2>1. /\ pc = "issue" /\ pc' = "over" /\ interface = "sg"
        /\ UNCHANGED <<interface, asked, sectors, retry_count>>
    BY <1>3 DEF SgSendTimesOut, SgWriteFails, Fails, Leaves
  <2>2. Spent' = Spent /\ Spent \in Int
    BY <2>1, <1>m
  <2>3. CASE UNCHANGED <<tries, signals>>
    <3> HIDE DEF Spent
    <3> QED BY <2>1, <2>2, <2>3
  <2>4. CASE Leaves(code) /\ code # "EINTR" /\ Count /\ UNCHANGED signals
    <3>1. tries' \in Nat /\ tries' <= tries + 1 /\ errno' # "EINTR"
      BY <2>4 DEF Count, Leaves
    <3> HIDE DEF Spent
    <3> QED BY <2>1, <2>2, <2>4, <3>1
  <2>5. CASE Fails(code) /\ Count
    <3>1. /\ tries' \in Nat /\ tries' <= tries + 1
          /\ IF errno' = "EINTR" THEN signals' = signals + 1 ELSE signals' = signals
      BY <2>5 DEF Count, Fails, Leaves
    <3> HIDE DEF Spent
    <3> QED BY <2>1, <2>2, <3>1
  <2> QED BY <1>3, <2>3, <2>4, <2>5 DEF SgSendTimesOut, SgWriteFails
<1>4. CASE DriveAnswers
  BY <1>4 DEF DriveAnswers
<1>5. ASSUME NEW n \in 0..MaxAsked, NEW code \in Failures \union {"none"}, SgReply(n, code)
      PROVE  TriesInv'
  BY <1>5, <1>m DEF SgReply, Fails, Leaves, Takes, PlacesInv
<1>6. ASSUME NEW code \in Failures, SgTimeout(code) PROVE TriesInv'
  BY <1>6, <1>m DEF SgTimeout, Fails, Leaves, PlacesInv
<1>7. ASSUME NEW n \in 0..MaxAsked, NEW code \in Failures \union Gone \union {"none"},
             IoctlCommand(n, code)
      PROVE  TriesInv'
  <2>1. /\ pc = "issue" /\ pc' = "over" /\ Count
        /\ UNCHANGED <<interface, asked, sectors, retry_count>>
    BY <1>7 DEF IoctlCommand, Fails, Leaves, Takes
  <2>2. tries' \in Nat /\ tries' <= tries + 1
    BY <2>1 DEF Count
  <2>3. IF outcome' # "took" /\ errno' = "EINTR" THEN signals' = signals + 1
                                               ELSE signals' \in {signals, signals + 1}
    BY <1>7 DEF IoctlCommand, Fails, Leaves, Takes
  <2>4. Spent' = Spent /\ Spent \in Int
    BY <2>1, <1>m
  <2> HIDE DEF Spent
  <2> QED BY <2>1, <2>2, <2>3, <2>4
<1>8. CASE ScsiPlain
  <2>1. UNCHANGED <<interface, asked, tries, signals, errno, outcome>> /\ IsScsi /\ pc = "over"
    BY <1>8 DEF ScsiPlain
  <2>2. CASE errno = "EINTR" /\ Again /\ Asis
    BY <1>8, <2>1, <2>2, <1>m DEF ScsiPlain, Again, Asis
  <2>3. CASE sectors > 1 /\ Again /\ sectors' = sectors - 1 /\ UNCHANGED retry_count
    BY <2>1, <2>3, <1>m DEF Again
  <2>4. CASE pc' = "idle"
    BY <2>1, <2>4, <1>m
  <2> QED BY <1>8, <2>2, <2>3, <2>4 DEF ScsiPlain, Return
<1>9. CASE ScsiFailed
  <2>1. UNCHANGED <<interface, asked, tries, signals>> /\ IsScsi /\ pc = "over"
    BY <1>9 DEF ScsiFailed
  <2>2. CASE pc' = "idle"
    BY <2>1, <2>2, <1>m
  <2>3. CASE NextTry
    BY <2>1, <2>3, <1>m DEF NextTry, Return, Again
  <2>4. CASE pc' = "reset" /\ Asis
    BY <2>1, <2>4 DEF Asis
  <2> QED BY <1>9, <2>2, <2>3, <2>4 DEF ScsiFailed, Return
<1>10. CASE ScsiTook
  BY <1>10, <1>m DEF ScsiTook, Return, PlacesInv
<1>11. ASSUME NEW ok \in BOOLEAN, ScsiReset(ok) PROVE TriesInv'
  BY <1>11, <1>m DEF ScsiReset, PlacesInv
<1>12. CASE StillUnready
  BY <1>12, <1>m DEF StillUnready, PlacesInv
<1>13. ASSUME NEW code \in {"0", "EIO", "EINTR", "ENOMEDIUM"}, BackFromReset(code) PROVE TriesInv'
  <2>1. UNCHANGED <<interface, asked, tries, signals>> /\ IsScsi /\ pc = "unready"
    BY <1>13 DEF BackFromReset, PlacesInv
  <2>2. CASE pc' = "idle"
    BY <2>1, <2>2, <1>m
  <2>3. CASE NextTry
    BY <2>1, <2>3, <1>m DEF NextTry, Return, Again
  <2> QED BY <1>13, <2>2, <2>3 DEF BackFromReset, Return
<1>14. CASE CookedTook
  BY <1>14, <1>m DEF CookedTook, Return, Asis, PlacesInv
<1>15. CASE CookedPlain
  BY <1>15, <1>m DEF CookedPlain, Return, CookedGone, PlacesInv
<1>16. CASE CookedFailed
  BY <1>16, <1>m DEF CookedFailed, Return, Again, Asis, PlacesInv
<1>17. CASE UNCHANGED vars
  BY <1>17 DEF vars
<1> QED BY <1>1, <1>2, <1>3, <1>4, <1>5, <1>6, <1>7, <1>8, <1>9, <1>10, <1>11,
           <1>12, <1>13, <1>14, <1>15, <1>16, <1>17 DEF Next, Working

-----------------------------------------------------------------------------
(* The invariant holds at first.                                           *)
LEMMA InitInv == Init => IInv
<1> SUFFICES ASSUME Init PROVE IInv
  OBVIOUS
<1>1. TypeOK
  BY InitTypes
<1>2. PlacesInv /\ LossInv /\ SizeInv
  BY DEF Init, PlacesInv, LossInv, SizeInv, MediumLossReported
<1>3. DataInv
  BY DEF Init, DataInv
<1>4. TriesInv
  BY TransportAssumption DEF Init, TriesInv
<1> QED BY <1>1, <1>2, <1>3, <1>4 DEF IInv

(* The invariant holds of every read, whatever the drive does.             *)
THEOREM Invariance == Spec => []IInv
<1>1. IInv /\ [Next]_vars => IInv'
  <2> SUFFICES ASSUME IInv, [Next]_vars PROVE IInv'
    OBVIOUS
  <2>1. PlainTypes' /\ QueueOK'
    BY PlainStep, QueueStep DEF IInv
  <2>2. TypeOK'
    BY <2>1 DEF TypeOK, PlainTypes, QueueOK, Item
  <2>3. PlacesInv' /\ LossInv' /\ SizeInv' /\ DataInv' /\ TriesInv'
    BY PlacesStep, LossStep, SizeStep, DataStep, TriesStep
  <2> QED BY <2>2, <2>3 DEF IInv
<1> QED BY <1>1, InitInv, PTL DEF Spec

(* A read returns its own data, and no more than was delivered.            *)
THEOREM DataIsOwn == Spec => []OwnData
<1>1. IInv => OwnData
  BY DEF IInv, SizeInv, DataInv, OwnData
<1> QED BY <1>1, Invariance, PTL

(* The number of commands of a read is bounded whatever goes wrong.        *)
THEOREM TriesAreBounded == Spec => []TriesBounded
<1>1. IInv => TriesBounded
  <2> SUFFICES ASSUME PlainTypes, SizeInv, TriesInv PROVE TriesBounded
    BY TypeParts DEF IInv
  <2> QED BY TransportAssumption DEF PlainTypes, SizeInv, TriesInv, TriesBounded, Spent
<1> QED BY <1>1, Invariance, PTL

(* An opened drive's missing medium is reported as such.                   *)
THEOREM LossIsReported == Spec => []MediumLossReported
<1>1. IInv => MediumLossReported
  BY DEF IInv, LossInv
<1> QED BY <1>1, Invariance, PTL
=============================================================================
