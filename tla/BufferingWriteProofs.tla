------------------------ MODULE BufferingWriteProofs ------------------------
(***************************************************************************)
(* Proofs about buffering_write.c for every buffer size, every set of      *)
(* files and descriptors and every sequence of writes.  The invariant says *)
(* where the bytes a file was offered are: in order on disk, then in order *)
(* in the buffer.                                                          *)
(***************************************************************************)
EXTENDS BufferingWrite, SequenceTheorems, TLAPS

(* h is the stretch of file f's stream that follows position a.            *)
Stretch(f, h, a) ==
  /\ h \in Seq(Byte)
  /\ \A i \in 1..Len(h) : h[i] = <<f, a + i>>

(* d holds bytes of file f only, in order, none from beyond position a.    *)
InOrder(f, d, a) ==
  /\ d \in Seq(Byte)
  /\ \A i \in 1..Len(d) :
       /\ d[i][1] = f
       /\ d[i][2] <= a
       /\ \A j \in 1..(i - 1) : d[j][2] < d[i][2]

(* An open file has one descriptor; bytes are held for open files only.    *)
DescriptorsOK ==
  /\ \A fd \in Fd : fileOf[fd] # NoFile => phase[fileOf[fd]] = "open"
  /\ \A a, b \in Fd : fileOf[a] = fileOf[b] /\ fileOf[a] # NoFile => a = b
  /\ bw_outbuf # <<>> => bw_fd # NoFd /\ fileOf[bw_fd] # NoFile

(* What reached the disk of file f, from what was offered.                 *)
DiskOK(f) ==
  /\ Len(disk[f]) <= offered[f]
  /\ InOrder(f, disk[f], offered[f])

(* While the program runs, what is held for a file is the end of what was  *)
(* offered to it, and nothing on disk is from that end.                    *)
HeldOK(f) ==
  /\ Len(disk[f]) + Len(Held(f)) <= offered[f]
  /\ Stretch(f, Held(f), offered[f] - Len(Held(f)))
  /\ InOrder(f, disk[f], offered[f] - Len(Held(f)))

Counted(f) == f \notin damaged => Len(disk[f]) + Len(Held(f)) = offered[f]

IInv ==
  /\ TypeOK
  /\ DescriptorsOK
  /\ \A f \in File : DiskOK(f) /\ Counted(f)
  /\ running => \A f \in File : HeldOK(f)

-----------------------------------------------------------------------------
(* Facts about sequences of bytes.                                         *)

\* Bytes in order below a bound are in order below a greater one.
LEMMA OrderMonotone ==
  ASSUME NEW f \in File, NEW d, NEW a \in Nat, NEW c \in Nat, a <= c, InOrder(f, d, a)
  PROVE  InOrder(f, d, c)
<1>1. \A i \in 1..Len(d) : d[i] \in Byte
  BY ElementOfSeq DEF InOrder
<1>2. \A i \in 1..Len(d) : d[i][2] \in Nat
  BY <1>1 DEF Byte
<1> QED BY <1>2 DEF InOrder

(* The next k bytes of the stream go to the disk behind what is there.     *)
LEMMA EmitInOrder ==
  ASSUME NEW f \in File, NEW a \in Nat, NEW d, NEW bytes,
         InOrder(f, d, a), Stretch(f, bytes, a), NEW k \in 0..Len(bytes)
  PROVE  /\ Len(d \o SubSeq(bytes, 1, k)) = Len(d) + k
         /\ InOrder(f, d \o SubSeq(bytes, 1, k), a + k)
<1> DEFINE s == SubSeq(bytes, 1, k)
           e == d \o s
<1>1. d \in Seq(Byte) /\ bytes \in Seq(Byte) /\ Len(d) \in Nat /\ Len(bytes) \in Nat
  BY LenProperties DEF InOrder, Stretch
<1>2. \A i \in 1..k : bytes[i] \in Byte
  BY <1>1, ElementOfSeq
<1>3. /\ s \in Seq(Byte)
      /\ Len(s) = k
      /\ \A i \in 1..k : s[i] = <<f, a + i>>
  <2>1. /\ SubSeq(bytes, 1, k) \in Seq(Byte)
        /\ Len(SubSeq(bytes, 1, k)) = IF 1 <= k THEN k - 1 + 1 ELSE 0
        /\ \A i \in 1..(k - 1 + 1) : SubSeq(bytes, 1, k)[i] = bytes[1 + i - 1]
    BY <1>2, SubSeqProperties
  <2> QED BY <1>1, <2>1 DEF Stretch
<1> HIDE DEF s
<1>4. /\ e \in Seq(Byte)
      /\ Len(e) = Len(d) + k
      /\ \A i \in 1..(Len(d) + k) : e[i] = IF i <= Len(d) THEN d[i] ELSE s[i - Len(d)]
  BY <1>1, <1>3, ConcatProperties
<1>5. \A i \in 1..Len(d) : e[i] = d[i] /\ d[i][1] = f /\ d[i][2] \in Nat /\ d[i][2] <= a
  <2>1. \A i \in 1..Len(d) : d[i] \in Byte
    BY <1>1, ElementOfSeq
  <2> QED BY <1>1, <1>4, <2>1 DEF InOrder, Byte
<1>6. \A i \in (Len(d) + 1)..(Len(d) + k) : e[i] = <<f, a + i - Len(d)>>
  BY <1>1, <1>3, <1>4
<1> HIDE DEF e
<1>7. ASSUME NEW i \in 1..Len(e)
      PROVE  /\ e[i][1] = f
             /\ e[i][2] <= a + k
             /\ \A j \in 1..(i - 1) : e[j][2] < e[i][2]
  <2>1. CASE i <= Len(d)
    <3>1. i \in 1..Len(d)
      BY <1>1, <1>4, <2>1
    <3>2. \A j \in 1..(i - 1) : e[j] = d[j] /\ d[j][2] < d[i][2]
      BY <1>1, <1>5, <3>1 DEF InOrder
    <3>3. e[i] = d[i] /\ d[i][1] = f /\ d[i][2] <= a /\ d[i][2] \in Nat
      BY <1>5, <3>1
    <3>4. e[i][2] <= a + k
      BY <3>3
    <3> QED BY <3>2, <3>3, <3>4
  <2>2. CASE i > Len(d)
    <3>1. e[i] = <<f, a + i - Len(d)>>
      BY <1>1, <1>4, <1>6, <2>2
    <3>2. ASSUME NEW j \in 1..(i - 1) PROVE e[j][2] < a + i - Len(d)
      <4>1. CASE j \in 1..Len(d)
        <5>1. e[j] = d[j] /\ d[j][2] \in Nat /\ d[j][2] <= a
          BY <1>5, <4>1
        <5> QED BY <1>1, <1>4, <2>2, <5>1
      <4>2. CASE j \in (Len(d) + 1)..(Len(d) + k)
        <5>1. e[j] = <<f, a + j - Len(d)>>
          BY <1>6, <4>2
        <5> QED BY <1>1, <1>4, <2>2, <4>2, <5>1
      <4> QED BY <1>1, <1>4, <4>1, <4>2
    <3> QED BY <1>1, <1>4, <2>2, <3>1, <3>2
  <2> QED BY <1>1, <1>4, <2>1, <2>2
<1> QED BY <1>4, <1>7 DEF InOrder, e, s

(* Consecutive stretches join, and a stretch can be cut.                   *)
LEMMA StretchJoin ==
  ASSUME NEW f \in File, NEW a \in Nat, NEW c, NEW h, NEW n,
         Stretch(f, h, a), c = a + Len(h), Stretch(f, n, c)
  PROVE  /\ Stretch(f, h \o n, a)
         /\ Len(h \o n) = Len(h) + Len(n)
<1>1. /\ h \in Seq(Byte) /\ n \in Seq(Byte)
      /\ Len(h) \in Nat /\ Len(n) \in Nat
  BY LenProperties DEF Stretch
<1>2. /\ h \o n \in Seq(Byte)
      /\ Len(h \o n) = Len(h) + Len(n)
      /\ \A i \in 1..(Len(h) + Len(n)) : (h \o n)[i] = IF i <= Len(h) THEN h[i] ELSE n[i - Len(h)]
  BY <1>1, ConcatProperties
<1>3. ASSUME NEW i \in 1..(Len(h) + Len(n))
      PROVE  (h \o n)[i] = <<f, a + i>>
  <2>1. CASE i <= Len(h)
    <3>1. i \in 1..Len(h) /\ (h \o n)[i] = h[i]
      BY <1>1, <1>2, <2>1
    <3> QED BY <3>1 DEF Stretch
  <2>2. CASE i > Len(h)
    <3>1. i - Len(h) \in 1..Len(n) /\ (h \o n)[i] = n[i - Len(h)]
      BY <1>1, <1>2, <2>2
    <3>2. n[i - Len(h)] = <<f, c + (i - Len(h))>>
      BY <3>1 DEF Stretch
    <3>3. c + (i - Len(h)) = a + i
      BY <1>1
    <3> QED BY <3>1, <3>2, <3>3
  <2> QED BY <1>1, <2>1, <2>2
<1> QED BY <1>2, <1>3, Zenon DEF Stretch

\* The front of a stretch of bytes is a stretch from the same place.
LEMMA StretchPrefix ==
  ASSUME NEW f \in File, NEW a \in Nat, NEW h, Stretch(f, h, a), NEW n \in 0..Len(h)
  PROVE  /\ Stretch(f, SubSeq(h, 1, n), a)
         /\ Len(SubSeq(h, 1, n)) = n
<1>1. h \in Seq(Byte) /\ Len(h) \in Nat
  BY LenProperties DEF Stretch
<1>2. n \in Int /\ \A i \in 1..n : h[i] \in Byte
  BY <1>1, ElementOfSeq
<1>3. /\ SubSeq(h, 1, n) \in Seq(Byte)
      /\ Len(SubSeq(h, 1, n)) = IF 1 <= n THEN n - 1 + 1 ELSE 0
      /\ \A i \in 1..(n - 1 + 1) : SubSeq(h, 1, n)[i] = h[1 + i - 1]
  BY <1>2, SubSeqProperties
<1>4. n \in Nat /\ n - 1 + 1 = n /\ \A i \in 1..n : 1 + i - 1 = i /\ i \in 1..Len(h)
  BY <1>1
<1>5. Len(SubSeq(h, 1, n)) = n /\ \A i \in 1..n : SubSeq(h, 1, n)[i] = h[i]
  BY <1>3, <1>4
<1>6. \A i \in 1..n : h[i] = <<f, a + i>>
  BY <1>4 DEF Stretch
<1> QED BY <1>3, <1>5, <1>6 DEF Stretch

\* What is left of a stretch is one from further on.
LEMMA StretchSuffix ==
  ASSUME NEW f \in File, NEW a \in Nat, NEW h, Stretch(f, h, a),
         NEW m \in 0..Len(h), NEW n, n = Len(h), NEW c, c = a + m
  PROVE  /\ Stretch(f, SubSeq(h, m + 1, n), c)
         /\ Len(SubSeq(h, m + 1, n)) = n - m
<1>1. h \in Seq(Byte) /\ Len(h) \in Nat
  BY LenProperties DEF Stretch
<1>2. m + 1 \in Int /\ n \in Int /\ \A i \in (m + 1)..n : h[i] \in Byte
  BY <1>1, ElementOfSeq
<1>3. /\ SubSeq(h, m + 1, n) \in Seq(Byte)
      /\ Len(SubSeq(h, m + 1, n)) = IF m + 1 <= n THEN n - (m + 1) + 1 ELSE 0
      /\ \A i \in 1..(n - (m + 1) + 1) : SubSeq(h, m + 1, n)[i] = h[m + 1 + i - 1]
  BY <1>2, SubSeqProperties
<1> QED BY <1>1, <1>2, <1>3 DEF Stretch

\* The bytes of a call are the stretch that follows what was offered.
LEMMA StretchNew ==
  ASSUME NEW f \in File, NEW num \in Nat, offered[f] \in Nat
  PROVE  /\ Stretch(f, NextBytes(f, num), offered[f])
         /\ Len(NextBytes(f, num)) = num
<1>1. NextBytes(f, num) \in [1..num -> Byte]
  BY DEF NextBytes, Byte
<1> QED BY <1>1 DEF NextBytes, Stretch

-----------------------------------------------------------------------------
(* The invariant.                                                          *)

\* Before the first file nothing was offered, buffered or written.
LEMMA InvInit == Init => IInv
<1> SUFFICES ASSUME Init PROVE IInv
  OBVIOUS
<1>1. <<>> \in Seq(Byte) /\ Len(<<>>) = 0
  BY EmptySeq
<1>2. TypeOK
  BY <1>1, BufferingAssumption DEF Init, TypeOK
<1>3. DescriptorsOK
  BY DEF Init, DescriptorsOK
<1>4. ASSUME NEW f \in File PROVE DiskOK(f) /\ HeldOK(f) /\ Counted(f)
  BY <1>1 DEF Init, DiskOK, HeldOK, Counted, Held, InOrder, Stretch
<1> QED BY <1>2, <1>3, <1>4 DEF IInv

(* What every step knows of a file and of the buffer.                      *)
LEMMA FileFacts ==
  ASSUME IInv, NEW f \in File
  PROVE  /\ disk[f] \in Seq(Byte) /\ Len(disk[f]) \in Nat
         /\ offered[f] \in Nat
         /\ Held(f) \in Seq(Byte) /\ Len(Held(f)) \in Nat
         /\ running => offered[f] - Len(Held(f)) \in Nat
<1>1. disk[f] \in Seq(Byte) /\ offered[f] \in Nat /\ bw_outbuf \in Seq(Byte)
  BY DEF IInv, TypeOK
<1>2. Held(f) \in Seq(Byte)
  BY <1>1, EmptySeq DEF Held
<1>3. Len(disk[f]) \in Nat /\ Len(Held(f)) \in Nat
  BY <1>1, <1>2, LenProperties
<1> QED BY <1>1, <1>2, <1>3 DEF IInv, HeldOK

(* A file none of whose bytes move and that is offered nothing.            *)
LEMMA FileUntouched ==
  ASSUME IInv, NEW f \in File,
         disk'[f] = disk[f], offered'[f] = offered[f], Held(f)' = Held(f),
         damaged \subseteq damaged', running' => running
  PROVE  /\ DiskOK(f)' /\ Counted(f)'
         /\ running' => HeldOK(f)'
BY DEF IInv, DiskOK, Counted, HeldOK

(* A step gets k of bytes out to file f, a stretch of f's stream from a,   *)
(* where its disk contents end, to b; the rest of what f was offered is    *)
(* held.  Only an error stops before b, and only an error stops the run.   *)
EmitStep(f, bytes, k, a, b) ==
  /\ a = offered[f] - Len(Held(f))
  /\ Stretch(f, bytes, a) /\ Len(bytes) \in Nat
  /\ k \in 0..Len(bytes)
  /\ b = a + Len(bytes)
  /\ disk'[f] = disk[f] \o SubSeq(bytes, 1, k)
  /\ offered'[f] \in Nat /\ b <= offered'[f]
  /\ k < Len(bytes) => f \in damaged'
  /\ damaged \subseteq damaged'
  /\ running' => Len(Held(f)') = offered'[f] - b /\ Stretch(f, Held(f)', b)
  /\ ~running' => f \in damaged'

\* Emitting the front of what a file holds keeps the file in order and its bytes counted.
LEMMA FileEmits ==
  ASSUME IInv, running, NEW f \in File, NEW bytes, NEW k, NEW a, NEW b,
         EmitStep(f, bytes, k, a, b)
  PROVE  /\ DiskOK(f)' /\ Counted(f)'
         /\ running' => HeldOK(f)'
         /\ disk'[f] \in Seq(Byte)
<1>1. /\ a \in Nat /\ Len(disk[f]) \in Nat
      /\ InOrder(f, disk[f], a) /\ Len(disk[f]) <= a
      /\ f \notin damaged => Len(disk[f]) = a
  BY FileFacts DEF EmitStep, IInv, HeldOK, Counted
<1>2. Stretch(f, bytes, a) /\ k \in 0..Len(bytes) /\ Len(bytes) \in Nat
  BY DEF EmitStep
<1>3. /\ Len(disk[f] \o SubSeq(bytes, 1, k)) = Len(disk[f]) + k
      /\ InOrder(f, disk[f] \o SubSeq(bytes, 1, k), a + k)
  BY <1>1, <1>2, EmitInOrder
<1>4. disk'[f] = disk[f] \o SubSeq(bytes, 1, k)
  BY DEF EmitStep
<1>5. Len(disk'[f]) = Len(disk[f]) + k /\ InOrder(f, disk'[f], a + k)
  BY <1>3, <1>4
<1>6. b = a + Len(bytes) /\ offered'[f] \in Nat /\ b <= offered'[f]
  BY DEF EmitStep
<1>7. /\ b \in Nat /\ a + k \in Nat /\ a + k <= b /\ Len(disk'[f]) <= offered'[f]
      /\ Len(Held(f)') = offered'[f] - b =>
           /\ Len(disk'[f]) + Len(Held(f)') <= offered'[f]
           /\ offered'[f] - Len(Held(f)') = b
      /\ Len(Held(f)') = offered'[f] - b /\ Len(disk[f]) = a /\ ~(k < Len(bytes)) =>
           Len(disk'[f]) + Len(Held(f)') = offered'[f]
  <2>1. /\ a \in Nat /\ Len(bytes) \in Nat /\ k \in 0..Len(bytes)
        /\ Len(disk[f]) \in Nat /\ offered'[f] \in Nat
        /\ Len(disk[f]) <= a /\ b = a + Len(bytes)
        /\ Len(disk'[f]) = Len(disk[f]) + k /\ b <= offered'[f]
    BY <1>1, <1>2, <1>5, <1>6, Zenon
  <2> DEFINE dn == Len(disk'[f])  hn == Len(Held(f)')  bl == Len(bytes)
             dl == Len(disk[f])   on == offered'[f]
  <2>2. /\ a \in Nat /\ bl \in Nat /\ k \in 0..bl /\ dl \in Nat /\ on \in Nat
        /\ dl <= a /\ b = a + bl /\ dn = dl + k /\ b <= on
    BY <2>1
  <2> HIDE DEF dn, hn, bl, dl, on
  <2>3. /\ b \in Nat /\ a + k \in Nat /\ a + k <= b /\ dn <= on
        /\ hn = on - b => dn + hn <= on /\ on - hn = b
        /\ hn = on - b /\ dl = a /\ ~(k < bl) => dn + hn = on
    BY <2>2
  <2> QED BY <2>3 DEF dn, hn, bl, dl, on
<1>8. InOrder(f, disk'[f], b) /\ InOrder(f, disk'[f], offered'[f])
  BY <1>5, <1>6, <1>7, OrderMonotone
<1>9. DiskOK(f)'
  BY <1>7, <1>8 DEF DiskOK
<1>10. running' => HeldOK(f)'
  BY <1>7, <1>8 DEF HeldOK, EmitStep
<1>11. Counted(f)'
  BY <1>1, <1>7 DEF Counted, EmitStep
<1> QED BY <1>8, <1>9, <1>10, <1>11 DEF InOrder

(* What is held for the file that descriptor fd refers to.                 *)
LEMMA HeldByDescriptor ==
  ASSUME IInv, NEW fd \in Fd, fileOf[fd] # NoFile
  PROVE  /\ fileOf[fd] \in File
         /\ bw_fd = fd => Held(fileOf[fd]) = bw_outbuf
         /\ bw_fd # fd => Held(fileOf[fd]) = <<>>
<1>1. fd # NoFd /\ fileOf[fd] \in File
  BY BufferingAssumption DEF IInv, TypeOK
<1>2. ASSUME bw_fd # fd PROVE Held(fileOf[fd]) = <<>>
  BY <1>2 DEF IInv, TypeOK, DescriptorsOK, Held
<1> QED BY <1>1, <1>2 DEF Held

\* An empty buffer is flushed by writing nothing.
LEMMA NothingEmitted ==
  ASSUME NEW d \in Seq(Byte)
  PROVE  /\ d \o SubSeq(<<>>, 1, 0) = d
         /\ Len(<<>>) = 0 /\ 0 \in 0..Len(<<>>)
         /\ \A f \in File : \A a \in Nat : Stretch(f, <<>>, a)
<1>1. SubSeq(<<>>, 1, 0) = <<>>
  BY SubSeqEmpty
<1>2. d \o <<>> = d /\ <<>> \in Seq(Byte) /\ Len(<<>>) = 0
  BY ConcatEmptySeq, EmptySeq
<1> QED BY <1>1, <1>2 DEF Stretch

\* Opening a file keeps the invariant, also on a descriptor used before.
LEMMA OpenNext ==
  ASSUME IInv, NEW fd \in Fd, NEW f \in File, Open(fd, f)
  PROVE  IInv'
<1>1. TypeOK'
  BY DEF IInv, TypeOK, Open
<1>2. /\ \A a \in Fd : fileOf'[a] = IF a = fd THEN f ELSE fileOf[a]
      /\ \A g \in File : phase'[g] = IF g = f THEN "open" ELSE phase[g]
      /\ phase[f] = "fresh" /\ fileOf[fd] = NoFile
  BY DEF IInv, TypeOK, Open
<1>3. \A a \in Fd : fileOf[a] = NoFile \/ (fileOf[a] \in File /\ fileOf[a] # f)
  BY <1>2 DEF IInv, TypeOK, DescriptorsOK
<1>4. DescriptorsOK'
  <2>1. bw_outbuf' # <<>> => bw_fd' # NoFd /\ fileOf'[bw_fd'] # NoFile
    BY <1>2, BufferingAssumption DEF IInv, TypeOK, DescriptorsOK, Open
  <2>2. \A a \in Fd : fileOf'[a] # NoFile => phase'[fileOf'[a]] = "open"
    <3>1. \A a \in Fd : fileOf[a] # NoFile => phase[fileOf[a]] = "open"
      BY DEF IInv, DescriptorsOK
    <3> QED BY <1>2, <1>3, <3>1
  <2>3. \A a, b \in Fd : fileOf'[a] = fileOf'[b] /\ fileOf'[a] # NoFile => a = b
    <3>1. \A a, b \in Fd : fileOf[a] = fileOf[b] /\ fileOf[a] # NoFile => a = b
      BY DEF IInv, DescriptorsOK
    <3> QED BY <1>2, <1>3, <3>1, BufferingAssumption
  <2> QED BY <2>1, <2>2, <2>3 DEF DescriptorsOK
<1>5. ASSUME NEW g \in File PROVE Held(g)' = Held(g)
  <2>1. bw_outbuf = <<>> \/ (bw_fd # fd /\ bw_fd \in Fd)
    BY <1>2 DEF IInv, TypeOK, DescriptorsOK
  <2> QED BY <1>2, <2>1 DEF Held, Open
<1>6. ASSUME NEW g \in File PROVE DiskOK(g)' /\ Counted(g)' /\ (running' => HeldOK(g)')
  BY <1>5, FileUntouched DEF Open
<1> QED BY <1>1, <1>4, <1>6 DEF IInv

\* A header written past the buffer keeps the invariant.
LEMMA HeaderNext ==
  ASSUME IInv, NEW fd \in Fd, NEW num \in 1..MaxNum, NEW k \in 0..num,
         WriteHeader(fd, num, k)
  PROVE  IInv'
<1>0. PICK f \in File : f = fileOf[fd]
  BY HeldByDescriptor DEF WriteHeader, Writable
<1>1. /\ running /\ offered[f] = 0
      /\ UNCHANGED <<bw_fd, bw_outbuf, fileOf, phase>>
      /\ disk' = [disk EXCEPT ![f] = @ \o SubSeq(NextBytes(f, num), 1, k)]
      /\ offered' = [offered EXCEPT ![f] = @ + num]
      /\ num \in Nat
  <2>1. num \in Nat
    BY BufferingAssumption
  <2>2. /\ running /\ offered[f] = 0
        /\ UNCHANGED <<bw_fd, bw_outbuf, fileOf, phase>>
    BY <1>0 DEF WriteHeader, Writable
  <2>3. disk' = [disk EXCEPT ![f] = @ \o SubSeq(NextBytes(f, num), 1, k)]
    BY <1>0 DEF WriteHeader, Emit
  <2>4. offered' = [offered EXCEPT ![f] = @ + num]
    BY <1>0 DEF WriteHeader
  <2> QED BY <2>1, <2>2, <2>3, <2>4
<1>2. /\ Stretch(f, NextBytes(f, num), offered[f])
      /\ Len(NextBytes(f, num)) = num
  BY <1>1, StretchNew, FileFacts
<1>3. /\ damaged' = IF k < num THEN damaged \cup {f} ELSE damaged
      /\ (running' => k = num) /\ (~running' => k # num) /\ running' \in BOOLEAN
  <2>1. running' = (k = num)
    BY DEF WriteHeader
  <2> QED BY <1>0, <1>2, <2>1 DEF WriteHeader, Emit
<1>d. damaged \subseteq damaged' /\ (k < num => f \in damaged')
  BY <1>3
<1>4. Len(Held(f)) = 0 /\ offered[f] - Len(Held(f)) = 0
  BY <1>1, FileFacts
<1>5. \A g \in File : Held(g)' = Held(g)
  BY <1>1 DEF Held
<1>6. /\ disk'[f] = disk[f] \o SubSeq(NextBytes(f, num), 1, k)
      /\ offered'[f] = num
      /\ \A g \in File \ {f} : disk'[g] = disk[g] /\ offered'[g] = offered[g]
  BY <1>1 DEF IInv, TypeOK
<1>7. DiskOK(f)' /\ Counted(f)' /\ (running' => HeldOK(f)') /\ disk'[f] \in Seq(Byte)
  <2>1. Len(Held(f)') = 0 /\ Held(f)' = <<>>
    <3>1. Held(f) \in Seq(Byte) /\ Len(Held(f)) = 0
      BY <1>1, <1>4, FileFacts
    <3>2. Held(f) = <<>>
      BY <3>1, EmptySeq
    <3>3. Held(f)' = <<>>
      BY <1>1, <1>5, <3>2
    <3> QED BY <3>3, EmptySeq
  <2>2. Stretch(f, <<>>, num)
    BY <1>1, NothingEmitted, FileFacts
  <2>3. /\ offered'[f] \in Nat /\ num <= offered'[f] /\ k \in 0..Len(NextBytes(f, num))
        /\ num \in Nat /\ num = 0 + Len(NextBytes(f, num))
        /\ 0 = offered[f] - Len(Held(f))
        /\ Stretch(f, NextBytes(f, num), 0)
        /\ k < Len(NextBytes(f, num)) => f \in damaged'
        /\ ~running' => f \in damaged'
        /\ Len(NextBytes(f, num)) \in Nat
    BY <1>1, <1>2, <1>3, <1>d, <1>4, <1>6
  <2>4. Len(Held(f)') = offered'[f] - num /\ Stretch(f, Held(f)', num)
    BY <1>1, <1>6, <2>1, <2>2
  <2>5. EmitStep(f, NextBytes(f, num), k, 0, num)
    BY <1>d, <1>6, <2>3, <2>4 DEF EmitStep
  <2> QED BY <1>1, <2>5, FileEmits
<1>8. ASSUME NEW g \in File \ {f} PROVE DiskOK(g)' /\ Counted(g)' /\ (running' => HeldOK(g)')
  <2>1. disk'[g] = disk[g] /\ offered'[g] = offered[g] /\ Held(g)' = Held(g)
    BY <1>5, <1>6
  <2> QED BY <1>1, <1>d, <2>1, FileUntouched
<1>g. ASSUME NEW g \in File PROVE DiskOK(g)' /\ Counted(g)' /\ (running' => HeldOK(g)')
  BY <1>7, <1>8
<1>9. TypeOK'
  <2>1. disk' \in [File -> Seq(Byte)]
    BY <1>1, <1>7 DEF IInv, TypeOK
  <2>2. offered' \in [File -> Nat]
    BY <1>1 DEF IInv, TypeOK
  <2>3. damaged' \subseteq File /\ running' \in BOOLEAN
    BY <1>1, <1>3 DEF IInv, TypeOK
  <2> QED BY <1>1, <2>1, <2>2, <2>3 DEF IInv, TypeOK
<1>10. DescriptorsOK'
  BY <1>1 DEF IInv, DescriptorsOK
<1> QED BY <1>g, <1>9, <1>10 DEF IInv

\* So does a call whose bytes fit,
LEMMA FitsNext ==
  ASSUME IInv, NEW fd \in Fd, NEW num \in 1..MaxNum, WriteFits(fd, num)
  PROVE  IInv'
<1>0. PICK f \in File : f = fileOf[fd]
  BY HeldByDescriptor DEF WriteFits, Writable
<1>1. /\ running /\ num \in Nat /\ bw_fd = fd /\ Held(f) = bw_outbuf /\ f # NoFile
      /\ fd # NoFd
  BY <1>0, HeldByDescriptor, BufferingAssumption DEF WriteFits, Writable
<1>2. /\ UNCHANGED <<bw_fd, fileOf, disk, phase, damaged, running>>
      /\ bw_outbuf' = bw_outbuf \o NextBytes(f, num)
      /\ offered' = [offered EXCEPT ![f] = @ + num]
      /\ Len(bw_outbuf) + num <= OUTBUFSZ
  BY <1>0 DEF WriteFits
<1>3. /\ offered'[f] = offered[f] + num
      /\ \A g \in File \ {f} : offered'[g] = offered[g]
      /\ offered' \in [File -> Nat]
  BY <1>1, <1>2 DEF IInv, TypeOK
<1> DEFINE a == offered[f] - Len(Held(f))
<1>4. /\ a \in Nat /\ offered[f] \in Nat /\ Len(Held(f)) \in Nat
      /\ disk[f] \in Seq(Byte)
      /\ Stretch(f, Held(f), a) /\ offered[f] = a + Len(Held(f))
  BY <1>1, FileFacts DEF IInv, HeldOK
<1>5. /\ Stretch(f, NextBytes(f, num), offered[f])
      /\ Len(NextBytes(f, num)) = num
  BY <1>1, <1>4, StretchNew
<1>6. Held(f)' = Held(f) \o NextBytes(f, num)
  BY <1>0, <1>1, <1>2 DEF Held
<1>a. a = offered[f] - Len(Held(f))
  OBVIOUS
<1> HIDE DEF a
<1>7. /\ Stretch(f, Held(f)', a)
      /\ Len(Held(f)') = Len(Held(f)) + num
  <2>1. /\ Stretch(f, Held(f) \o NextBytes(f, num), a)
        /\ Len(Held(f) \o NextBytes(f, num)) = Len(Held(f)) + Len(NextBytes(f, num))
    <3>1. /\ a \in Nat /\ offered[f] = a + Len(Held(f))
          /\ Stretch(f, Held(f), a) /\ Stretch(f, NextBytes(f, num), offered[f])
      BY <1>4, <1>5, Zenon
    <3> QED BY <3>1, StretchJoin
  <2> QED BY <1>5, <1>6, <2>1, Zenon
<1>8. DiskOK(f)' /\ Counted(f)' /\ (running' => HeldOK(f)')
  <2>1. /\ disk[f] \o SubSeq(<<>>, 1, 0) = disk[f]
        /\ Len(<<>>) = 0 /\ 0 \in 0..Len(<<>>)
        /\ Stretch(f, <<>>, a)
    BY <1>4, NothingEmitted
  <2>2. /\ disk'[f] = disk[f] \o SubSeq(<<>>, 1, 0)
        /\ offered'[f] \in Nat /\ a <= offered'[f]
        /\ Len(Held(f)') = offered'[f] - a
    BY <1>1, <1>2, <1>3, <1>4, <1>7, <2>1
  <2>3. a = a + Len(<<>>) /\ Len(<<>>) \in Nat /\ ~(0 < Len(<<>>))
    BY <1>4, <2>1
  <2>4. damaged \subseteq damaged' /\ running'
    BY <1>1, <1>2
  <2>5. EmitStep(f, <<>>, 0, a, a)
    BY <1>4, <1>a, <1>7, <2>1, <2>2, <2>3, <2>4 DEF EmitStep
  <2> QED BY <1>1, <2>5, FileEmits
<1>9. ASSUME NEW g \in File, g # f
      PROVE  DiskOK(g)' /\ Counted(g)' /\ (running' => HeldOK(g)')
  <2>1. Held(g)' = Held(g)
    BY <1>0, <1>1, <1>2, <1>9 DEF Held
  <2> QED BY <1>1, <1>2, <1>3, <1>9, <2>1, FileUntouched
<1>10. TypeOK'
  <2>1. bw_outbuf' \in Seq(Byte) /\ Len(bw_outbuf') <= OUTBUFSZ
    <3>1. Held(f)' = bw_outbuf'
      BY <1>1, <1>2, <1>6
    <3> QED BY <1>1, <1>2, <1>7, <3>1 DEF Stretch
  <2> QED BY <1>2, <1>3, <2>1 DEF IInv, TypeOK
<1>11. DescriptorsOK'
  BY <1>0, <1>1, <1>2 DEF IInv, DescriptorsOK
<1>12. ASSUME NEW g \in File
       PROVE  DiskOK(g)' /\ Counted(g)' /\ (running' => HeldOK(g)')
  BY <1>8, <1>9
<1> QED BY <1>10, <1>11, <1>12 DEF IInv

\* one that fills the buffer and empties it,
LEMMA SpillsNext ==
  ASSUME IInv, NEW fd \in Fd, NEW num \in 1..MaxNum, NEW k \in 0..OUTBUFSZ,
         WriteSpills(fd, num, k)
  PROVE  IInv'
<1>0. PICK f \in File : f = fileOf[fd]
  BY HeldByDescriptor DEF WriteSpills, Writable
<1>1. /\ running /\ num \in Nat /\ num <= OUTBUFSZ /\ bw_fd = fd /\ Held(f) = bw_outbuf
      /\ fd # NoFd /\ OUTBUFSZ \in Nat
      /\ Len(bw_outbuf) \in Nat /\ Len(bw_outbuf) <= OUTBUFSZ
      /\ Len(bw_outbuf) + num > OUTBUFSZ
  <2>1. running /\ bw_fd = fd /\ Len(bw_outbuf) + num > OUTBUFSZ /\ fileOf[fd] # NoFile
    BY DEF WriteSpills, Writable
  <2>2. Held(f) = bw_outbuf /\ Len(bw_outbuf) \in Nat
    BY <1>0, <2>1, HeldByDescriptor, FileFacts
  <2>3. Len(bw_outbuf) <= OUTBUFSZ
    BY DEF IInv, TypeOK
  <2> QED BY <2>1, <2>2, <2>3, BufferingAssumption
<1> DEFINE room == OUTBUFSZ - Len(bw_outbuf)
           new == NextBytes(f, num)
           top == SubSeq(new, 1, room)
           bytes == bw_outbuf \o top
           a == offered[f] - Len(Held(f))
<1>2. /\ UNCHANGED <<bw_fd, fileOf, phase>>
      /\ disk' = [disk EXCEPT ![f] = @ \o SubSeq(bytes, 1, k)]
      /\ offered' = [offered EXCEPT ![f] = @ + num]
  BY <1>0 DEF WriteSpills, Emit
<1>3. /\ damaged' = IF k < Len(bytes) THEN damaged \cup {f} ELSE damaged
      /\ k = OUTBUFSZ => bw_outbuf' = SubSeq(new, room + 1, num) /\ running' = running
      /\ k # OUTBUFSZ => bw_outbuf' = bw_outbuf /\ running' = FALSE
  BY <1>0 DEF WriteSpills, Emit
<1>4. /\ offered'[f] = offered[f] + num
      /\ \A g \in File \ {f} : offered'[g] = offered[g] /\ disk'[g] = disk[g]
      /\ disk'[f] = disk[f] \o SubSeq(bytes, 1, k)
      /\ offered' \in [File -> Nat]
  <2>1. disk' = [disk EXCEPT ![f] = @ \o SubSeq(bytes, 1, k)]
    BY <1>2
  <2> HIDE DEF bytes
  <2> QED BY <1>1, <1>2, <2>1 DEF IInv, TypeOK
<1>5. /\ a \in Nat /\ offered[f] \in Nat
      /\ Stretch(f, bw_outbuf, a) /\ offered[f] = a + Len(bw_outbuf)
      /\ a = offered[f] - Len(Held(f))
  BY <1>1, FileFacts DEF IInv, HeldOK
<1>6. /\ Stretch(f, new, offered[f])
      /\ Len(new) = num
  BY <1>1, <1>5, StretchNew
<1>7. room \in 0..num
  BY <1>1
<1> HIDE DEF room, new, a
(* The first room bytes top the buffer up ...                              *)
<1>8. /\ Stretch(f, top, offered[f])
      /\ Len(top) = room
  BY <1>1, <1>5, <1>6, <1>7, StretchPrefix
<1> HIDE DEF top
<1>9. Stretch(f, bytes, a) /\ Len(bytes) = OUTBUFSZ
  <2>1. /\ Stretch(f, bw_outbuf \o top, a)
        /\ Len(bw_outbuf \o top) = Len(bw_outbuf) + Len(top)
    <3>1. /\ a \in Nat /\ offered[f] = a + Len(bw_outbuf)
          /\ Stretch(f, bw_outbuf, a) /\ Stretch(f, top, offered[f])
      BY <1>5, <1>8, Zenon
    <3> QED BY <3>1, StretchJoin
  <2>2. Stretch(f, bytes, a) /\ Len(bytes) = Len(bw_outbuf) + room
    BY <1>8, <2>1, Zenon DEF bytes
  <2> HIDE DEF bytes
  <2> QED BY <1>1, <2>2 DEF room
<1> DEFINE b == offered[f] + room
<1>b. b \in Nat /\ b = offered[f] + room
  BY <1>1, <1>5, <1>7
(* ... and the others are what the buffer holds after it was written out.  *)
<1>10. /\ Stretch(f, SubSeq(new, room + 1, num), b)
       /\ Len(SubSeq(new, room + 1, num)) = num - room
  <2> HIDE DEF b
  <2>1. /\ offered[f] \in Nat /\ Stretch(f, new, offered[f]) /\ num = Len(new)
        /\ room \in 0..Len(new) /\ b = offered[f] + room
    BY <1>5, <1>6, <1>7, <1>b, Zenon
  <2> QED BY <2>1, StretchSuffix
<1> HIDE DEF bytes, b
<1>11. Held(f)' = bw_outbuf'
  BY <1>0, <1>1, <1>2 DEF Held
<1>12. DiskOK(f)' /\ Counted(f)' /\ (running' => HeldOK(f)') /\ disk'[f] \in Seq(Byte)
  <2>1. /\ b = a + Len(bytes) /\ b <= offered'[f]
        /\ offered'[f] \in Nat /\ Len(bytes) \in Nat /\ k \in 0..Len(bytes)
    <3>1. /\ offered'[f] = offered[f] + num
          /\ offered[f] = a + Len(bw_outbuf)
          /\ room = OUTBUFSZ - Len(bw_outbuf)
      BY <1>4, <1>5 DEF room
    <3> QED BY <1>1, <1>5, <1>7, <1>9, <1>b, <3>1
  <2>2. /\ k < Len(bytes) => f \in damaged'
        /\ damaged \subseteq damaged'
        /\ ~running' => f \in damaged'
    <3>1. CASE k = OUTBUFSZ
      BY <1>1, <1>3, <1>9, <3>1
    <3>2. CASE k # OUTBUFSZ
      <4>1. k < Len(bytes)
        BY <1>1, <1>9, <3>2
      <4> QED BY <1>3, <4>1
    <3> QED BY <3>1, <3>2
  <2>3. ASSUME running'
        PROVE  Len(Held(f)') = offered'[f] - b /\ Stretch(f, Held(f)', b)
    <3>1. Held(f)' = SubSeq(new, room + 1, num)
      BY <1>3, <1>11, <2>3
    <3>2. offered'[f] - b = num - room
      BY <1>1, <1>4, <1>5, <1>7, <1>b
    <3> QED BY <1>10, <3>1, <3>2
  <2>4. EmitStep(f, bytes, k, a, b)
    BY <1>4, <1>5, <1>9, <1>b, <2>1, <2>2, <2>3 DEF EmitStep
  <2> QED BY <1>1, <2>4, FileEmits
<1>13. ASSUME NEW g \in File, g # f
       PROVE  DiskOK(g)' /\ Counted(g)' /\ (running' => HeldOK(g)')
  <2>1. Held(g)' = Held(g)
    BY <1>0, <1>1, <1>2, <1>13 DEF Held
  <2>2. damaged \subseteq damaged'
    BY <1>3
  <2> QED BY <1>1, <1>4, <1>13, <2>1, <2>2, FileUntouched
<1>14. bw_outbuf' \in Seq(Byte) /\ Len(bw_outbuf') <= OUTBUFSZ /\ running' \in BOOLEAN
       /\ damaged' \subseteq File
  <2>1. CASE k = OUTBUFSZ
    <3>1. num - room <= OUTBUFSZ
      BY <1>1, <1>7
    <3>2. bw_outbuf' = SubSeq(new, room + 1, num) /\ running' = running
      BY <1>3, <2>1
    <3> QED BY <1>3, <1>10, <3>1, <3>2 DEF Stretch, IInv, TypeOK
  <2>2. CASE k # OUTBUFSZ
    BY <1>1, <1>3, <1>5, <2>2 DEF Stretch, IInv, TypeOK
  <2> QED BY <2>1, <2>2
<1>15. TypeOK'
  <2>1. disk' \in [File -> Seq(Byte)]
    BY <1>2, <1>4, <1>12 DEF IInv, TypeOK
  <2> QED BY <1>2, <1>4, <1>14, <2>1 DEF IInv, TypeOK
<1>16. DescriptorsOK'
  <2>1. fileOf[fd] # NoFile
    BY DEF WriteSpills, Writable
  <2> QED BY <1>1, <1>2, <2>1 DEF IInv, DescriptorsOK
<1>17. ASSUME NEW g \in File
       PROVE  DiskOK(g)' /\ Counted(g)' /\ (running' => HeldOK(g)')
  BY <1>12, <1>13
<1> QED BY <1>15, <1>16, <1>17 DEF IInv

(* The buffer is written out for the file it belongs to and not refilled   *)
(* for it.                                                                 *)
LEMMA HeldFlushed ==
  ASSUME IInv, running, running', bw_outbuf # <<>>,
         NEW f \in File, fileOf[bw_fd] = f, NEW k, Emit(f, bw_outbuf, k),
         Held(f)' = <<>>, offered'[f] = offered[f]
  PROVE  /\ DiskOK(f)' /\ Counted(f)' /\ HeldOK(f)'
         /\ disk' \in [File -> Seq(Byte)]
         /\ damaged \subseteq damaged' /\ damaged' \subseteq File
         /\ \A g \in File \ {f} : disk'[g] = disk[g]
<1>1. Held(f) = bw_outbuf
  BY DEF Held, IInv, DescriptorsOK
<1>2. /\ disk' = [disk EXCEPT ![f] = @ \o SubSeq(bw_outbuf, 1, k)]
      /\ damaged' = IF k < Len(bw_outbuf) THEN damaged \cup {f} ELSE damaged
      /\ k \in 0..Len(bw_outbuf)
  BY DEF Emit
<1>3. damaged \subseteq damaged' /\ damaged' \subseteq File /\ (k < Len(bw_outbuf) => f \in damaged')
  BY <1>2 DEF IInv, TypeOK
<1>4. /\ disk'[f] = disk[f] \o SubSeq(bw_outbuf, 1, k)
      /\ \A g \in File \ {f} : disk'[g] = disk[g]
  BY <1>2 DEF IInv, TypeOK
<1> DEFINE a == offered[f] - Len(Held(f))
<1>5. /\ a \in Nat /\ offered[f] \in Nat /\ Len(bw_outbuf) \in Nat
      /\ Stretch(f, bw_outbuf, a) /\ offered[f] = a + Len(bw_outbuf)
      /\ a = offered[f] - Len(Held(f))
  BY <1>1, FileFacts DEF IInv, HeldOK
<1> HIDE DEF a
<1>6. Len(<<>>) = 0 /\ Stretch(f, <<>>, offered[f])
  BY <1>5, NothingEmitted, FileFacts
<1>7. /\ Len(Held(f)') = offered'[f] - offered[f] /\ Stretch(f, Held(f)', offered[f])
      /\ offered[f] <= offered'[f] /\ offered'[f] \in Nat
  BY <1>5, <1>6
<1>8. EmitStep(f, bw_outbuf, k, a, offered[f])
  BY <1>2, <1>3, <1>4, <1>5, <1>7 DEF EmitStep
<1>9. DiskOK(f)' /\ Counted(f)' /\ HeldOK(f)' /\ disk'[f] \in Seq(Byte)
  BY <1>8, FileEmits
<1>10. disk' \in [File -> Seq(Byte)]
  BY <1>2, <1>4, <1>9 DEF IInv, TypeOK
<1> QED BY <1>3, <1>4, <1>9, <1>10

\* one that first empties the buffer of another descriptor,
LEMMA SwitchesNext ==
  ASSUME IInv, NEW fd \in Fd, NEW num \in 1..MaxNum, NEW k \in 0..OUTBUFSZ,
         WriteSwitches(fd, num, k)
  PROVE  IInv'
<1>0. PICK f \in File : f = fileOf[fd]
  BY HeldByDescriptor DEF WriteSwitches, Writable
<1>1. /\ running /\ running' /\ num \in Nat /\ num <= OUTBUFSZ /\ bw_fd # fd
      /\ fd # NoFd /\ f # NoFile
  BY <1>0, BufferingAssumption DEF WriteSwitches, Writable
<1>2. /\ bw_fd' = fd /\ bw_outbuf' = NextBytes(f, num)
      /\ offered' = [offered EXCEPT ![f] = @ + num]
      /\ UNCHANGED <<fileOf, phase, running>>
  BY <1>0 DEF WriteSwitches
<1>3. /\ offered'[f] = offered[f] + num
      /\ \A g \in File \ {f} : offered'[g] = offered[g]
      /\ offered' \in [File -> Nat] /\ offered[f] \in Nat
  BY <1>1, <1>2 DEF IInv, TypeOK
<1>4. Held(f) = <<>> /\ Held(f)' = NextBytes(f, num)
  BY <1>0, <1>1, <1>2, HeldByDescriptor DEF Held
<1>5. \A g \in File \ {f} : Held(g)' = <<>>
  BY <1>0, <1>1, <1>2 DEF Held
<1>6. Stretch(f, NextBytes(f, num), offered[f]) /\ Len(NextBytes(f, num)) = num
  BY <1>1, <1>3, StretchNew
(* Whatever was held was another file's.                                   *)
<1>7. /\ \A g \in File \ {f} : DiskOK(g)' /\ Counted(g)' /\ HeldOK(g)'
      /\ disk' \in [File -> Seq(Byte)]
      /\ damaged \subseteq damaged' /\ damaged' \subseteq File
      /\ disk'[f] = disk[f]
  <2>1. CASE bw_fd # NoFd /\ bw_outbuf # <<>>
    <3>1. bw_fd \in Fd /\ fileOf[bw_fd] # NoFile
      BY <2>1 DEF IInv, TypeOK, DescriptorsOK
    <3>2. PICK h \in File : h = fileOf[bw_fd]
      BY <3>1, HeldByDescriptor
    <3>3. h # f
      BY <1>0, <1>1, <3>1, <3>2 DEF IInv, DescriptorsOK
    <3>4. Emit(h, bw_outbuf, k)
      BY <2>1, <3>2 DEF WriteSwitches
    <3>5. Held(h)' = <<>> /\ offered'[h] = offered[h]
      BY <1>3, <1>5, <3>3
    <3>6. /\ DiskOK(h)' /\ Counted(h)' /\ HeldOK(h)'
          /\ disk' \in [File -> Seq(Byte)]
          /\ damaged \subseteq damaged' /\ damaged' \subseteq File
          /\ \A g \in File \ {h} : disk'[g] = disk[g]
      BY <1>1, <2>1, <3>2, <3>4, <3>5, HeldFlushed
    <3>7. ASSUME NEW g \in File, g # f, g # h
          PROVE  DiskOK(g)' /\ Counted(g)' /\ HeldOK(g)'
      <4>1. Held(g) = <<>> /\ Held(g)' = <<>>
        BY <1>5, <2>1, <3>2, <3>7 DEF Held
      <4>2. disk'[g] = disk[g] /\ offered'[g] = offered[g] /\ Held(g)' = Held(g)
        BY <1>3, <3>6, <3>7, <4>1
      <4> QED BY <1>1, <3>6, <4>2, FileUntouched
    <3> QED BY <3>3, <3>6, <3>7
  <2>2. CASE ~(bw_fd # NoFd /\ bw_outbuf # <<>>)
    <3>1. disk' = disk /\ damaged' = damaged
      BY <2>2 DEF WriteSwitches
    <3>2. ASSUME NEW g \in File, g # f
          PROVE  DiskOK(g)' /\ Counted(g)' /\ HeldOK(g)'
      <4>1. Held(g) = <<>> /\ Held(g)' = <<>>
        BY <1>5, <2>2, <3>2 DEF Held
      <4>2. disk'[g] = disk[g] /\ offered'[g] = offered[g] /\ Held(g)' = Held(g)
        BY <1>3, <3>1, <3>2, <4>1
      <4> QED BY <1>1, <3>1, <4>2, FileUntouched
    <3> QED BY <3>1, <3>2 DEF IInv, TypeOK
  <2> QED BY <2>1, <2>2
<1>8. DiskOK(f)' /\ Counted(f)' /\ (running' => HeldOK(f)')
  <2>1. /\ disk[f] \o SubSeq(<<>>, 1, 0) = disk[f]
        /\ Len(<<>>) = 0 /\ 0 \in 0..Len(<<>>)
        /\ Stretch(f, <<>>, offered[f])
    BY <1>3, NothingEmitted, FileFacts
  <2>2. /\ offered[f] = offered[f] - Len(Held(f))
        /\ offered[f] = offered[f] + Len(<<>>)
        /\ Len(<<>>) \in Nat /\ ~(0 < Len(<<>>))
        /\ offered'[f] \in Nat /\ offered[f] <= offered'[f]
    BY <1>1, <1>3, <1>4, <2>1
  <2>3. Len(Held(f)') = offered'[f] - offered[f] /\ Stretch(f, Held(f)', offered[f])
    BY <1>1, <1>3, <1>4, <1>6
  <2>4. disk'[f] = disk[f] \o SubSeq(<<>>, 1, 0) /\ damaged \subseteq damaged'
    BY <1>7, <2>1
  <2>5. EmitStep(f, <<>>, 0, offered[f], offered[f])
    BY <1>1, <2>1, <2>2, <2>3, <2>4 DEF EmitStep
  <2> QED BY <1>1, <2>5, FileEmits
<1>9. TypeOK'
  BY <1>1, <1>2, <1>3, <1>6, <1>7 DEF Stretch, IInv, TypeOK
<1>10. DescriptorsOK'
  BY <1>0, <1>1, <1>2 DEF IInv, DescriptorsOK
<1>11. ASSUME NEW g \in File
       PROVE  DiskOK(g)' /\ Counted(g)' /\ (running' => HeldOK(g)')
  BY <1>7, <1>8
<1> QED BY <1>9, <1>10, <1>11 DEF IInv

\* and the last flush before a file is closed.
LEMMA CloseNext ==
  ASSUME IInv, NEW fd \in Fd, NEW k \in 0..OUTBUFSZ, BufferingClose(fd, k)
  PROVE  IInv'
<1>0. PICK f \in File : f = fileOf[fd]
  BY HeldByDescriptor DEF BufferingClose
<1>1. /\ running /\ running' /\ UNCHANGED <<offered, running>> /\ f # NoFile
      /\ fileOf' = [fileOf EXCEPT ![fd] = NoFile]
      /\ phase' = [phase EXCEPT ![f] = "closed"]
      /\ fd # NoFd
  BY <1>0, BufferingAssumption DEF BufferingClose
<1>2. /\ \A a \in Fd : fileOf'[a] = IF a = fd THEN NoFile ELSE fileOf[a]
      /\ \A g \in File : phase'[g] = IF g = f THEN "closed" ELSE phase[g]
      /\ fileOf' \in [Fd -> File \cup {NoFile}]
      /\ phase' \in [File -> {"fresh", "open", "closed"}]
  BY <1>1 DEF IInv, TypeOK
<1>3. \A a \in Fd : a # fd /\ fileOf[a] # NoFile => fileOf[a] # f /\ fileOf[a] \in File
  BY <1>0, <1>1 DEF IInv, TypeOK, DescriptorsOK
<1>4. /\ \A g \in File : DiskOK(g)' /\ Counted(g)' /\ HeldOK(g)'
      /\ disk' \in [File -> Seq(Byte)]
      /\ damaged \subseteq damaged' /\ damaged' \subseteq File
      /\ bw_fd' \in Fd \cup {NoFd} /\ bw_outbuf' \in Seq(Byte) /\ Len(bw_outbuf') <= OUTBUFSZ
      /\ bw_outbuf' # <<>> => bw_fd' # NoFd /\ fileOf'[bw_fd'] # NoFile
  <2>1. CASE bw_fd = fd /\ bw_outbuf # <<>>
    <3>1. Emit(f, bw_outbuf, k) /\ bw_fd' = NoFd /\ bw_outbuf' = <<>>
      BY <1>0, <2>1 DEF BufferingClose
    <3>2. \A g \in File : Held(g)' = <<>>
      BY <3>1 DEF Held
    <3>3. /\ DiskOK(f)' /\ Counted(f)' /\ HeldOK(f)'
          /\ disk' \in [File -> Seq(Byte)]
          /\ damaged \subseteq damaged' /\ damaged' \subseteq File
          /\ \A g \in File \ {f} : disk'[g] = disk[g]
      BY <1>0, <1>1, <2>1, <3>1, <3>2, HeldFlushed
    <3>4. ASSUME NEW g \in File, g # f
          PROVE  DiskOK(g)' /\ Counted(g)' /\ HeldOK(g)'
      <4>1. Held(g)' = Held(g)
        BY <1>0, <2>1, <3>2, <3>4 DEF Held
      <4>2. disk'[g] = disk[g] /\ offered'[g] = offered[g]
        BY <1>1, <3>3, <3>4
      <4> QED BY <1>1, <3>3, <4>1, <4>2, FileUntouched
    <3>5. bw_outbuf' \in Seq(Byte) /\ Len(bw_outbuf') <= OUTBUFSZ
      BY <3>1, EmptySeq, BufferingAssumption
    <3> QED BY <3>1, <3>3, <3>4, <3>5
  <2>2. CASE ~(bw_fd = fd /\ bw_outbuf # <<>>)
    <3>1. UNCHANGED <<disk, damaged, bw_fd, bw_outbuf>>
      BY <2>2 DEF BufferingClose
    <3>2. ASSUME NEW g \in File
          PROVE  Held(g)' = Held(g)
      <4>1. bw_outbuf = <<>> \/ (bw_fd # fd /\ bw_fd \in Fd)
        BY <2>2 DEF IInv, TypeOK, DescriptorsOK
      <4> QED BY <1>2, <3>1, <4>1 DEF Held
    <3>3. ASSUME NEW g \in File
          PROVE  DiskOK(g)' /\ Counted(g)' /\ HeldOK(g)'
      BY <1>1, <3>1, <3>2, FileUntouched
    <3>4. bw_outbuf' # <<>> => bw_fd' # NoFd /\ fileOf'[bw_fd'] # NoFile
      BY <1>2, <2>2, <3>1 DEF IInv, TypeOK, DescriptorsOK
    <3> QED BY <3>1, <3>3, <3>4 DEF IInv, TypeOK
  <2> QED BY <2>1, <2>2
<1>5. TypeOK'
  BY <1>1, <1>2, <1>4 DEF IInv, TypeOK
<1>6. DescriptorsOK'
  <2>1. \A a \in Fd : fileOf'[a] # NoFile => phase'[fileOf'[a]] = "open"
    BY <1>2, <1>3 DEF IInv, DescriptorsOK
  <2>2. \A a, b \in Fd : fileOf'[a] = fileOf'[b] /\ fileOf'[a] # NoFile => a = b
    BY <1>2 DEF IInv, DescriptorsOK
  <2> QED BY <1>4, <2>1, <2>2 DEF DescriptorsOK
<1> QED BY <1>4, <1>5, <1>6 DEF IInv

\* The invariant is inductive.
LEMMA InvNext == IInv /\ [Next]_vars => IInv'
<1> SUFFICES ASSUME IInv, [Next]_vars PROVE IInv'
  OBVIOUS
<1>1. CASE UNCHANGED vars
  BY <1>1 DEF vars, IInv, TypeOK, DescriptorsOK, DiskOK, Counted, HeldOK, Held
<1>2. CASE Next
  <2>1. PICK fd \in Fd :
          \/ \E f \in File : Open(fd, f)
          \/ \E num \in 1..MaxNum : \/ \E k \in 0..num : WriteHeader(fd, num, k)
                                     \/ BufferingWrite(fd, num)
          \/ \E k \in 0..OUTBUFSZ : BufferingClose(fd, k)
    BY <1>2 DEF Next
  <2>2. CASE \E f \in File : Open(fd, f)
    BY <2>2, OpenNext
  <2>3. ASSUME NEW num \in 1..MaxNum, NEW k \in 0..num, WriteHeader(fd, num, k)
        PROVE  IInv'
    BY <2>3, HeaderNext
  <2>4. ASSUME NEW num \in 1..MaxNum, BufferingWrite(fd, num)
        PROVE  IInv'
    BY <2>4, FitsNext, SpillsNext, SwitchesNext DEF BufferingWrite
  <2>5. CASE \E k \in 0..OUTBUFSZ : BufferingClose(fd, k)
    BY <2>5, CloseNext
  <2> QED BY <2>1, <2>2, <2>3, <2>4, <2>5
<1> QED BY <1>1, <1>2

(* The bytes of a file are where the invariant says in every reachable     *)
(* state, whatever write() fails and however descriptors are reused.       *)
THEOREM Invariance == Spec => []IInv
<1>1. Init => IInv
  BY InvInit
<1>2. IInv /\ [Next]_vars => IInv'
  BY InvNext
<1> QED BY <1>1, <1>2, PTL DEF Spec

(* The buffer never holds more than OUTBUFSZ bytes, so that the memcpy of  *)
(* buffering_write stays inside bw_outbuf.                                 *)
THEOREM TypesHold == Spec => []TypeOK
<1>1. IInv => TypeOK
  BY DEF IInv
<1> QED BY <1>1, Invariance, PTL

(* No file ever holds a byte of another file, a byte twice or two bytes    *)
(* out of order.                                                           *)
THEOREM FilesInOrder == Spec => []DiskInOrder
<1>1. IInv => DiskInOrder
  BY DEF IInv, DiskOK, InOrder, DiskInOrder
<1> QED BY <1>1, Invariance, PTL

(* A closed file has nothing in the buffer.                                *)
LEMMA ClosedHoldsNothing ==
  ASSUME IInv, NEW f \in File, phase[f] = "closed"
  PROVE  Held(f) = <<>>
BY BufferingAssumption DEF IInv, TypeOK, DescriptorsOK, Held

(* A file without a reported error has lost nothing, and is complete once  *)
(* it is closed.                                                           *)
THEOREM FilesComplete == Spec => []NothingLost
<1>1. ASSUME IInv PROVE NothingLost
  <2>1. ASSUME NEW f \in File, f \notin damaged
        PROVE  /\ Len(disk[f]) + Len(Held(f)) = offered[f]
               /\ phase[f] = "closed" => Len(disk[f]) = offered[f]
    <3>1. Len(disk[f]) + Len(Held(f)) = offered[f] /\ Len(disk[f]) \in Nat
      BY <1>1, <2>1, FileFacts DEF IInv, Counted
    <3>2. phase[f] = "closed" => Len(Held(f)) = 0
      BY <1>1, ClosedHoldsNothing, EmptySeq
    <3> QED BY <3>1, <3>2
  <2> QED BY <2>1 DEF NothingLost
<1> QED BY <1>1, Invariance, PTL

-----------------------------------------------------------------------------
(* The buffered files implement the unbuffered ones.                       *)

Grows(S) ==
  /\ \A f \in File : Len(disk[f]) <= Len(disk'[f]) /\ offered[f] <= offered'[f]
  /\ \A f \in File \ S : disk'[f] = disk[f] /\ offered'[f] = offered[f]
  /\ \A f \in S : phase[f] = "open"
  /\ damaged \subseteq damaged'

(* Writing bytes out touches one file and adds to it.                      *)
LEMMA EmitGrows ==
  ASSUME IInv, NEW f \in File, NEW bytes \in Seq(Byte), NEW k, Emit(f, bytes, k)
  PROVE  /\ Len(disk[f]) <= Len(disk'[f])
         /\ \A g \in File \ {f} : disk'[g] = disk[g]
         /\ damaged \subseteq damaged'
<1>1. disk[f] \in Seq(Byte) /\ Len(disk[f]) \in Nat
  BY FileFacts
<1>2. /\ k \in 0..Len(bytes) /\ Len(bytes) \in Nat
      /\ disk'[f] = disk[f] \o SubSeq(bytes, 1, k)
      /\ \A g \in File \ {f} : disk'[g] = disk[g]
      /\ damaged \subseteq damaged'
  BY LenProperties DEF Emit, IInv, TypeOK
<1>3. SubSeq(bytes, 1, k) \in Seq(Byte)
  <2>1. \A i \in 1..k : bytes[i] \in Byte
    BY <1>2, ElementOfSeq
  <2> QED BY <1>2, <2>1, SubSeqProperties
<1>4. /\ Len(disk'[f]) = Len(disk[f]) + Len(SubSeq(bytes, 1, k))
      /\ Len(SubSeq(bytes, 1, k)) \in Nat
  BY <1>1, <1>2, <1>3, ConcatProperties, LenProperties
<1>5. ASSUME NEW a \in Nat, NEW b \in Nat, NEW c, c = a + b PROVE a <= c
  BY <1>5
<1>6. Len(disk[f]) <= Len(disk'[f])
  BY <1>1, <1>4, <1>5, Zenon
<1> QED BY <1>2, <1>6, Zenon

(* A step of which only open files notice anything is a transfer.          *)
LEMMA GrowsTransfers ==
  ASSUME IInv, IInv', NEW S \in SUBSET File, Grows(S)
  PROVE  Stream!Transfer
<1>1. ASSUME NEW f \in File
      PROVE  /\ Len(disk[f]) <= Len(disk'[f])
             /\ Len(disk'[f]) <= offered'[f]
             /\ offered[f] <= offered'[f]
             /\ (Len(disk[f]) # Len(disk'[f]) \/ offered[f] # offered'[f]) => phase[f] = "open"
  BY DEF Grows, IInv, DiskOK
<1> QED BY <1>1 DEF Grows, Stream!Transfer

\* Every step of the buffer is a step of the unbuffered stream, or none.
LEMMA NextRefines ==
  ASSUME IInv, IInv', Next
  PROVE  Stream!Next
<1>1. ASSUME NEW fd \in Fd, NEW f \in File, Open(fd, f)
      PROVE  Stream!Next
  <2>1. Stream!Open(f)
    BY <1>1 DEF Open, Stream!Open
  <2> QED BY <2>1 DEF Stream!Next
<1>2. ASSUME NEW fd \in Fd, NEW num \in 1..MaxNum, NEW k \in 0..num, WriteHeader(fd, num, k)
      PROVE  Stream!Next
  <2>1. PICK f \in File : f = fileOf[fd]
    BY <1>2, HeldByDescriptor DEF WriteHeader, Writable
  <2>2. Emit(f, NextBytes(f, num), k) /\ NextBytes(f, num) \in Seq(Byte) /\ num \in Nat
    BY <1>2, <2>1, StretchNew, FileFacts, BufferingAssumption DEF WriteHeader, Stretch
  <2>3. Grows({f})
    <3>1. offered' = [offered EXCEPT ![f] = @ + num] /\ phase[f] = "open"
      BY <1>2, <2>1 DEF WriteHeader, Writable, IInv, DescriptorsOK
    <3> QED BY <2>2, <3>1, EmitGrows DEF Grows, IInv, TypeOK
  <2> QED BY <1>2, <2>3, GrowsTransfers DEF Stream!Next, Stream!Write, WriteHeader
<1>3. ASSUME NEW fd \in Fd, NEW num \in 1..MaxNum, WriteFits(fd, num)
      PROVE  Stream!Next
  <2>1. PICK f \in File : f = fileOf[fd]
    BY <1>3, HeldByDescriptor DEF WriteFits, Writable
  <2>2. Grows({f})
    <3>1. /\ offered' = [offered EXCEPT ![f] = @ + num] /\ phase[f] = "open"
          /\ num \in Nat /\ UNCHANGED <<disk, damaged>>
      BY <1>3, <2>1, BufferingAssumption DEF WriteFits, Writable, IInv, DescriptorsOK
    <3> QED BY <3>1, FileFacts DEF Grows, IInv, TypeOK
  <2> QED BY <1>3, <2>2, GrowsTransfers DEF Stream!Next, Stream!Write, WriteFits
<1>4. ASSUME NEW fd \in Fd, NEW num \in 1..MaxNum, NEW k \in 0..OUTBUFSZ, WriteSpills(fd, num, k)
      PROVE  Stream!Next
  <2>1. PICK f \in File : f = fileOf[fd]
    BY <1>4, HeldByDescriptor DEF WriteSpills, Writable
  <2> DEFINE bytes == bw_outbuf \o SubSeq(NextBytes(f, num), 1, OUTBUFSZ - Len(bw_outbuf))
  <2>2. Emit(f, bytes, k)
    BY <1>4, <2>1 DEF WriteSpills
  <2>3. bytes \in Seq(Byte)
    <3>1. /\ Stretch(f, NextBytes(f, num), offered[f])
          /\ Len(NextBytes(f, num)) = num /\ num \in Nat /\ offered[f] \in Nat
      BY StretchNew, FileFacts, BufferingAssumption
    <3>2. bw_outbuf \in Seq(Byte) /\ OUTBUFSZ - Len(bw_outbuf) \in 0..num
      BY <1>4, <3>1, LenProperties, BufferingAssumption DEF IInv, TypeOK, WriteSpills
    <3>3. SubSeq(NextBytes(f, num), 1, OUTBUFSZ - Len(bw_outbuf)) \in Seq(Byte)
      BY <3>1, <3>2, StretchPrefix DEF Stretch
    <3> QED BY <3>2, <3>3, ConcatProperties
  <2> HIDE DEF bytes
  <2>4. Grows({f})
    <3>1. /\ offered' = [offered EXCEPT ![f] = @ + num] /\ phase[f] = "open"
          /\ num \in Nat
      BY <1>4, <2>1, BufferingAssumption DEF WriteSpills, Writable, IInv, DescriptorsOK
    <3> QED BY <2>2, <2>3, <3>1, EmitGrows DEF Grows, IInv, TypeOK
  <2> QED BY <1>4, <2>4, GrowsTransfers DEF Stream!Next, Stream!Write, WriteSpills
(* The file written to is not the one whose bytes go to disk.              *)
<1>5. ASSUME NEW fd \in Fd, NEW num \in 1..MaxNum, NEW k \in 0..OUTBUFSZ, WriteSwitches(fd, num, k)
      PROVE  Stream!Next
  <2>1. PICK f \in File : f = fileOf[fd]
    BY <1>5, HeldByDescriptor DEF WriteSwitches, Writable
  <2>2. /\ offered' = [offered EXCEPT ![f] = @ + num] /\ phase[f] = "open"
        /\ num \in Nat /\ UNCHANGED <<fileOf, phase>>
    BY <1>5, <2>1, BufferingAssumption DEF WriteSwitches, Writable, IInv, DescriptorsOK
  <2>3. PICK S \in SUBSET File : Grows(S)
    <3>1. CASE bw_fd # NoFd /\ bw_outbuf # <<>>
      <4>1. bw_fd \in Fd /\ fileOf[bw_fd] # NoFile
        BY <3>1 DEF IInv, TypeOK, DescriptorsOK
      <4>2. PICK h \in File : h = fileOf[bw_fd]
        BY <4>1, HeldByDescriptor
      <4>3. Emit(h, bw_outbuf, k) /\ phase[h] = "open" /\ bw_outbuf \in Seq(Byte)
        BY <1>5, <3>1, <4>1, <4>2 DEF WriteSwitches, IInv, TypeOK, DescriptorsOK
      <4>4. /\ Len(disk[h]) <= Len(disk'[h])
            /\ \A g \in File \ {h} : disk'[g] = disk[g]
            /\ damaged \subseteq damaged'
        BY <4>3, EmitGrows
      <4>5. /\ \A g \in File : offered[g] <= offered'[g]
            /\ \A g \in File \ {f} : offered'[g] = offered[g]
        BY <2>2 DEF IInv, TypeOK
      <4>6. \A g \in File : Len(disk[g]) <= Len(disk[g])
        BY FileFacts
      <4>7. \A g \in File : Len(disk[g]) <= Len(disk'[g])
        BY <4>4, <4>6, Zenon
      <4>8. Grows({f, h})
        <5>1. \A g \in File \ {f, h} : disk'[g] = disk[g] /\ offered'[g] = offered[g]
          BY <4>4, <4>5
        <5>2. \A g \in {f, h} : phase[g] = "open"
          BY <2>2, <4>3
        <5> QED BY <4>4, <4>5, <4>7, <5>1, <5>2, Zenon DEF Grows
      <4> QED BY <4>8
    <3>2. CASE ~(bw_fd # NoFd /\ bw_outbuf # <<>>)
      <4>1. UNCHANGED <<disk, damaged>>
        BY <1>5, <3>2 DEF WriteSwitches
      <4>2. Grows({f})
        BY <2>2, <4>1, FileFacts DEF Grows, IInv, TypeOK
      <4> QED BY <4>2
    <3> QED BY <3>1, <3>2
  <2> QED BY <2>2, <2>3, GrowsTransfers DEF Stream!Next, Stream!Write
<1>6. ASSUME NEW fd \in Fd, NEW k \in 0..OUTBUFSZ, BufferingClose(fd, k)
      PROVE  Stream!Next
  <2>1. PICK f \in File : f = fileOf[fd]
    BY <1>6, HeldByDescriptor DEF BufferingClose
  <2>2. /\ UNCHANGED offered /\ phase[f] = "open"
        /\ phase' = [phase EXCEPT ![f] = "closed"]
    BY <1>6, <2>1 DEF BufferingClose, IInv, DescriptorsOK
  <2>3. Grows({f})
    <3>1. CASE bw_fd = fd /\ bw_outbuf # <<>>
      <4>1. Emit(f, bw_outbuf, k) /\ bw_outbuf \in Seq(Byte)
        BY <1>6, <2>1, <3>1 DEF BufferingClose, IInv, TypeOK
      <4>2. /\ Len(disk[f]) <= Len(disk'[f])
            /\ \A g \in File \ {f} : disk'[g] = disk[g]
            /\ damaged \subseteq damaged'
        BY <4>1, EmitGrows
      <4>3. \A g \in File : Len(disk[g]) <= Len(disk[g]) /\ offered[g] <= offered[g]
        BY FileFacts
      <4>4. \A g \in File : Len(disk[g]) <= Len(disk'[g])
        BY <4>2, <4>3, Zenon
      <4> QED BY <2>2, <4>2, <4>3, <4>4, Zenon DEF Grows
    <3>2. CASE ~(bw_fd = fd /\ bw_outbuf # <<>>)
      <4>1. UNCHANGED <<disk, damaged>>
        BY <1>6, <3>2 DEF BufferingClose
      <4> QED BY <2>2, <4>1, FileFacts DEF Grows
    <3> QED BY <3>1, <3>2
  <2>4. f \in damaged' \/ Len(disk'[f]) = offered[f]
    <3>1. phase'[f] = "closed"
      BY <2>2 DEF IInv, TypeOK
    <3>2. Held(f)' = <<>>
      BY <3>1, BufferingAssumption DEF IInv, TypeOK, DescriptorsOK, Held
    <3>3. f \notin damaged' => Len(disk'[f]) + 0 = offered[f]
      BY <2>2, <3>2, EmptySeq DEF IInv, Counted
    <3>4. Len(disk'[f]) \in Nat
      BY LenProperties DEF IInv, TypeOK
    <3> QED BY <3>3, <3>4
  <2>5. Stream!Close(f)
    BY <2>2, <2>3, <2>4, GrowsTransfers DEF Stream!Close
  <2> QED BY <2>5 DEF Stream!Next
<1> QED BY <1>1, <1>2, <1>3, <1>4, <1>5, <1>6 DEF Next, BufferingWrite

(* The output files behave as files that are written without a buffer, but *)
(* for the time at which their bytes reach the disk.                       *)
THEOREM Refinement == Spec => StreamSpec
<1>1. Init => Stream!Init
  BY EmptySeq DEF Init, Stream!Init
<1>2. IInv /\ IInv' /\ [Next]_vars => [Stream!Next]_Stream!vars
  <2> SUFFICES ASSUME IInv, IInv', [Next]_vars PROVE [Stream!Next]_Stream!vars
    OBVIOUS
  <2>1. CASE Next
    BY <2>1, NextRefines
  <2>2. CASE UNCHANGED vars
    BY <2>2 DEF vars, Stream!vars
  <2> QED BY <2>1, <2>2
<1> QED BY <1>1, <1>2, Invariance, PTL DEF Spec, StreamSpec, Stream!Spec

=============================================================================
