--------------------------- MODULE BufferingWrite ---------------------------
(***************************************************************************)
(* buffering_write.c: one static buffer in front of the output file        *)
(* descriptors, with blocking_write (main.c) below it.  A byte is the pair *)
(* of the file it was meant for and its position in that file's stream, so *)
(* that a byte lost, repeated, reordered or put in another file shows.     *)
(***************************************************************************)
EXTENDS Integers, Sequences

CONSTANTS
  Fd,        (* descriptor numbers; the kernel reuses them                 *)
  NoFd,      (* bw_fd = -1                                                 *)
  File,      (* one element per open() of an output file                   *)
  NoFile,    (* what a closed descriptor refers to                         *)
  OUTBUFSZ,  (* capacity of bw_outbuf                                      *)
  MaxNum,    (* longest single buffering_write; CD_FRAMESIZE_RAW in main.c *)
  MaxBytes   (* bound of the model: bytes offered to one file              *)

ASSUME BufferingAssumption ==
  /\ NoFd \notin Fd
  /\ NoFile \notin File
  /\ OUTBUFSZ \in Nat \ {0}
  /\ MaxNum \in 1..OUTBUFSZ
  /\ MaxBytes \in Nat

VARIABLES
  bw_fd,     \* the descriptor the buffer belongs to
  bw_outbuf, \* the bytes bw_outbuf[0..bw_pos), so bw_pos is its length
  fileOf,    \* the kernel's table: descriptor -> file
  disk,      \* contents of each file
  phase,     \* "fresh", "open" or "closed", per file
  offered,   \* bytes passed to buffering_write, per file
  damaged,   \* files with a reported write error
  running    \* FALSE once a failed buffering_write made the caller exit

vars == <<bw_fd, bw_outbuf, fileOf, disk, phase, offered, damaged, running>>

Byte == File \X Nat

Init ==
  /\ bw_fd = NoFd
  /\ bw_outbuf = <<>>
  /\ fileOf = [fd \in Fd |-> NoFile]
  /\ disk = [f \in File |-> <<>>]
  /\ phase = [f \in File |-> "fresh"]
  /\ offered = [f \in File |-> 0]
  /\ damaged = {}
  /\ running = TRUE

NextBytes(f, num) == [i \in 1..num |-> <<f, offered[f] + i>>]

(* blocking_write: write() is repeated until everything is out; an error   *)
(* other than EINTR or EAGAIN stops it after a proper prefix of length k.  *)
Emit(f, bytes, k) ==
  /\ k \in 0..Len(bytes)
  /\ disk' = [disk EXCEPT ![f] = @ \o SubSeq(bytes, 1, k)]
  /\ damaged' = IF k < Len(bytes) THEN damaged \cup {f} ELSE damaged

Open(fd, f) ==
  /\ running
  /\ fileOf[fd] = NoFile
  /\ phase[f] = "fresh"
  /\ fileOf' = [fileOf EXCEPT ![fd] = f]
  /\ phase' = [phase EXCEPT ![f] = "open"]
  /\ UNCHANGED <<bw_fd, bw_outbuf, disk, offered, damaged, running>>

Writable(fd, num) ==
  /\ running
  /\ fileOf[fd] # NoFile
  /\ offered[fileOf[fd]] + num <= MaxBytes

(* WriteWav and its kin write to the descriptor itself, before main() has  *)
(* buffered anything for the file; a failed write of theirs is an exit.    *)
WriteHeader(fd, num, k) ==
  LET f == fileOf[fd] IN
  /\ Writable(fd, num)
  /\ offered[f] = 0
  /\ Emit(f, NextBytes(f, num), k)
  /\ offered' = [offered EXCEPT ![f] = @ + num]
  /\ running' = (k = num)
  /\ UNCHANGED <<bw_fd, bw_outbuf, fileOf, phase>>

(* Seeded fault: the capacity is checked one byte too late.                *)
WriteFits_OneTooMany(fd, num) ==
  LET f == fileOf[fd] IN
  /\ Writable(fd, num)
  /\ bw_fd = fd
  /\ Len(bw_outbuf) + num <= OUTBUFSZ + 1
  /\ bw_outbuf' = bw_outbuf \o NextBytes(f, num)
  /\ offered' = [offered EXCEPT ![f] = @ + num]
  /\ UNCHANGED <<bw_fd, fileOf, disk, phase, damaged, running>>

(* The bytes fit behind those already held for this descriptor.            *)
WriteFits(fd, num) ==
  LET f == fileOf[fd] IN
  /\ Writable(fd, num)
  /\ bw_fd = fd
  /\ Len(bw_outbuf) + num <= OUTBUFSZ
  /\ bw_outbuf' = bw_outbuf \o NextBytes(f, num)
  /\ offered' = [offered EXCEPT ![f] = @ + num]
  /\ UNCHANGED <<bw_fd, fileOf, disk, phase, damaged, running>>

(* Seeded fault: what does not fit in the full buffer is forgotten.        *)
WriteSpills_DropsRest(fd, num, k) ==
  LET f    == fileOf[fd]
      room == OUTBUFSZ - Len(bw_outbuf) IN
  /\ Writable(fd, num)
  /\ bw_fd = fd
  /\ Len(bw_outbuf) + num > OUTBUFSZ
  /\ Emit(f, bw_outbuf \o SubSeq(NextBytes(f, num), 1, room), k)
  /\ offered' = [offered EXCEPT ![f] = @ + num]
  /\ bw_outbuf' = IF k = OUTBUFSZ THEN <<>> ELSE bw_outbuf
  /\ running' = (k = OUTBUFSZ)
  /\ UNCHANGED <<bw_fd, fileOf, phase>>

(* They do not fit: top the buffer up, write all of it, keep the rest.  On *)
(* an error the call fails with bw_pos as it was and main() exits.         *)
WriteSpills(fd, num, k) ==
  LET f    == fileOf[fd]
      room == OUTBUFSZ - Len(bw_outbuf)
      new  == NextBytes(f, num) IN
  /\ Writable(fd, num)
  /\ bw_fd = fd
  /\ Len(bw_outbuf) + num > OUTBUFSZ
  /\ Emit(f, bw_outbuf \o SubSeq(new, 1, room), k)
  /\ offered' = [offered EXCEPT ![f] = @ + num]
  /\ IF k = OUTBUFSZ
       THEN /\ bw_outbuf' = SubSeq(new, room + 1, num)
            /\ UNCHANGED running
       ELSE /\ running' = FALSE
            /\ UNCHANGED bw_outbuf
  /\ UNCHANGED <<bw_fd, fileOf, phase>>

(* Seeded fault: the bytes held for the old descriptor are not written.    *)
WriteSwitches_NoFlush(fd, num, k) ==
  /\ Writable(fd, num)
  /\ bw_fd # fd
  /\ k = 0
  /\ bw_fd' = fd
  /\ bw_outbuf' = NextBytes(fileOf[fd], num)
  /\ offered' = [offered EXCEPT ![fileOf[fd]] = @ + num]
  /\ UNCHANGED <<disk, damaged, fileOf, phase, running>>

(* Another descriptor: write out what is held for the old one (an error is *)
(* reported and forgotten) and take the buffer over.                       *)
WriteSwitches(fd, num, k) ==
  LET f == fileOf[fd] IN
  /\ Writable(fd, num)
  /\ bw_fd # fd
  /\ IF bw_fd # NoFd /\ bw_outbuf # <<>>
       THEN Emit(fileOf[bw_fd], bw_outbuf, k)
       ELSE k = 0 /\ UNCHANGED <<disk, damaged>>
  /\ bw_fd' = fd
  /\ bw_outbuf' = NextBytes(f, num)
  /\ offered' = [offered EXCEPT ![f] = @ + num]
  /\ UNCHANGED <<fileOf, phase, running>>

(* Seeded fault: the buffer is written out but not emptied.                *)
BufferingClose_KeepsBuffer(fd, k) ==
  LET f == fileOf[fd] IN
  /\ running
  /\ f # NoFile
  /\ IF bw_fd = fd /\ bw_outbuf # <<>>
       THEN Emit(f, bw_outbuf, k)
       ELSE k = 0 /\ UNCHANGED <<disk, damaged>>
  /\ fileOf' = [fileOf EXCEPT ![fd] = NoFile]
  /\ phase' = [phase EXCEPT ![f] = "closed"]
  /\ UNCHANGED <<bw_fd, bw_outbuf, offered, running>>

(* buffering_close: write out what is held for this descriptor, close it.  *)
(* With nothing held bw_fd is left naming a closed descriptor.             *)
BufferingClose(fd, k) ==
  LET f == fileOf[fd] IN
  /\ running
  /\ f # NoFile
  /\ IF bw_fd = fd /\ bw_outbuf # <<>>
       THEN /\ Emit(f, bw_outbuf, k)
            /\ bw_fd' = NoFd
            /\ bw_outbuf' = <<>>
       ELSE k = 0 /\ UNCHANGED <<disk, damaged, bw_fd, bw_outbuf>>
  /\ fileOf' = [fileOf EXCEPT ![fd] = NoFile]
  /\ phase' = [phase EXCEPT ![f] = "closed"]
  /\ UNCHANGED <<offered, running>>

BufferingWrite(fd, num) ==
  \/ WriteFits(fd, num)
  \/ \E k \in 0..OUTBUFSZ : WriteSpills(fd, num, k) \/ WriteSwitches(fd, num, k)

Next ==
  \E fd \in Fd :
    \/ \E f \in File : Open(fd, f)
    \/ \E num \in 1..MaxNum : \/ \E k \in 0..num : WriteHeader(fd, num, k)
                               \/ BufferingWrite(fd, num)
    \/ \E k \in 0..OUTBUFSZ : BufferingClose(fd, k)

Spec == Init /\ [][Next]_vars

-----------------------------------------------------------------------------
TypeOK ==
  /\ bw_fd \in Fd \cup {NoFd}
  /\ bw_outbuf \in Seq(Byte) /\ Len(bw_outbuf) <= OUTBUFSZ
  /\ fileOf \in [Fd -> File \cup {NoFile}]
  /\ disk \in [File -> Seq(Byte)]
  /\ phase \in [File -> {"fresh", "open", "closed"}]
  /\ offered \in [File -> Nat]
  /\ damaged \subseteq File
  /\ running \in BOOLEAN

(* The bytes of the buffer that are waiting to go to file f.               *)
Held(f) == IF bw_fd # NoFd /\ fileOf[bw_fd] = f THEN bw_outbuf ELSE <<>>

(* A file only ever holds its own bytes, in the order they were written    *)
(* and none of them twice, whatever fails and however the descriptor       *)
(* numbers are reused: the buffer is static and keyed by number only.      *)
DiskInOrder ==
  \A f \in File : \A i \in 1..Len(disk[f]) :
    /\ disk[f][i][1] = f
    /\ \A j \in 1..(i - 1) : disk[f][j][2] < disk[f][i][2]

(* Unless an error was reported for the file, every byte passed to         *)
(* buffering_write is on disk or in the buffer, and once the file is       *)
(* closed it is on disk.                                                   *)
NothingLost ==
  \A f \in File : f \notin damaged =>
    /\ Len(disk[f]) + Len(Held(f)) = offered[f]
    /\ phase[f] = "closed" => Len(disk[f]) = offered[f]

(* The buffered files behave as files written without a buffer would,      *)
(* except that bytes reach the disk later.                                 *)
Stream == INSTANCE ByteStream WITH stored <- [f \in File |-> Len(disk[f])]
StreamSpec == Stream!Spec

=============================================================================
