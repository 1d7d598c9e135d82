----------------------------- MODULE Transport -----------------------------
(***************************************************************************)
(* One read of the interface library: cdda_read_timed hands it to          *)
(* scsi_read_map, over the sg driver of old (write a command, select, read *)
(* a reply) or the SG_IO ioctl, or to cooked_read.  A command can fail in  *)
(* many ways; the request is made smaller, repeated, and given up.         *)
(***************************************************************************)
EXTENDS Integers, Sequences, FiniteSets

CONSTANTS
  Interfaces,  (* of "sg", "sgio", "cooked": d->interface                  *)
  ErrorRetry,  (* values of d->error_retry: FALSE while a drive is probed  *)
  Nsectors,    (* d->nsectors: the most a command may ask for              *)
  MAX_RETRIES, (* 8 in low_interface.h                                     *)
  Begins,      (* sectors where reads begin                                *)
  MaxAsked,    (* longest read                                             *)
  Lengths,     (* lengths of reads                                         *)
  MaxQueued,   (* commands the sg driver takes at a time                   *)
  MaxSignals,  (* bound of the model: commands interrupted, in one read    *)
  MaxUnready   (* bound of the model: "becoming ready" replies, in one     *)

ASSUME TransportAssumption ==
  /\ Interfaces \subseteq {"sg", "sgio", "cooked"}
  /\ ErrorRetry \subseteq BOOLEAN
  /\ {Nsectors, MaxAsked, MaxQueued} \subseteq Nat \ {0}
  /\ Lengths \subseteq 1..MaxAsked
  /\ {MAX_RETRIES, MaxSignals, MaxUnready} \subseteq Nat

VARIABLES
  interface, error_retry, \* of the drive
  pc,          \* "idle", "issue", "wait", "over", "reset", "unready"
  begin, asked, \* the read
  buffer,      \* whether its data is wanted (p is not NULL)
  sectors,     \* what the next command asks for, or what is to be returned
  nframes,     \* what cooked_read's ioctl asks for
  retry_count,
  errno,
  outcome,     \* of the last command: "none", "took", "failed", "lost"
  got,         \* this read's last reply: where it begins, whole sectors of data
  ret,         \* the value returned
  queue,       \* the sg driver: commands with the drive and replies unread
  crossed,     \* a command of an earlier read was with the drive at the call
  tries, signals, unready  \* of this read: commands tried, but for repeats
                           \* after an old signal, new signals, and such

drive == <<interface, error_retry>>
call  == <<begin, asked, buffer, nframes, crossed>>
count == <<tries, signals, unready>>
vars  == <<drive, call, count, pc, sectors, retry_count, errno, outcome, got,
           ret, queue>>

Init ==
  /\ interface \in Interfaces /\ error_retry \in ErrorRetry
  /\ pc = "idle"
  /\ begin \in Begins /\ asked = 1 /\ buffer = TRUE /\ nframes = 1
  /\ sectors = 1 /\ retry_count = 0
  /\ errno = "0" /\ outcome = "none"
  /\ got = [begin |-> begin, n |-> 0] /\ ret = 0
  /\ queue = <<>> /\ crossed = FALSE
  /\ tries = 0 /\ signals = 0 /\ unready = 0

(* cdda_read_timed, and the first lines of the transports' read functions. *)
(* Nothing clears errno, which any call since the last read may have left  *)
(* at EINTR.                                                               *)
Call(b, n, wanted) ==
  /\ pc = "idle"
  /\ pc' = "issue"
  /\ begin' = b /\ asked' = n /\ buffer' = wanted
  /\ sectors' = IF n > Nsectors THEN Nsectors ELSE n
  /\ nframes' = sectors'
  /\ retry_count' = 0
  /\ outcome' = "none" /\ got' = [begin |-> b, n |-> 0] /\ ret' = 0
  /\ crossed' = (\E i \in DOMAIN queue : ~queue[i].done)
  /\ tries' = 0 /\ signals' = 0 /\ unready' = 0
  /\ errno' \in {errno, "EINTR"}
  /\ UNCHANGED <<drive, queue>>

Return(value) == pc' = "idle" /\ ret' = value
Again == pc' = "issue" /\ UNCHANGED ret

(* More commands than these a read never needs; tries stops counting there. *)
TriesBound == MAX_RETRIES + 1 + asked + MaxSignals
Count == tries' = IF tries > TriesBound THEN tries ELSE tries + 1

(* A command fails and leaves code in errno, which need not be this        *)
(* command's doing: check_sbp_error sets nothing for a busy drive, nor     *)
(* does a select that times out.                                           *)
Gone == {"ENOMEDIUM", "ENXIO", "EBADF"}
Failures == {"EINTR", "ENOMEM", "ENOMEDIUM", "EIO", "0"}
Leaves(code) ==
  /\ errno' = code
  /\ outcome' = IF code \in Gone THEN "lost" ELSE "failed"
  /\ pc' = "over"
  /\ UNCHANGED got

(* It set errno itself; an EINTR is a signal of its own.                   *)
Fails(code) ==
  /\ code = "EINTR" => signals < MaxSignals
  /\ signals' = signals + (IF code = "EINTR" THEN 1 ELSE 0)
  /\ Leaves(code)

(* A reply is taken: of the sectors it stands for the first n have data,   *)
(* the rest still is the pattern the buffer was filled with.               *)
Takes(from, n) ==
  /\ got' = [begin |-> from, n |-> n]
  /\ errno' = "0"
  /\ outcome' = "took"
  /\ pc' = "over"
  /\ UNCHANGED signals

-----------------------------------------------------------------------------
(* The sg driver.  sg2_handle_scsi_cmd throws away the replies there are,  *)
(* which are the first of the queue (clear_garbage), and sends its command. *)
(* Seeded fault: it throws nothing away.                                   *)
ClearGarbage_Not == queue
ClearGarbage ==
  SubSeq(queue, 1 + Cardinality({i \in DOMAIN queue : queue[i].done}), Len(queue))
Command(b, n) == [begin |-> b, n |-> n, done |-> FALSE]

SgSend ==
  /\ pc = "issue" /\ interface = "sg"
  /\ Len(ClearGarbage) < MaxQueued
  /\ queue' = Append(ClearGarbage, Command(begin, sectors))
  /\ Count
  /\ errno' = "0"
  /\ pc' = "wait"
  /\ UNCHANGED <<drive, call, sectors, retry_count, outcome, got, ret, signals, unready>>

(* The descriptor does not become writable within a minute, and nothing is *)
(* written.  errno stays what it was, an EINTR of long ago included, or a  *)
(* signal has interrupted this select before it timed out.  The old EINTR  *)
(* is no signal of its own, and nothing in the code counts such a try.     *)
SgSendTimesOut(code) ==
  /\ pc = "issue" /\ interface = "sg"
  /\ queue' = ClearGarbage
  /\ \/ code = errno /\ code = "EINTR" /\ Leaves(code) /\ UNCHANGED <<tries, signals>>
     \/ code = errno /\ code # "EINTR" /\ Leaves(code) /\ Count /\ UNCHANGED signals
     \/ code = "EINTR" /\ Fails(code) /\ Count
  /\ UNCHANGED <<drive, call, sectors, retry_count, ret, unready>>

(* The write fails, or is short, which is EIO.                             *)
SgWriteFails(code) ==
  /\ pc = "issue" /\ interface = "sg"
  /\ code # "0"
  /\ queue' = ClearGarbage
  /\ Count
  /\ Fails(code)
  /\ UNCHANGED <<drive, call, sectors, retry_count, ret, unready>>

(* The drive answers its commands one after another.                       *)
DriveAnswers ==
  \E i \in DOMAIN queue :
    /\ ~queue[i].done
    /\ \A j \in 1..(i - 1) : queue[j].done
    /\ queue' = [queue EXCEPT ![i].done = TRUE]
    /\ UNCHANGED <<drive, call, count, pc, sectors, retry_count, errno, outcome, got, ret>>

(* The oldest reply is read, whichever command it belongs to; only its     *)
(* length is compared with what was asked for.                             *)
SgReply(n, code) ==
  /\ pc = "wait"
  /\ queue # <<>> /\ Head(queue).done
  /\ queue' = IF code = "EINTR" THEN queue ELSE Tail(queue)
  /\ IF code = "none" THEN n <= sectors /\ Head(queue).n = sectors /\ Takes(Head(queue).begin, n)
                      ELSE /\ Head(queue).n # sectors => code \in {"EIO", "EINTR"}
                           /\ n = 0 /\ Fails(code)
  /\ UNCHANGED <<drive, call, sectors, retry_count, ret, tries, unready>>

(* select gives up after a minute, in which signals may have interrupted   *)
(* it; the command stays with the drive.                                   *)
SgTimeout(code) ==
  /\ pc = "wait"
  /\ \A i \in DOMAIN queue : ~queue[i].done
  /\ code \in {"0", "EINTR"}
  /\ Fails(code)
  /\ UNCHANGED <<drive, call, sectors, retry_count, ret, queue, tries, unready>>

(* SG_IO and the cooked ioctl wait for their own reply; what the cooked    *)
(* one delivers is whole.                                                  *)
IoctlCommand(n, code) ==
  /\ pc = "issue" /\ interface # "sg"
  /\ Count
  /\ IF code = "none"
       THEN /\ IF interface = "cooked" THEN n = nframes ELSE n <= sectors
            /\ Takes(begin, n)
       ELSE /\ interface = "sgio" => code \in Failures
            /\ n = 0 /\ Fails(code)
  /\ UNCHANGED <<drive, call, sectors, retry_count, ret, queue, unready>>

-----------------------------------------------------------------------------
(* scsi_read_map's way round its loop once a try is over.  Seeded faults:  *)
(* the limit is forgotten; a single sector is halved too.                  *)
NextTry_NoLimit ==
  /\ retry_count' = IF retry_count > MAX_RETRIES THEN 0 ELSE retry_count + 1
  /\ Again
  /\ sectors' = IF sectors > 1 THEN sectors \div 2 ELSE sectors
NextTry_HalvesOne ==
  /\ retry_count' = retry_count + 1
  /\ IF sectors = 1 /\ retry_count' > MAX_RETRIES
       THEN Return(-7) /\ UNCHANGED sectors
       ELSE Again /\ sectors' = sectors \div 2
NextTry ==
  /\ retry_count' = retry_count + 1
  /\ IF sectors = 1 /\ retry_count' > MAX_RETRIES
       THEN Return(-7) /\ UNCHANGED sectors
       ELSE Again /\ sectors' = IF sectors > 1 THEN sectors \div 2 ELSE sectors

IsScsi == interface # "cooked"
Over(result) == pc = "over" /\ outcome \in result
Asis == UNCHANGED <<sectors, retry_count>>

(* An interrupted command is repeated, one the kernel had no memory for is *)
(* made smaller by a sector; neither counts as a retry.  A missing medium  *)
(* ends the read.                                                          *)
ScsiPlain ==
  /\ IsScsi /\ Over({"failed", "lost"})
  /\ \/ errno = "EINTR" /\ Again /\ Asis
     \/ errno = "ENOMEM" /\ sectors = 1 /\ Return(-300) /\ Asis
     \/ errno = "ENOMEM" /\ sectors > 1 /\ Again /\ sectors' = sectors - 1 /\ UNCHANGED retry_count
     \/ errno = "ENOMEDIUM" /\ Return(-404) /\ Asis
  /\ UNCHANGED <<drive, call, count, errno, outcome, got, queue>>

(* Anything else: a single sector is given up in time, for more than one   *)
(* the bus is reset first.                                                 *)
ScsiFailed ==
  /\ IsScsi /\ Over({"failed", "lost"})
  /\ errno \notin {"EINTR", "ENOMEM", "ENOMEDIUM"}
  /\ \/ sectors > 1 /\ pc' = "reset" /\ Asis /\ UNCHANGED ret
     \/ sectors = 1 /\ retry_count > MAX_RETRIES - 1 /\ Return(-10) /\ Asis
     \/ sectors = 1 /\ retry_count <= MAX_RETRIES - 1 /\ ~error_retry /\ Return(-7) /\ Asis
     \/ sectors = 1 /\ retry_count <= MAX_RETRIES - 1 /\ error_retry /\ NextTry
  /\ UNCHANGED <<drive, call, count, errno, outcome, got, queue>>

(* A reply: what has data is counted, in whole sectors, if there is a      *)
(* buffer to look at; the bus is reset if that is not all.                 *)
ScsiTook ==
  /\ IsScsi /\ Over({"took"})
  /\ IF ~buffer \/ got.n = sectors THEN Return(sectors) ELSE pc' = "reset" /\ UNCHANGED ret
  /\ UNCHANGED <<drive, call, count, sectors, retry_count, errno, outcome, got, queue>>

(* reset_scsi: the reset, whose failure is ignored, ends what the drive    *)
(* was doing.                                                              *)
ScsiReset(ok) ==
  /\ pc = "reset"
  /\ pc' = "unready"
  /\ queue' = IF ok THEN <<>> ELSE queue
  /\ UNCHANGED <<drive, call, count, sectors, retry_count, errno, outcome, got, ret>>

(* TEST UNIT READY goes the same way as a read, and over sg may be answered *)
(* by the reply to an older command, or not in time.                       *)
TestUnitReady ==
  IF interface # "sg" \/ Len(ClearGarbage) = MaxQueued
    THEN queue' = IF interface # "sg" THEN queue ELSE ClearGarbage
    ELSE queue' \in {Tail(Append(ClearGarbage, Command(begin, 0))),
                     Append(ClearGarbage, Command(begin, 0))}

StillUnready ==
  /\ pc = "unready"
  /\ unready < MaxUnready
  /\ unready' = unready + 1
  /\ TestUnitReady
  /\ UNCHANGED <<drive, call, pc, sectors, retry_count, errno, outcome, got, ret, tries, signals>>

(* The drive is ready; errno is TEST UNIT READY's.  The read goes on after *)
(* a failed command or after a short reply.                                *)
BackFromReset(code) ==
  /\ pc = "unready"
  /\ TestUnitReady
  /\ errno' = code
  /\ \/ outcome = "took" /\ got.n > 0 /\ Return(got.n) /\ Asis
     \/ outcome = "took" /\ got.n = 0 /\ NextTry
     \/ outcome # "took" /\ ~error_retry /\ Return(-7) /\ Asis
     \/ outcome # "took" /\ error_retry /\ NextTry
  /\ UNCHANGED <<drive, call, count, outcome, got>>

-----------------------------------------------------------------------------
(* cooked_read.  ENOMEM with more than one sector falls through to the     *)
(* missing medium.  Seeded fault: the other errors that mean so keep errno. *)
CookedGone_KeepsErrno == Return(0) /\ UNCHANGED errno
CookedGone == Return(0) /\ errno' = "ENOMEDIUM"

CookedTook ==
  /\ ~IsScsi /\ Over({"took"})
  /\ Return(sectors) /\ Asis
  /\ UNCHANGED <<drive, call, count, errno, outcome, got, queue>>

CookedPlain ==
  /\ ~IsScsi /\ Over({"failed", "lost"})
  /\ \/ ~error_retry /\ Return(-7) /\ UNCHANGED errno
     \/ error_retry /\ errno = "ENOMEM" /\ sectors = 1 /\ Return(-300) /\ UNCHANGED errno
     \/ error_retry /\ errno = "ENOMEM" /\ sectors > 1 /\ CookedGone
     \/ error_retry /\ errno \in Gone /\ CookedGone
  /\ UNCHANGED <<drive, call, count, sectors, retry_count, outcome, got, queue>>

(* Any other error, a signal too, counts as a retry.  What sectors is made *)
(* of here is only returned: the ioctl asks for nframes all the time.      *)
CookedFailed ==
  /\ ~IsScsi /\ Over({"failed"}) /\ error_retry /\ errno # "ENOMEM"
  /\ IF sectors = 1 /\ retry_count > MAX_RETRIES - 1
       THEN Return(-10) /\ Asis
       ELSE /\ sectors' = IF retry_count > 4 /\ sectors > 1 THEN (sectors * 3) \div 4 ELSE sectors
            /\ retry_count' = retry_count + 1
            /\ IF retry_count' > MAX_RETRIES THEN Return(-7) ELSE Again
  /\ UNCHANGED <<drive, call, count, errno, outcome, got, queue>>

-----------------------------------------------------------------------------
Working ==
  \/ SgSend
  \/ \E code \in Failures : SgSendTimesOut(code) \/ SgWriteFails(code) \/ SgTimeout(code)
  \/ DriveAnswers
  \/ \E n \in 0..MaxAsked, code \in Failures \union {"none"} : SgReply(n, code)
  \/ \E n \in 0..MaxAsked, code \in Failures \union Gone \union {"none"} : IoctlCommand(n, code)
  \/ ScsiPlain \/ ScsiFailed \/ ScsiTook
  \/ \E ok \in BOOLEAN : ScsiReset(ok)
  \/ StillUnready
  \/ \E code \in {"0", "EIO", "EINTR", "ENOMEDIUM"} : BackFromReset(code)
  \/ CookedTook \/ CookedPlain \/ CookedFailed

Next ==
  \/ \E b \in Begins, n \in Lengths, wanted \in BOOLEAN : Call(b, n, wanted)
  \/ Working

Spec == Init /\ [][Next]_vars
(* One thread, whose selects and ioctls have time limits.                  *)
FairSpec == Spec /\ WF_vars(Working)

-----------------------------------------------------------------------------
(* The state is well formed; a command asks for at least a sector after   *)
(* any number of halvings, and the sg driver is never given too many.      *)
TypeOK ==
  /\ interface \in Interfaces /\ error_retry \in BOOLEAN
  /\ pc \in {"idle", "issue", "wait", "over", "reset", "unready"}
  /\ begin \in Begins /\ asked \in 1..MaxAsked /\ buffer \in BOOLEAN /\ crossed \in BOOLEAN
  /\ sectors \in 1..MaxAsked /\ nframes \in 1..MaxAsked /\ retry_count \in Nat
  /\ errno \in Failures \union Gone
  /\ outcome \in {"none", "took", "failed", "lost"}
  /\ got \in [begin : Begins, n : 0..MaxAsked]
  /\ ret \in {-404, -300, -10, -7} \union 0..MaxAsked
  /\ queue \in Seq([begin : Begins, n : 0..MaxAsked, done : BOOLEAN]) /\ Len(queue) <= MaxQueued
  /\ {tries, signals, unready} \subseteq Nat

(* A read that returns a number of sectors with their data has put that    *)
(* many into the buffer, and from where it was told to read: not the late  *)
(* reply to a command that was given up, nor the filling pattern.  Unless  *)
(* a command of an earlier read was still with the sg driver's drive when  *)
(* this one began: its reply, coming later, is told by nothing but length. *)
OwnData ==
  pc = "idle" /\ outcome # "none" /\ ret > 0 /\ buffer /\ ~crossed
    => got.begin = begin /\ ret <= got.n /\ ret <= asked

(* A read gives up after a number of commands that depends on its length   *)
(* and MAX_RETRIES, whatever the mixture of errors: what is not counted as *)
(* a retry makes the request smaller, or is a signal of this read.  The    *)
(* repeats after an old signal are not among them: the code has no bound   *)
(* on those.                                                               *)
TriesBounded == tries - signals <= MAX_RETRIES + 1 + asked

(* When the medium is gone no read of an opened drive returns data, nor an *)
(* errno the readers above do not recognise.                               *)
MediumLossReported ==
  pc = "idle" /\ outcome = "lost" /\ error_retry => ret <= 0 /\ errno = "ENOMEDIUM"

(* The read is repeated because of an EINTR in errno that no command of it *)
(* clears.                                                                 *)
OldSignal == interface = "sg" /\ errno = "EINTR" /\ pc \in {"issue", "over"}

(* Every read returns, whatever the drive does, if signals cease and the   *)
(* drive does not claim to become ready for ever.  The one way it may go   *)
(* on is a sg driver that takes no command any more, after an EINTR that   *)
(* scsi_read_map then finds again and again.                               *)
CallReturns == pc # "idle" ~> (pc = "idle" \/ []OldSignal)
=============================================================================
