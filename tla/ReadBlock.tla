----------------------------- MODULE ReadBlock ------------------------------
(***************************************************************************)
(* i_read_c_block of paranoia.c: one c_block is read as a run of requests  *)
(* of d->nsectors sectors starting at a jittered sector, after the drive's *)
(* cache has been dealt with.  Every sector of the buffer is recorded with *)
(* the sector of the disc it stands for.                                   *)
(***************************************************************************)
EXTENDS CacheModel, Sequences

CONSTANTS
  Nsectors,      (* d->nsectors, sectors per request                       *)
  FirstSector,   (* p->current_firstsector                                 *)
  LastSector,    (* p->current_lastsector                                  *)
  Targets,       (* sectors a block may be wanted for: cursor or root end  *)
                 (* less the overlap                                       *)
  DriftComps,    (* whole sectors of drift compensation                    *)
  Readable,      (* sectors outside the session the drive can still read   *)
  FlakyReads     (* of FALSE and TRUE: whether requests can come back      *)
                 (* short or fail                                          *)

ASSUME ReadBlockAssumption ==
  /\ Nsectors \in Nat \ {0}
  /\ FirstSector \in Nat /\ LastSector \in Nat
  /\ DiscFirst <= FirstSector /\ FirstSector <= LastSector
  /\ Targets \subseteq Int /\ DriftComps \subseteq Int
  /\ Readable \subseteq Int
  /\ FlakyReads \subseteq BOOLEAN

JIGGLE_MODULO == 15

VARIABLES
  flaky,       \* the drive's requests can fail; a trait of the drive
  pc,          \* "idle" between calls, "reading" inside the request loop
  jitter,      \* p->jitter
  window,      \* p->cdcache_begin, p->cdcache_end
  drive,       \* what the drive's cache holds
  oldEnd,      \* cached sectors below this were read for an earlier block
  readat,      \* next sector to request
  buffer,      \* one entry per sector: the disc sector it holds, and
               \* whether the drive delivered it
  lastsector,  \* new->lastsector
  stale,       \* sectors of this block that came out of the drive's cache
  result       \* "none" before the first call, "reading", "block" or "null"

vars == <<flaky, pc, jitter, window, drive, oldEnd, readat, buffer, lastsector,
          stale, result>>

Init ==
  /\ flaky \in FlakyReads
  /\ pc = "idle"
  /\ jitter = 0
  /\ window = InitWindow
  /\ drive = [begin |-> 0, end |-> 0]
  /\ oldEnd = 0
  /\ readat = 0
  /\ buffer = <<>>
  /\ lastsector = FALSE
  /\ stale = {}
  /\ result = "none"

sofar == Len(buffer)

(* Seeded fault: a start above the target is left there.                   *)
JitteredStart_NoWrap(target) == target - 2 * ((target \div 2) % 8) + jitter

(* target & ~14, then the jitter, never above the target.                  *)
JitteredStart(target) ==
  LET aligned == target - 2 * ((target \div 2) % 8) + jitter IN
  IF aligned > target THEN aligned - JIGGLE_MODULO ELSE aligned

NextJitter == IF jitter = 0 THEN JIGGLE_MODULO - 1 ELSE jitter - 1

(* The drive serves sectors at lba; note the ones it takes from its cache. *)
Served(lba, sectors) ==
  /\ drive' = DriveRead(drive, lba, sectors)
  /\ oldEnd' = IF sectors > 0 /\ Flushes(drive, lba) THEN lba ELSE oldEnd
  /\ stale' = stale \cup
       {s \in lba..(lba + sectors - 1) : drive.begin <= lba /\ s < oldEnd}

CanRead(s) == s \in (FirstSector..LastSector) \cup Readable

(* The call starts: choose the first sector and run cdrom_cache_handler,   *)
(* whose read of one sector is recorded in the window even if it fails.    *)
BeginRead(target, driftcomp, got) ==
  LET start == JitteredStart(target) + driftcomp
      lba   == Larger(start, 0)
      seek  == FlushSector(window, lba) IN
  /\ pc = "idle"
  /\ jitter' = NextJitter
  /\ readat' = start
  /\ IF NeedsFlush(window, start)
       THEN /\ window' = CacheUpdate(window, seek, 1)
            /\ got = 1 => CanRead(seek)
            /\ got = 0 => flaky \/ ~CanRead(seek)
            /\ drive' = DriveRead(drive, seek, got)
            /\ oldEnd' = IF got = 1 /\ Flushes(drive, seek)
                           THEN seek ELSE drive.end
       ELSE /\ got = 0
            /\ UNCHANGED <<window, drive>>
            /\ oldEnd' = drive.end
  /\ buffer' = <<>>
  /\ lastsector' = FALSE
  /\ stale' = {}
  /\ result' = "reading"
  /\ pc' = "reading"
  /\ UNCHANGED flaky

(* The request the loop would issue: clipped to the session and to what is *)
(* still wanted of the block.                                              *)
AdjRead == Larger(readat, FirstSector)
Smaller(a, b) == IF a < b THEN a ELSE b

(* Seeded fault: the request is not clipped to the session.                *)
SecRead_Unclipped ==
  Smaller(CdcacheSize - sofar, Nsectors - (AdjRead - readat))

SecRead ==
  Smaller(CdcacheSize - sofar,
          Smaller(LastSector - AdjRead + 1, Nsectors - (AdjRead - readat)))

InLoop == pc = "reading" /\ sofar < CdcacheSize

Entries(from, num, got) ==
  [i \in 1..num |-> [sector |-> from + i - 1, unread |-> i > got]]

ReachesLast == AdjRead + SecRead - 1 = LastSector

(* The drive returns the first `got' sectors; the rest is zeroed and       *)
(* marked FLAGS_UNREAD.  The window advances by the whole request.         *)
Request(got) ==
  /\ InLoop
  /\ SecRead > 0
  /\ got \in 0..SecRead
  /\ flaky \/ got = SecRead
  /\ Served(AdjRead, got)
  /\ window' = CacheUpdate(window, AdjRead, SecRead)
  /\ buffer' = buffer \o Entries(AdjRead, SecRead, got)
  /\ lastsector' = (lastsector \/ ReachesLast)
  /\ readat' = AdjRead + SecRead
  /\ UNCHANGED <<flaky, pc, jitter, result>>

(* Seeded fault: moves on by what is readable, which is nothing.           *)
SkipAhead_ByRead ==
  /\ InLoop
  /\ SecRead <= 0
  /\ readat < FirstSector
  /\ readat' = readat + Larger(SecRead, 0)
  /\ UNCHANGED <<flaky, pc, jitter, window, drive, oldEnd, buffer, lastsector,
                 stale, result>>

(* Wholly before the readable area: move up by one request.                *)
SkipAhead ==
  /\ InLoop
  /\ SecRead <= 0
  /\ readat < FirstSector
  /\ readat' = readat + Nsectors
  /\ UNCHANGED <<flaky, pc, jitter, window, drive, oldEnd, buffer, lastsector,
                 stale, result>>

(* The disc is gone (ENOMEDIUM): the block is freed, NULL is returned.     *)
NoMedium ==
  /\ InLoop
  /\ SecRead > 0
  /\ flaky
  /\ pc' = "idle"
  /\ result' = "null"
  /\ UNCHANGED <<flaky, jitter, window, drive, oldEnd, readat, buffer, lastsector,
                 stale>>

(* The loop is over: a block if the drive delivered anything, else NULL.   *)
EndRead ==
  /\ pc = "reading"
  /\ sofar >= CdcacheSize \/ (SecRead <= 0 /\ readat >= FirstSector)
  /\ pc' = "idle"
  /\ result' = IF \E i \in 1..sofar : ~buffer[i].unread THEN "block" ELSE "null"
  /\ UNCHANGED <<flaky, jitter, window, drive, oldEnd, readat, buffer, lastsector,
                 stale>>

LoopStep == (\E got \in 0..Nsectors : Request(got)) \/ SkipAhead \/ EndRead

Next ==
  \/ \E t \in Targets, dc \in DriftComps, got \in {0, 1} : BeginRead(t, dc, got)
  \/ LoopStep
  \/ NoMedium

Spec == Init /\ [][Next]_vars

(* The loop runs to its end once entered: it is straight-line C code.      *)
FairSpec == Spec /\ WF_vars(LoopStep)

-----------------------------------------------------------------------------
(* No sector of a block is one the drive still had from an earlier block:  *)
(* verification compares reads of the disc, not copies of one read.  This  *)
(* is promised of drives that read what they are asked for only, because   *)
(* the window advances by what was requested.                              *)
FreshBlock == ~flaky => stale = {}

(* The window is never narrower than the drive's cache, so a sector it     *)
(* declares uncached really is.                                            *)
WindowCoversDrive ==
  ~flaky /\ drive.begin < drive.end =>
    window.begin <= drive.begin /\ drive.end <= window.end

(* The i-th sector of the buffer is sector firstread + i of the disc and   *)
(* lies in the session, whatever was clipped, short or unreadable: words   *)
(* are addressed through new->begin alone.  A block that is shorter than   *)
(* asked for is one that reached the last sector and says so: the caller   *)
(* detects the end of the disc by this.                                    *)
BlockIsContiguous ==
  /\ \A i \in 1..sofar :
       /\ buffer[i].sector = buffer[1].sector + i - 1
       /\ buffer[i].sector \in FirstSector..LastSector
  /\ result = "block" => (sofar < CdcacheSize => lastsector)
                          /\ (lastsector <=> buffer[sofar].sector = LastSector)

(* Successive blocks for one target never start at the same sector until   *)
(* all JIGGLE_MODULO alignments were used; none starts above the target or *)
(* more than JIGGLE_MODULO - 1 sectors below.                              *)
StartsVary ==
  [][\A t \in Targets : pc = "idle" /\ pc' = "reading" =>
       /\ JitteredStart(t) \in (t - JIGGLE_MODULO + 1)..t
       /\ (JitteredStart(t)' - JitteredStart(t)) % JIGGLE_MODULO
            = JIGGLE_MODULO - 1]_vars

(* Every call returns.                                                     *)
CallReturns == pc = "reading" ~> pc = "idle"

=============================================================================
