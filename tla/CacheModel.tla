----------------------------- MODULE CacheModel -----------------------------
(***************************************************************************)
(* paranoia.c keeps a guess of which sectors the drive may still hold in   *)
(* its read cache, the window [cdcache_begin, cdcache_end), and before it  *)
(* re-reads part of the disc it makes the drive drop them.  This module    *)
(* has the arithmetic of that guess and, as an external component, a drive *)
(* with a read cache.  Both are intervals [begin, end) of sector numbers.  *)
(***************************************************************************)
EXTENDS Integers

CONSTANTS
  CdcacheSize,   (* p->cdcache_size, CACHEMODEL_SECTORS                    *)
  DriveCache,    (* what the drive really caches, in sectors               *)
  DiscFirst      (* cdda_disc_firstsector(p->d)                            *)

ASSUME CacheAssumption ==
  /\ CdcacheSize \in Nat \ {0}
  /\ DriveCache \in Nat
  /\ DiscFirst \in Nat

Window == [begin : Int, end : Int]

In(s, w) == w.begin <= s /\ s < w.end

Larger(a, b) == IF a < b THEN b ELSE a

(* paranoia_init: nothing is cached yet, every sector is below the window. *)
InitWindow == [begin |-> 9999999, end |-> 9999999]

-----------------------------------------------------------------------------
(* cdrom_cache_update: `sectors' sectors were requested at lba.            *)

(* A request that ends above cdcache_size is taken to fill the whole cache *)
(* with the sectors up to its end.                                         *)
SpanBegin(lba, sectors) ==
  IF lba + sectors > CdcacheSize THEN lba + sectors - CdcacheSize ELSE lba

(* Seeded fault: a request below the window only lowers its begin.         *)
CacheUpdate_KeepsEnd(w, lba, sectors) ==
  [begin |-> IF lba < w.begin THEN lba ELSE w.begin,
   end   |-> IF lba + sectors < w.begin THEN lba + sectors ELSE w.end]

CacheUpdate(w, lba, sectors) ==
  LET from == SpanBegin(lba, sectors)
      to   == lba + sectors
      kept == to - CdcacheSize IN
  IF from < w.begin
    THEN [begin |-> from, end |-> to]
    ELSE [begin |-> IF kept > w.begin
                      THEN IF kept < Larger(w.end, to) THEN kept ELSE from
                      ELSE w.begin,
          end   |-> Larger(w.end, to)]

-----------------------------------------------------------------------------
(* cdrom_cache_handler: where to read one sector so that the following     *)
(* read at lba comes from the disc.                                        *)

(* Seeded fault: the sector the window starts with is taken for uncached.  *)
NeedsFlush_Exclusive(w, lba) == lba < w.end /\ lba # w.begin

NeedsFlush(w, lba) == lba < w.end

FlushSector(w, lba) ==
  LET pre == w.begin - 1 IN
  IF lba < w.begin
    THEN IF lba = 0 \/ lba - 1 < DiscFirst THEN lba ELSE lba - 1
    ELSE IF pre < DiscFirst THEN lba + CdcacheSize ELSE pre

-----------------------------------------------------------------------------
(* The drive.  Reading upwards adds to the cache and pushes the lowest     *)
(* sectors out; a seek backwards empties it first.  A forward gap is taken *)
(* to be cached as well, which only makes stale data easier to get.        *)
Flushes(c, lba) == lba < c.begin \/ c.begin = c.end

DriveRead(c, lba, sectors) ==
  LET to == IF Flushes(c, lba) THEN lba + sectors ELSE Larger(c.end, lba + sectors)
      lo == IF Flushes(c, lba) THEN lba ELSE c.begin IN
  IF sectors = 0 THEN c
  ELSE [begin |-> Larger(lo, to - DriveCache), end |-> to]

=============================================================================
