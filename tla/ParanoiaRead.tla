---------------------------- MODULE ParanoiaRead ----------------------------
(***************************************************************************)
(* paranoia_read_limited of paranoia.c: returns the sector at the cursor   *)
(* out of the verified root, which it extends with verified fragments of   *)
(* the blocks read from the disc, or with a skip when nothing verifies.    *)
(*                                                                         *)
(* Samples are abstracted: which part of a block stage 1 verifies, whether *)
(* a fragment matches the root and with what jitter are free choices.      *)
(* Positions count words from the start of the disc; an interval is        *)
(* [begin, end), like cb..ce of a c_block.                                 *)
(***************************************************************************)
EXTENDS Integers, FiniteSets

CONSTANTS
  FRAMEWORDS,         (* CD_FRAMEWORDS, words per sector                    *)
  HALF_SECTOR,        (* growth that counts as progress, 588                *)
  MAX_SECTOR_OVERLAP, (* largest overlap, in sectors                        *)
  MIN_WORDS_OVERLAP,  (* what trimming must leave of the root               *)
  EPSILON,            (* smallest automatic dynoverlap, MIN_SECTOR_EPSILON  *)
  JIGGLE_MODULO,      (* number of read alignments                          *)
  CACHE_LIMIT,        (* blocks kept, p->cache_limit                        *)
  CdcacheSize,        (* sectors per block                                  *)
  Nsectors,           (* sectors per request                                *)
  RetryStep,          (* 5: retries between two reactions                   *)
  MaxRetries,         (* max_retries of the caller                          *)
  Modes,              (* of "verify", "overlap" and "disable"               *)
  NeverSkip,          (* PARANOIA_MODE_NEVERSKIP                            *)
  ForcedOverlap,      (* paranoia_overlapset, in words; Automatic if unset  *)
  Automatic,
  LastSector,         (* p->current_lastsector                              *)
  Starts,             (* sectors a caller seeks to                          *)
  MaxCursor,          (* bound of the model: last sector a caller reads     *)
  Jitters,            (* words a fragment is displaced or a rift repaired by*)
  DriveFails          (* whether the drive can deliver nothing for a block  *)

ASSUME ReadAssumption ==
  /\ FRAMEWORDS \in Nat \ {0} /\ HALF_SECTOR \in Nat
  /\ MAX_SECTOR_OVERLAP \in Nat \ {0} /\ MIN_WORDS_OVERLAP \in Nat
  /\ MIN_WORDS_OVERLAP <= FRAMEWORDS * MAX_SECTOR_OVERLAP
  /\ EPSILON \in 0..(MAX_SECTOR_OVERLAP * FRAMEWORDS)
  /\ JIGGLE_MODULO \in Nat \ {0} /\ CACHE_LIMIT \in Nat \ {0}
  /\ CdcacheSize \in Nat \ {0} /\ Nsectors \in Nat \ {0}
  /\ RetryStep \in Nat \ {0} /\ MaxRetries \in Nat
  /\ Modes \subseteq {"verify", "overlap", "disable"}
  /\ NeverSkip \in BOOLEAN /\ DriveFails \in BOOLEAN
  /\ Automatic \notin Nat /\ ForcedOverlap \in Nat \cup {Automatic}
  /\ LastSector \in Nat /\ MaxCursor \in Nat
  /\ Starts \subseteq Nat /\ Jitters \subseteq Int

W == FRAMEWORDS
MaxOverlap == MAX_SECTOR_OVERLAP * W
SessionEnd == (LastSector + 1) * W
Forced == ForcedOverlap # Automatic

Larger(a, b) == IF a < b THEN b ELSE a
Smaller(a, b) == IF a < b THEN a ELSE b

VARIABLES
  enable,        \* p->enable, set by paranoia_modeset before the first read
  pc,            \* where paranoia_read_limited is; "idle" between calls
  cursor,        \* p->cursor, a sector
  firstsector,   \* p->current_firstsector
  root,          \* the verified root's interval, or NoRoot
  rootlast,      \* p->root.lastsector
  returnedlimit, \* p->root.returnedlimit
  blocks,        \* p->cache with the v_fragments cut from each block
  dynoverlap,    \* p->dynoverlap
  retry_count,   \* local to the call
  lastend,       \* local to the call
  delivered      \* history: end of the last sector returned since the seek

vars == <<enable, pc, cursor, firstsector, root, rootlast, returnedlimit, blocks,
          dynoverlap, retry_count, lastend, delivered>>
readVars == <<enable, cursor, firstsector, dynoverlap, delivered>>

Paranoid == enable # "disable"

(* rv(root) == NULL; the macros rb and re yield -1 then.                   *)
NoRoot == [begin |-> -1, end |-> -1]
NotDelivered == -1

Interval == [begin : Int, end : Int]
Fragment == [begin : Int, end : Int, last : BOOLEAN]

(* age 0 is the head of the list, the newest block.                        *)
Block == [begin : Int, end : Int, last : BOOLEAN, age : Nat, frags : SUBSET Fragment]

beginword == cursor * W
endword == beginword + W

Init ==
  /\ enable \in Modes
  /\ pc = "idle"
  /\ cursor \in Starts
  /\ firstsector = cursor
  /\ root = NoRoot
  /\ rootlast = FALSE
  /\ returnedlimit = 0
  /\ blocks = {}
  /\ dynoverlap = IF Forced THEN ForcedOverlap ELSE MaxOverlap
  /\ retry_count = 0
  /\ lastend = -1
  /\ delivered = NotDelivered

-----------------------------------------------------------------------------
(* The list of blocks.                                                     *)

(* Ages are ranks: what is left after some blocks are freed moves up.      *)
Renumber(S) == {[b EXCEPT !.age = Cardinality({c \in S : c.age < b.age})] : b \in S}

(* Seeded fault: one block more than the limit is kept.                    *)
MakeRoom_OneTooMany(S) ==
  {[b EXCEPT !.age = @ + 1] : b \in {c \in S : c.age < CACHE_LIMIT}}

(* Seeded fault: the new block does not move the others down the list.     *)
MakeRoom_SameAges(S) == {b \in S : b.age + 1 < CACHE_LIMIT}

(* recover_cache when one more block has been put at the head: the oldest  *)
(* ones beyond the limit are freed, with their fragments.                  *)
MakeRoom(S) == {[b EXCEPT !.age = @ + 1] : b \in {c \in S : c.age + 1 < CACHE_LIMIT}}

FreeFragment(S, b, f) == (S \ {b}) \cup {[b EXCEPT !.frags = @ \ {f}]}

-----------------------------------------------------------------------------
(* Seeded fault: returnedlimit does not follow the cursor.                 *)
StartRead_OldLimit ==
  /\ pc = "idle"
  /\ cursor <= MaxCursor
  /\ lastend' = root.end
  /\ retry_count' = 0
  /\ pc' = "check"
  /\ UNCHANGED <<root, rootlast, returnedlimit, blocks, readVars>>

(* A call starts.                                                          *)
StartRead ==
  /\ pc = "idle"
  /\ cursor <= MaxCursor
  /\ returnedlimit' = Larger(returnedlimit, beginword)
  /\ lastend' = root.end
  /\ retry_count' = 0
  /\ pc' = "check"
  /\ UNCHANGED <<root, rootlast, blocks, readVars>>

(* The loop condition: the root does not hold the sector, or in a paranoid *)
(* mode not yet MAX_SECTOR_OVERLAP sectors more.                           *)
Wanting ==
  \/ root = NoRoot
  \/ root.begin > beginword
  \/ Paranoid /\ root.end < endword + MaxOverlap
  \/ root.end < endword

Deliver ==
  /\ cursor' = cursor + 1
  /\ delivered' = endword
  /\ pc' = "idle"
  /\ UNCHANGED <<enable, firstsector, root, rootlast, returnedlimit, blocks,
                 dynoverlap, retry_count, lastend>>

ReturnSector == pc = "check" /\ ~Wanting /\ Deliver

(* Seeded fault: any root that starts too far behind is freed.             *)
TrimFrees_FarBehind ==
  /\ root # NoRoot
  /\ root.begin > beginword \/ root.begin + MaxOverlap < beginword

(* i_paranoia_trim: the root is freed if it lies beyond the sector or too  *)
(* far behind, else cut to one overlap before it; blocks left behind go.   *)
TrimFrees ==
  /\ root # NoRoot
  /\ \/ root.begin > beginword
     \/ /\ root.begin + MaxOverlap < beginword
        /\ beginword - MaxOverlap + MIN_WORDS_OVERLAP > root.end

TrimmedRoot ==
  IF TrimFrees \/ root = NoRoot THEN NoRoot
  ELSE [root EXCEPT !.begin = Larger(@, beginword - MaxOverlap)]

TrimmedBlocks ==
  IF TrimFrees \/ root = NoRoot THEN blocks
  ELSE Renumber({b \in blocks : b.end >= beginword - MaxOverlap})

(* The root has reached the end of the session.                            *)
AtDiscEnd == root # NoRoot /\ rootlast /\ ~TrimFrees

(* The top of the loop with the end reached: i_end_case adds zeros and     *)
(* drops everything cached, unless there is enough already.                *)
PadEnd ==
  /\ pc = "check" /\ Wanting /\ Paranoid /\ AtDiscEnd
  /\ root' = [TrimmedRoot EXCEPT !.end = Larger(@, endword + MaxOverlap)]
  /\ blocks' = IF endword + MaxOverlap < root.end THEN TrimmedBlocks ELSE {}
  /\ pc' = "enough"
  /\ UNCHANGED <<rootlast, returnedlimit, readVars, retry_count, lastend>>

(* The top of the loop otherwise: trim, then merge fragments.              *)
Trim ==
  /\ pc = "check" /\ Wanting /\ Paranoid /\ ~AtDiscEnd
  /\ root' = TrimmedRoot
  /\ blocks' = TrimmedBlocks
  /\ returnedlimit' = IF TrimFrees THEN -1 ELSE returnedlimit
  /\ rootlast' = (rootlast /\ ~TrimFrees)
  /\ pc' = "stage2"
  /\ UNCHANGED <<readVars, retry_count, lastend>>

(* Without paranoia root.lastsector is never set: nothing to do.           *)
NoTrim ==
  /\ pc = "check" /\ Wanting /\ ~Paranoid
  /\ pc' = "enough"
  /\ UNCHANGED <<root, rootlast, returnedlimit, blocks, readVars,
                 retry_count, lastend>>

-----------------------------------------------------------------------------
(* i_stage2.                                                               *)

StartsRoot(f) == f.begin <= beginword /\ f.end > beginword

(* i_init_root: without a root the lowest fragment over the sector is one. *)
InitRoot(b, f) ==
  /\ pc = "stage2"
  /\ root = NoRoot
  /\ b \in blocks /\ f \in b.frags
  /\ StartsRoot(f)
  /\ \A c \in blocks : \A g \in c.frags : StartsRoot(g) => f.begin <= g.begin
  /\ root' = [begin |-> f.begin, end |-> f.end]
  /\ rootlast' = f.last
  /\ returnedlimit' = beginword
  /\ blocks' = FreeFragment(blocks, b, f)
  /\ UNCHANGED <<pc, readVars, retry_count, lastend>>

(* Every tenth offset counted may make offset_adjust_settings compute      *)
(* dynoverlap anew: those of stage 1's search, those of the search of      *)
(* stage 2, which counts for stage 1 in both modes that merge, and those   *)
(* of merges themselves.  A forced overlap is not counted for.             *)
Adjusted == IF Forced THEN {dynoverlap} ELSE {dynoverlap} \cup EPSILON..MaxOverlap

(* Reading a block searches only if stage 1 verifies it.                   *)
AdjustedByRead == IF enable = "verify" THEN Adjusted ELSE {dynoverlap}

(* i_stage2_each: a fragment matches a run of the root of at least         *)
(* MIN_WORDS_OVERLAP words, displaced by j.                                *)
Matches(f, j) ==
  /\ f.begin + j + MIN_WORDS_OVERLAP <= root.end
  /\ root.begin + MIN_WORDS_OVERLAP <= f.end + j

(* Glom: the fragment ends further on, or it is the last of the session    *)
(* and the root must not end elsewhere, or what the root has beyond the    *)
(* match is taken for garbage; that is only done above returnedlimit.      *)
Glom(f, j) ==
  /\ f.end + j > root.end \/ f.last \/ f.end + j > returnedlimit
  /\ root' = [root EXCEPT !.end = f.end + j]
  /\ rootlast' = (rootlast \/ f.last)

(* The fragment is used up without adding to the root, because the root    *)
(* holds it or because its tail is taken for garbage.  A rift may have     *)
(* been repaired in the root, above returnedlimit, by r words.             *)
Absorb(r) ==
  /\ r # 0 => root.end >= returnedlimit /\ root.end + r >= returnedlimit
  /\ root' = [root EXCEPT !.end = @ + r]
  /\ UNCHANGED rootlast

MergeFragment(b, f, j) ==
  /\ pc = "stage2"
  /\ root # NoRoot
  /\ b \in blocks /\ f \in b.frags
  /\ Matches(f, j)
  /\ Glom(f, j) \/ \E r \in Jitters : Absorb(r)
  /\ dynoverlap' \in Adjusted
  /\ blocks' = FreeFragment(blocks, b, f)
  /\ UNCHANGED <<enable, pc, cursor, firstsector, delivered, returnedlimit,
                 retry_count, lastend>>

(* i_silence_match: root and fragment are silent where they meet.  The gap *)
(* between them is filled with silence, or the silence they share is taken *)
(* to be the same, or what the fragment has after its silence is moved up  *)
(* by d words to where the root's silence starts, above returnedlimit.     *)
MergeSilence(b, f, d) ==
  /\ pc = "stage2"
  /\ root # NoRoot
  /\ b \in blocks /\ f \in b.frags
  /\ f.begin - dynoverlap < root.end \/ f.begin < root.end
  /\ d = 0 \/ (d > 0 /\ f.begin < root.end /\ returnedlimit < root.end)
  /\ root' = [root EXCEPT !.end = Larger(@, f.end + d)]
  /\ rootlast' = (rootlast \/ f.last)
  /\ dynoverlap' \in Adjusted
  /\ blocks' = FreeFragment(blocks, b, f)
  /\ UNCHANGED <<enable, pc, cursor, firstsector, delivered, returnedlimit,
                 retry_count, lastend>>

(* No fragment matched in a whole pass.  Those that should have are freed, *)
(* unless the root ends in silence.                                        *)
EndStage2 ==
  /\ pc = "stage2"
  /\ root = NoRoot => ~ \E b \in blocks : \E f \in b.frags : StartsRoot(f)
  /\ \E silence \in BOOLEAN :
       blocks' = {[b EXCEPT !.frags = {f \in @ : \/ root = NoRoot \/ silence
                                               \/ f.end + dynoverlap >= root.end}]
                  : b \in blocks}
  /\ pc' = "enough"
  /\ UNCHANGED <<root, rootlast, returnedlimit, readVars, retry_count, lastend>>

(* Enough was in memory.                                                   *)
Satisfied ==
  /\ root.begin # -1 /\ root.begin <= beginword
  /\ root.end >= endword + MaxOverlap

Break == pc = "enough" /\ Satisfied /\ Deliver

-----------------------------------------------------------------------------
(* i_read_c_block, then stage 1 or its stand-ins.                          *)

OverlapSectors == (dynoverlap + W - 1) \div W
Target == IF root = NoRoot \/ root.begin > beginword
            THEN cursor - OverlapSectors
            ELSE root.end \div W - OverlapSectors
ReadStarts == IF Paranoid THEN (Target - JIGGLE_MODULO + 1)..Target ELSE {cursor}

(* The sectors read if the loop starts at sector s, clipped to the session *)
BlockAt(s) ==
  LET lo == Larger(s, firstsector)
      hi == Smaller(lo + CdcacheSize, LastSector + 1) IN
  [begin |-> lo * W, end |-> hi * W, last |-> hi = LastSector + 1]

(* A v_fragment over [x, y) of a block: the last one of the session only   *)
(* if it ends where the block ends.                                        *)
Run(blk, x, y) == [begin |-> x, end |-> y, last |-> blk.last /\ y = blk.end]

(* Stage 1 finds at most one verified run in the new block.                *)
VerifiedRuns(blk) ==
  {{}} \cup {{Run(blk, x, y)} : x \in blk.begin..(blk.end - 1), y \in (blk.begin + 1)..blk.end}

(* Without it each request of a read that started at sector s is a         *)
(* fragment, less the suspect words on both sides of where requests join.  *)
Joins(blk, s) ==
  {x \in (blk.begin + 1)..(blk.end - 1) : (x - s * W) % (Nsectors * W) = 0}

Adjacent(x, y, cuts) == x < y /\ \A c \in cuts : ~(x < c /\ c < y)

RequestRuns(blk, s) ==
  LET edge == MIN_WORDS_OVERLAP \div 2
      cuts == Joins(blk, s) \cup {blk.begin, blk.end}
      From(x) == IF x = blk.begin THEN x ELSE x + edge
      To(y) == IF y = blk.end THEN y ELSE y - edge IN
  {Run(blk, From(p[1]), To(p[2])) : p \in {q \in cuts \X cuts : Adjacent(q[1], q[2], cuts)}}

Fragments(blk, s) ==
  IF enable = "verify" THEN VerifiedRuns(blk) ELSE {RequestRuns(blk, s)}

Reading == pc = "enough" /\ ~Satisfied

ReadVerified(s, frags) ==
  LET blk == BlockAt(s) IN
  /\ Reading /\ Paranoid
  /\ blk.begin < blk.end
  /\ frags \in Fragments(blk, s) /\ \A f \in frags : f.begin < f.end
  /\ blocks' = MakeRoom(blocks) \cup
       {[begin |-> blk.begin, end |-> blk.end, last |-> blk.last, age |-> 0,
         frags |-> frags]}
  /\ dynoverlap' \in AdjustedByRead
  /\ pc' = "account"
  /\ UNCHANGED <<enable, cursor, firstsector, delivered, root, rootlast,
                 returnedlimit, retry_count, lastend>>

(* PARANOIA_MODE_DISABLE: everything is reset and the block is the root;   *)
(* root.lastsector stays clear.                                            *)
ReadRaw ==
  LET blk == BlockAt(cursor) IN
  /\ Reading /\ ~Paranoid
  /\ blk.begin < blk.end
  /\ root' = [begin |-> blk.begin, end |-> blk.end]
  /\ rootlast' = FALSE
  /\ returnedlimit' = 0
  /\ blocks' = {}
  /\ pc' = "account"
  /\ UNCHANGED <<readVars, retry_count, lastend>>

(* Nothing was read.  Room has been made for the block all the same; in    *)
(* PARANOIA_MODE_DISABLE everything was reset.                             *)
Unread ==
  IF Paranoid
    THEN /\ blocks' = {[b EXCEPT !.age = @ - 1] : b \in MakeRoom(blocks)}
         /\ UNCHANGED <<root, rootlast, returnedlimit>>
    ELSE /\ root' = NoRoot /\ rootlast' = FALSE
         /\ returnedlimit' = 0 /\ blocks' = {}

(* The block lies past the session or the drive delivers none of it.       *)
ReadNothing(s) ==
  /\ Reading
  /\ DriveFails \/ BlockAt(s).begin >= BlockAt(s).end
  /\ Unread
  /\ pc' = "account"
  /\ UNCHANGED <<readVars, retry_count, lastend>>

(* The medium is gone: the call returns NULL, the cursor stays.            *)
NoMedium ==
  /\ Reading
  /\ DriveFails
  /\ Unread
  /\ pc' = "idle"
  /\ UNCHANGED <<readVars, retry_count, lastend>>

-----------------------------------------------------------------------------
(* verify_skip_case.                                                       *)
SkipAt == IF root = NoRoot THEN 0 ELSE root.end

(* A cached block over that position is grafted on, up to e ...            *)
Graft(b, e) ==
  /\ b.begin <= SkipAt /\ SkipAt < b.end
  /\ e \in (SkipAt + 1)..b.end
  /\ root' = IF root = NoRoot THEN [begin |-> b.begin, end |-> b.end]
             ELSE [root EXCEPT !.end = e]

(* ... or CD_FRAMESIZE_RAW words, two sectors, of zeros.                   *)
Zeros ==
  /\ \A b \in blocks : ~(b.begin <= SkipAt /\ SkipAt < b.end)
  /\ root' = IF root = NoRoot THEN [begin |-> 0, end |-> 2 * W]
             ELSE [root EXCEPT !.end = @ + 2 * W]

Skip ==
  /\ \/ \E b \in blocks : \E e \in (SkipAt + 1)..b.end : Graft(b, e)
     \/ Zeros
  /\ returnedlimit' = root'.end

Progress == root.begin # -1 /\ lastend + HALF_SECTOR < root.end

(* The count is only compared with MaxRetries and taken modulo RetryStep.  *)
NextRetry == IF retry_count + 1 > MaxRetries + RetryStep
               THEN retry_count + 1 - RetryStep ELSE retry_count + 1

AtLimit == dynoverlap = MaxOverlap \/ NextRetry = MaxRetries

AccountProgress ==
  /\ pc = "account" /\ Progress
  /\ lastend' = root.end
  /\ retry_count' = 0
  /\ pc' = "check"
  /\ UNCHANGED <<root, rootlast, returnedlimit, blocks, readVars>>

(* Seeded fault: the counter starts over after every reaction.             *)
WidenOverlap_StartsOver ==
  /\ pc = "account" /\ ~Progress
  /\ NextRetry % RetryStep = 0 /\ ~AtLimit
  /\ retry_count' = 0
  /\ pc' = "check"
  /\ UNCHANGED <<enable, cursor, firstsector, delivered, root, rootlast,
                 returnedlimit, blocks, dynoverlap, lastend>>

(* No progress: count, and every RetryStep times widen the overlap or skip *)
CountRetry ==
  /\ pc = "account" /\ ~Progress
  /\ NextRetry % RetryStep # 0
  /\ retry_count' = NextRetry
  /\ pc' = "check"
  /\ UNCHANGED <<root, rootlast, returnedlimit, blocks, readVars, lastend>>

WidenOverlap ==
  /\ pc = "account" /\ ~Progress
  /\ NextRetry % RetryStep = 0 /\ ~AtLimit
  /\ retry_count' = NextRetry
  /\ dynoverlap' = IF Forced THEN dynoverlap
                   ELSE Smaller((dynoverlap * 3) \div 2, MaxOverlap)
  /\ pc' = "check"
  /\ UNCHANGED <<enable, cursor, firstsector, delivered, root, rootlast,
                 returnedlimit, blocks, lastend>>

GiveUp ==
  /\ pc = "account" /\ ~Progress
  /\ NextRetry % RetryStep = 0 /\ AtLimit
  /\ IF NeverSkip THEN UNCHANGED <<root, returnedlimit>> ELSE Skip
  /\ retry_count' = 0
  /\ pc' = "check"
  /\ UNCHANGED <<rootlast, blocks, readVars, lastend>>

-----------------------------------------------------------------------------
(* Seeded fault: the end-of-session flag survives a seek.                  *)
Seek_KeepsFlag(s) ==
  /\ pc = "idle"
  /\ cursor' = s
  /\ firstsector' = s
  /\ root' = NoRoot
  /\ returnedlimit' = 0
  /\ delivered' = NotDelivered
  /\ UNCHANGED <<enable, pc, rootlast, blocks, dynoverlap, retry_count, lastend>>

(* paranoia_seek, between reads; fragments and blocks stay.                *)
Seek(s) ==
  /\ pc = "idle"
  /\ cursor' = s
  /\ firstsector' = s
  /\ root' = NoRoot
  /\ rootlast' = FALSE
  /\ returnedlimit' = 0
  /\ delivered' = NotDelivered
  /\ UNCHANGED <<enable, pc, blocks, dynoverlap, retry_count, lastend>>

Stage2Step ==
  \/ \E b \in blocks : \E f \in b.frags :
       \/ InitRoot(b, f)
       \/ \E j \in Jitters : MergeFragment(b, f, j)
       \/ \E d \in Jitters : MergeSilence(b, f, d)
  \/ EndStage2

ReadStep ==
  \/ \E s \in ReadStarts : \/ \E frags \in Fragments(BlockAt(s), s) : ReadVerified(s, frags)
                           \/ ReadNothing(s)
  \/ ReadRaw
  \/ NoMedium

AccountStep == AccountProgress \/ CountRetry \/ WidenOverlap \/ GiveUp

Step == ReturnSector \/ PadEnd \/ Trim \/ NoTrim \/ Stage2Step \/ Break \/ ReadStep \/ AccountStep

Next == StartRead \/ Step \/ \E s \in Starts : Seek(s)

Spec == Init /\ [][Next]_vars

(* A call that was entered keeps running.                                  *)
FairSpec == Spec /\ WF_vars(Step)

-----------------------------------------------------------------------------
TypeOK ==
  /\ enable \in Modes
  /\ pc \in {"idle", "check", "stage2", "enough", "account"}
  /\ cursor \in Nat /\ firstsector \in Nat
  /\ root \in Interval /\ rootlast \in BOOLEAN
  /\ returnedlimit \in Int
  /\ blocks \in SUBSET Block
  /\ dynoverlap \in Nat
  /\ retry_count \in Nat /\ lastend \in Int
  /\ delivered \in Int

(* A merge may move or replace samples of the root from returnedlimit on,  *)
(* so while fragments are merged it must not lie below what the caller     *)
(* already got.                                                            *)
ReturnedProtected ==
  pc = "stage2" /\ delivered # NotDelivered => returnedlimit >= delivered

(* Once a sector was returned the root is kept until the caller seeks: the *)
(* next sector is always joined to it by overlap, never started anew.      *)
RootKept ==
  [][Paranoid /\ delivered # NotDelivered /\ root # NoRoot /\ pc # "idle"
       => root' # NoRoot]_vars

(* No more blocks than the limit are kept, in whatever order they come and *)
(* go: the new block is in the list while the oldest are culled.           *)
CacheBounded == Cardinality(blocks) <= CACHE_LIMIT

(* The flag that makes the program pad with zeros is raised, or handed to  *)
(* a new root, only when that root ends where the session ends, up to the  *)
(* jitter of the fragment that brought it.                                 *)
PaddingAtEnd ==
  [][rootlast' /\ (~rootlast \/ root = NoRoot) =>
       \E j \in Jitters \cup {0} : SessionEnd + j <= root'.end]_vars

(* Every call that corrects anything returns.                              *)
ReadReturns == pc # "idle" /\ enable # "disable" ~> pc = "idle"

=============================================================================
