------------------------------- MODULE Stage1 -------------------------------
(***************************************************************************)
(* Stage 1 of paranoia.c: a block just read is compared with every block   *)
(* in memory, and what two reads agree on becomes verified fragments.  The *)
(* search posts a sample every STRIDE positions of the older block and     *)
(* looks for it in the new one; where it is found, the run that agrees is  *)
(* marked in both.  Each displacement found is counted, and counting it    *)
(* may move every block and fragment in memory (drift).                    *)
(*                                                                         *)
(* A position is an absolute sample number, an offset counts from the      *)
(* start of a block.  What a drive may deliver is a constant, and stage 2  *)
(* is present by what it does to fragments and to the statistics.          *)
(***************************************************************************)
EXTENDS Vectors, Offsets, Functions

CONSTANTS
  MIN_WORDS_OVERLAP,    (* two runs that join share about so much         *)
  MIN_WORDS_SEARCH,     (* a run is a match if it is longer               *)
  STRIDE,               (* 23: distance between the posts of a search     *)
  TELLING,              (* so many samples in a row tell where they are   *)
  Drives,               (* what a drive may deliver, see Drive            *)
  Overlaps              (* overlaps the user forces, and 0 for none       *)

ASSUME Stage1Assumption ==
  /\ MIN_WORDS_OVERLAP \in Nat /\ MIN_WORDS_OVERLAP >= 4
  /\ MIN_WORDS_SEARCH \in Nat \ {0}
  /\ STRIDE \in Nat \ {0}
  /\ Overlaps \subseteq Nat

OVERLAP_ADJ == MIN_WORDS_OVERLAP \div 2 - 1

(* No agreement falls between two posts, or is trimmed to nothing.         *)
ASSUME SearchAssumption ==
  STRIDE <= MIN_WORDS_SEARCH + 1 /\ 2 * OVERLAP_ADJ <= MIN_WORDS_SEARCH

(* Runs that join share enough samples to tell where they are.             *)
ASSUME TellingAssumption ==
  TELLING \in Nat /\ 2 <= TELLING /\ TELLING <= 2 * OVERLAP_ADJ + 1

(* A block as i_read_c_block makes it: edge and unread are the offsets it  *)
(* flags, last says that it holds the last sector of the session.  disc is *)
(* the audio; verify is off with -Y, when reads are only overlapped;       *)
(* displaced is how far stage 2 may find a fragment from its place, and    *)
(* most the bound of the model: the blocks it ever delivers.               *)
Block == [begin : Int, vec : Seq(Int), edge : SUBSET Nat, unread : SUBSET Nat, last : BOOLEAN]
Drive == [disc : Seq(Int), blocks : SUBSET Block, verify : BOOLEAN,
          displaced : SUBSET Int, most : Nat]

ASSUME DriveAssumption == Drives \subseteq Drive

VARIABLES
  drive,      \* the drive that is read
  count,      \* blocks read; each is known by its number
  blocks,     \* p->cache: the blocks in memory, by number
  verified,   \* the offsets of each that are flagged as verified
  frags,      \* p->fragments, by the block and the offset each was found at
  stage1,     \* p->stage1: displacements found in stages 1 and 2
  stage2,     \* p->stage2: displacements against the root
  dynoverlap, \* p->dynoverlap
  dyndrift,   \* p->dyndrift
  pc,         \* "idle", "search" or "cut" inside stage 1, "merge" in stage 2
  older,      \* the block the new one is compared with
  j,          \* the post, a position
  searchend,  \* where the search ends, a position
  merging,    \* the fragment stage 2 merges
  found,      \* what it found it displaced by
  moved,      \* history: blocks were moved since this call began
  lost        \* history: a fragment has lost its block

lists == <<blocks, verified, frags>>
settings == <<stage1, stage2, dynoverlap, dyndrift>>
search == <<older, j, searchend>>
merge == <<merging, found>>
history == <<moved, lost>>
vars == <<drive, count, lists, settings, pc, search, merge, history>>

Size(b) == Len(b.vec)
End(b) == b.begin + Size(b)
Sample(b, i) == b.vec[i + 1]

(* The block just read, and those before it.                               *)
new == count
Olds == DOMAIN blocks \ {new}

(* A fragment is a stretch of a block; a drift can leave it without one.   *)
(* The list of them begins with the newest.                                *)
Nowhere == 0
NoFragment == <<0, 0>>
NotBehind(p, q) == p[1] > q[1] \/ (p[1] = q[1] /\ p[2] >= q[2])

With(f, k, x) == [l \in DOMAIN f \cup {k} |-> IF l = k THEN x ELSE f[l]]

Init ==
  /\ drive \in Drives
  /\ count = 0
  /\ blocks = <<>> /\ verified = <<>> /\ frags = <<>>
  /\ \E forced \in Overlaps :
       /\ stage1 = IF forced = 0 THEN NoOffsets ELSE Off
       /\ dynoverlap = IF forced = 0 THEN MAX_OVERLAP ELSE forced
  /\ stage2 = NoOffsets
  /\ dyndrift = 0
  /\ pc = "idle"
  /\ older = 0 /\ j = 0 /\ searchend = 0
  /\ merging = NoFragment /\ found = 0
  /\ moved = FALSE /\ lost = FALSE

-----------------------------------------------------------------------------
(* Drift: every block, and every fragment up to the first that has lost    *)
(* its block, is moved down by av.                                         *)

(* Seeded fault: only the fragment's own begin is looked at.               *)
MovedFragment_OwnBegin(f, av) ==
  IF f.begin < av THEN [f EXCEPT !.one = Nowhere] ELSE [f EXCEPT !.begin = @ - av]

(* One that would begin before 0, or whose block would, loses its block.   *)
MovedFragment(f, av) ==
  IF f.begin < av \/ blocks[f.one].begin < av THEN [f EXCEPT !.one = Nowhere]
  ELSE [f EXCEPT !.begin = @ - av]

Reached(k) == \A p \in DOMAIN frags : NotBehind(p, k) => frags[p].one # Nowhere

MovedFragments(av) ==
  [k \in DOMAIN frags |-> IF Reached(k) THEN MovedFragment(frags[k], av) ELSE frags[k]]

MovedBlocks(av) ==
  [b \in DOMAIN blocks |-> [blocks[b] EXCEPT !.begin = @ - Least(av, @)]]

(* The settings are adjusted, if it is time, to the offsets one of stage 1 *)
(* and two of stage 2; what is in memory moves with them.                  *)
Drifting(two, time) == time /\ Drifts(two, dynoverlap)

Settle(one, two, time) ==
  /\ IF Drifting(two, time)
       THEN /\ stage2' = NoOffsets
            /\ dyndrift' = dyndrift + Drift(two)
            /\ moved' = TRUE
            /\ lost' = (lost \/ \E k \in DOMAIN frags : MovedFragments(Drift(two))[k].one = Nowhere)
       ELSE /\ stage2' = two
            /\ UNCHANGED <<dyndrift, history>>
  /\ IF time /\ one.points >= POINTS
       THEN stage1' = Rested(one) /\ dynoverlap' = Overlapping(one)
       ELSE stage1' = one /\ UNCHANGED dynoverlap

(* blocks and fragments after a step that may adjust the settings.         *)
BlocksAfter(two, time) == IF Drifting(two, time) THEN MovedBlocks(Drift(two)) ELSE blocks
FragmentsAfter(two, time) == IF Drifting(two, time) THEN MovedFragments(Drift(two)) ELSE frags

-----------------------------------------------------------------------------
(* i_paranoia_overlap2 and do_const_sync: the run around offsets a of the  *)
(* older block A and b of the new block B.                                 *)

Same(A, B, a, b) == Sample(A, a) = Sample(B, b)
BothRead(A, B, a, b) == a \notin A.unread /\ b \notin B.unread
BothEdge(A, B, a, b) == a \in A.edge /\ b \in B.edge

(* Backward the first sample that is an edge in both still belongs to the  *)
(* run, forward it does not, unless the run begins there.                  *)
Backward(A, B, a, b) ==
  Max({n \in 0..(Least(a, b) + 1) :
         /\ \A k \in 0..(n - 1) : Same(A, B, a - k, b - k)
         /\ \A k \in 0..(n - 2) : BothRead(A, B, a - k, b - k) /\ ~BothEdge(A, B, a - k, b - k)
         /\ n > 0 => \/ BothEdge(A, B, a - n + 1, b - n + 1)
                     \/ BothRead(A, B, a - n + 1, b - n + 1)})

Forward(A, B, a, b, begin) ==
  Max({n \in 0..Least(Size(A) - a, Size(B) - b) :
         \A k \in 0..(n - 1) :
           /\ Same(A, B, a + k, b + k) /\ BothRead(A, B, a + k, b + k)
           /\ BothEdge(A, B, a + k, b + k) => a + k = begin})

(* Seeded fault: edges are no obstacle.                                    *)
RunAt_OverEdges(A, B, a, b) ==
  LET Back == Max({n \in 0..(Least(a, b) + 1) :
                     \A k \in 0..(n - 1) : Same(A, B, a - k, b - k) /\ BothRead(A, B, a - k, b - k)})
      Fore == Max({n \in 0..Least(Size(A) - a, Size(B) - b) :
                     \A k \in 0..(n - 1) : Same(A, B, a + k, b + k) /\ BothRead(A, B, a + k, b + k)})
  IN  [begin |-> a + 1 - Back, end |-> a + Fore]

RunAt(A, B, a, b) ==
  LET begin == a + 1 - Backward(A, B, a, b) IN
  [begin |-> begin, end |-> a + Forward(A, B, a, b, begin)]

IsMatch(A, B, a, b) ==
  /\ Same(A, B, a, b) /\ b \notin B.unread
  /\ RunAt(A, B, a, b).end - RunAt(A, B, a, b).begin > MIN_WORDS_SEARCH

(* try_sort_sync: where the sample posted at a is found in B.  Its own     *)
(* position is tried first, then, in order, those within dynoverlap of it. *)
Places(A, B, a) ==
  LET own == A.begin + a - B.begin
      off == Most(0, Least(Size(B), own))
      Near == {b \in Most(0, off - dynoverlap)..(Least(Size(B), off + dynoverlap) - 1) :
                 IsMatch(A, B, a, b)}
  IN  IF a \in A.unread THEN {}
      ELSE IF own \in 0..(Size(B) - 1) /\ IsMatch(A, B, a, own) THEN {own}
      ELSE IF Near = {} THEN {} ELSE {Min(Near)}

-----------------------------------------------------------------------------
(* A block is read, and searched against those in memory, oldest first.    *)

(* i_iterate_stage1 begins: the positions both blocks have.                *)
Compare(o) ==
  /\ older' = o
  /\ j' = Most(blocks'[o].begin, blocks'[new'].begin)
  /\ searchend' = Least(End(blocks'[o]), End(blocks'[new']))

CutNext == pc' = "cut" /\ older' = 0 /\ j' = 0 /\ searchend' = 0

Read(b) ==
  /\ pc = "idle" /\ count < drive.most
  /\ count' = count + 1
  /\ blocks' = With(blocks, count', [b EXCEPT !.begin = @ - dyndrift])
  /\ verified' = With(verified, count', {})
  /\ moved' = FALSE
  /\ IF drive.verify /\ DOMAIN blocks # {}
       THEN pc' = "search" /\ Compare(Min(DOMAIN blocks))
       ELSE CutNext
  /\ UNCHANGED <<drive, frags, settings, merge, lost>>

Old == blocks[older]
New == blocks[new]
Post == j - Old.begin

(* The sample is not searched for if the new block needs no verification   *)
(* there.  A post that a drift put outside of the blocks finds nothing.    *)
Wanted == Post \in 0..(Size(Old) - 1)
          /\ j - New.begin \in 0..(Size(New) - 1) \ (verified[new] \cup New.unread)

Searching == pc = "search" /\ j < searchend
PlacesFound == IF Wanted THEN Places(Old, New, Post) ELSE {}

PassOver ==
  /\ Searching
  /\ PlacesFound = {}
  /\ j' = j + STRIDE
  /\ UNCHANGED <<drive, count, lists, settings, pc, older, searchend, merge, history>>

(* stage1_matched: what is flagged in block b of a run [from, to).  After  *)
(* a drift the run may lie outside of the block.                           *)
Marked(flags, b, from, to) ==
  flags \cup (Most(0, from + OVERLAP_ADJ)..(Least(Size(b), to - OVERLAP_ADJ) - 1))

(* Seeded fault: one match is enough.                                      *)
NextPost_Last(end) == searchend

NextPost(end) == Most(j, end - 1) + STRIDE

(* The offset found is counted before the run is marked, so that the run's *)
(* positions are of before a drift and the blocks' begins of after it.     *)
Match ==
  /\ Searching
  /\ \E b \in PlacesFound :
       LET offset == j - (b + New.begin)
           run == RunAt(Old, New, Post, b)
           one == Counted(stage1, offset)
           from == run.begin + Old.begin
           to == run.end + Old.begin
       IN  /\ Settle(one, stage2, IsTime(one))
           /\ blocks' = BlocksAfter(stage2, IsTime(one))
           /\ frags' = FragmentsAfter(stage2, IsTime(one))
           /\ verified' =
                [verified EXCEPT
                   ![older] = Marked(@, Old, from - blocks'[older].begin, to - blocks'[older].begin),
                   ![new] = Marked(@, New, from - offset - blocks'[new].begin,
                                         to - offset - blocks'[new].begin)]
           /\ j' = NextPost(to)
  /\ UNCHANGED <<drive, count, pc, older, searchend, merge>>

NextBlock ==
  /\ pc = "search" /\ j >= searchend
  /\ UNCHANGED <<drive, count, lists, settings, merge, history>>
  /\ LET Newer == {o \in Olds : o > older} IN
     IF Newer = {} THEN CutNext ELSE pc' = "search" /\ Compare(Min(Newer))

-----------------------------------------------------------------------------
(* new_v_fragment for the offsets [from, to) of the new block.             *)
FragmentOf(from, to, last) ==
  [one |-> new, at |-> from, size |-> to - from, begin |-> New.begin + from, last |-> last]

(* Where a stretch of the offsets S that begins at i ends.                 *)
StretchEnd(S, i) == Min({e \in (i + 1)..(Size(New) + 1) : e \notin S})
Starts(S) == {i \in S : i - 1 \notin S}

(* Seeded fault: widened by more than was trimmed.                         *)
VerifiedFragment_TooWide(from, to) ==
  FragmentOf(Most(0, from - OVERLAP_ADJ - 1), Least(Size(New), to + OVERLAP_ADJ + 1),
             to + OVERLAP_ADJ >= Size(New) /\ New.last)

(* Each stretch of verified samples, and what was trimmed of it.           *)
VerifiedFragment(from, to) ==
  FragmentOf(Most(0, from - OVERLAP_ADJ), Least(Size(New), to + OVERLAP_ADJ),
             to + OVERLAP_ADJ >= Size(New) /\ New.last)

(* With -Y every stretch between edges is taken for verified.              *)
OverlapFragment(from, to) == FragmentOf(from, to, New.last /\ to = Size(New))

Flagged == IF drive.verify THEN verified[new] ELSE (0..(Size(New) - 1)) \ New.edge

NewFragment(i) ==
  IF drive.verify THEN VerifiedFragment(i, StretchEnd(Flagged, i))
  ELSE OverlapFragment(i, StretchEnd(Flagged, i))

NewFragments == {NewFragment(i) : i \in Starts(Flagged)}

CutFragments ==
  /\ pc = "cut"
  /\ LET Keys == {new} \X Starts(Flagged) IN
     frags' = [p \in DOMAIN frags \cup Keys |-> IF p \in Keys THEN NewFragment(p[2]) ELSE frags[p]]
  /\ pc' = "idle"
  /\ UNCHANGED <<drive, count, blocks, verified, settings, search, merge, history>>

-----------------------------------------------------------------------------
(* Outside of stage 1.                                                     *)

(* Stage 2 finds a fragment in the root, displaced by d, and counts it in  *)
(* the search.                                                             *)
Stage2Match(k, d) ==
  /\ pc = "idle" /\ frags[k].one # Nowhere
  /\ LET one == Counted(stage1, -d) IN
     /\ Settle(one, stage2, IsTime(one))
     /\ blocks' = BlocksAfter(stage2, IsTime(one))
     /\ frags' = FragmentsAfter(stage2, IsTime(one))
  /\ merging' = k /\ found' = d
  /\ pc' = "merge"
  /\ UNCHANGED <<drive, count, verified, search>>

(* If the root grows, the displacement counts as one against the root.  A  *)
(* fragment that lost its block in the search has nothing to grow by.      *)
Stage2Merge(grows) ==
  /\ pc = "merge"
  /\ grows => frags[merging].one # Nowhere
  /\ LET two == IF grows THEN Counted(stage2, found) ELSE stage2
         time == grows /\ IsTime(two)
     IN  /\ Settle(stage1, two, time)
         /\ blocks' = BlocksAfter(two, time)
         /\ frags' = Restrict(FragmentsAfter(two, time), DOMAIN frags \ {merging})
  /\ merging' = NoFragment /\ found' = 0
  /\ pc' = "idle"
  /\ UNCHANGED <<drive, count, verified, search>>

(* recover_cache and i_paranoia_trim free blocks, and fragments with them. *)
FreeBlock(b) ==
  /\ pc = "idle"
  /\ blocks' = Restrict(blocks, DOMAIN blocks \ {b})
  /\ verified' = Restrict(verified, DOMAIN blocks')
  /\ frags' = RestrictValues(frags, LAMBDA f : f.one # b)
  /\ UNCHANGED <<drive, count, settings, pc, search, merge, history>>

(* Five rounds of paranoia_read_limited without progress.                  *)
Widen ==
  /\ pc = "idle" /\ stage1.points # -1 /\ dynoverlap < MAX_OVERLAP
  /\ dynoverlap' = Least(MAX_OVERLAP, (dynoverlap * 3) \div 2)
  /\ UNCHANGED <<drive, count, lists, stage1, stage2, dyndrift, pc, search, merge, history>>

-----------------------------------------------------------------------------
Next ==
  \/ \E b \in drive.blocks : Read(b)
  \/ PassOver \/ Match \/ NextBlock \/ CutFragments
  \/ \E k \in DOMAIN frags, d \in drive.displaced : Stage2Match(k, d)
  \/ \E grows \in BOOLEAN : Stage2Merge(grows)
  \/ \E b \in DOMAIN blocks : FreeBlock(b)
  \/ Widen

Spec == Init /\ [][Next]_vars

-----------------------------------------------------------------------------
(* Offsets i and i + 1 of the new block lie in a run of samples, longer    *)
(* than a coincidence, that the older block o has as well, in which no two *)
(* of their requests meet and that both were read; where two requests meet *)
(* a run may begin.                                                        *)
Coincide(o, a, i, first) ==
  /\ Same(o, New, a, i)
  /\ IF first THEN BothEdge(o, New, a, i) \/ BothRead(o, New, a, i)
     ELSE BothRead(o, New, a, i) /\ ~BothEdge(o, New, a, i)

ConfirmedBy(o, i) ==
  \E from \in 0..i, to \in (i + 1)..(Size(New) - 1), a \in 0..(Size(o) - 1) :
    /\ to - from >= MIN_WORDS_SEARCH /\ a + to - from < Size(o)
    /\ \A k \in 0..(to - from) : Coincide(o, a + k, from + k, k = 0)

Confirmed(f) ==
  \A i \in f.at..(f.at + f.size - 2) : \E o \in Olds : ConfirmedBy(blocks[o], i)

(* What two reads did not both deliver, samples and their order, is not    *)
(* verified; unless blocks were moved while they were compared.            *)
VerifiedTwice ==
  pc = "cut" /\ drive.verify /\ ~moved => \A f \in NewFragments : Confirmed(f)

(* The same, wherever blocks are while they are compared.                  *)
VerifiedTwiceAlways ==
  pc = "cut" /\ drive.verify => \A f \in NewFragments : Confirmed(f)

-----------------------------------------------------------------------------
Disc == drive.disc
OnDisc(x) == \E from \in 0..(Len(Disc) - Len(x)) : x = Piece(Disc, from, from + Len(x))

(* A few samples in a row, and where they are not in a row on the disc.    *)
Few(x, i) == Piece(x.vec, i, i + TELLING)
Breaks(x) == {i \in 0..(Size(x) - TELLING) : ~OnDisc(Few(x, i))}

(* Reads go wrong alike only where a request ends in both.                 *)
Independent ==
  \A p, q \in DOMAIN blocks : p # q =>
    \A i \in Breaks(blocks[p]), k \in Breaks(blocks[q]) :
      Few(blocks[p], i) = Few(blocks[q], k) =>
        \E h \in 1..(TELLING - 1) : BothEdge(blocks[p], blocks[q], i + h, k + h)

OnlyBetweenRequests ==
  \A i \in Breaks(New) : (i..(i + TELLING - 1)) \cap New.edge # {}

(* A fragment is a piece of the audio, without a gap or a repetition; with *)
(* -Y one too short to tell is left out.                                   *)
FragmentIsDisc ==
  pc = "cut" /\ (IF drive.verify THEN Independent /\ ~moved ELSE OnlyBetweenRequests) =>
    \A f \in NewFragments :
      drive.verify \/ f.size >= TELLING => OnDisc(Piece(New.vec, f.at, f.at + f.size))

(* Where the new block agrees with an older one, at the same position and  *)
(* for longer than a coincidence, something of it is verified.             *)
Unrepeated(x) == \A i, k \in 0..(Size(x) - 1) : Sample(x, i) = Sample(x, k) => i = k

Agreeing(o, i) ==
  LET a == New.begin + i - o.begin IN
  a \in 0..(Size(o) - 1) /\ Same(o, New, a, i) /\ BothRead(o, New, a, i)
    /\ ~BothEdge(o, New, a, i)

AgreementFound ==
  pc = "cut" /\ drive.verify /\ ~moved /\ Unrepeated(New) =>
    \A o \in Olds, from \in 0..(Size(New) - 1) :
      from + MIN_WORDS_SEARCH < Size(New)
        /\ (\A i \in from..(from + MIN_WORDS_SEARCH) : Agreeing(blocks[o], i)) =>
        verified[new] \cap (from..(from + MIN_WORDS_SEARCH)) # {}

(* A fragment stays where its block is, however both are moved, as long as *)
(* none has lost its block; those behind one that has are not moved.       *)
FragmentsInPlace ==
  ~lost => \A k \in DOMAIN frags :
             /\ frags[k].one # Nowhere
             /\ frags[k].begin = blocks[frags[k].one].begin + frags[k].at

=============================================================================
