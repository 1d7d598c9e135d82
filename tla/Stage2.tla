------------------------------- MODULE Stage2 -------------------------------
(***************************************************************************)
(* i_stage2 of paranoia.c, sample by sample: verified fragments, which     *)
(* stage 1 cut out of the blocks read, are merged into the verified root,  *)
(* and the root is what paranoia_read returns sectors from.  A fragment is *)
(* matched where it shares a run of samples with the root; where the run   *)
(* stops both ways the rift is analysed and repaired, and what the         *)
(* fragment has beyond the root is appended.  Silence, where every run     *)
(* matches every other, is merged by position instead.                     *)
(*                                                                         *)
(* A position is an absolute sample number, an offset counts from the      *)
(* start of a vector.  What stage 1 may deliver is a constant: the drive.  *)
(* Every match is counted, and if the fragments turn out to be displaced   *)
(* on average they are moved, in the middle of whatever counted last: a    *)
(* drift.  The counts are Stage1's; here a drift is a choice.              *)
(***************************************************************************)
EXTENDS Rifts

CONSTANTS
  MIN_WORDS_SEARCH,     (* a run is a match if it is longer               *)
  MIN_SILENCE_BOUNDARY, (* silence that is long enough to matter          *)
  STRIDE,               (* 23: distance between the posts of a search     *)
  WINDOW,               (* 256: samples of the fragment searched for      *)
  DYNOVERLAP,           (* p->dynoverlap                                  *)
  MARGIN,               (* MAX_SECTOR_OVERLAP sectors                     *)
  JIGGLE,               (* how far a block may begin before its target    *)
  SECTOR,               (* CD_FRAMEWORDS                                  *)
  Drives,               (* what a drive may deliver, see Drive            *)
  MaxFragments          (* bound of the model: fragments ever delivered   *)

ASSUME Stage2Assumption ==
  /\ MIN_WORDS_SEARCH \in Nat /\ MIN_WORDS_RIFT <= MIN_WORDS_SEARCH
  /\ MIN_SILENCE_BOUNDARY \in Nat \ {0}
  /\ STRIDE \in Nat \ {0} /\ WINDOW \in Nat \ {0} /\ SECTOR \in Nat \ {0}
  /\ DYNOVERLAP \in Nat /\ MARGIN \in Nat \ {0} /\ JIGGLE \in Nat
  /\ MaxFragments \in Nat

Sample == Int
Fragment == [begin : Int, vec : Seq(Sample), last : BOOLEAN]

(* disc is the audio; the fragments are what stage 1 may verify of it; the *)
(* caller starts reading at first; a drift may be any of drifts.           *)
Drive == [disc : Seq(Sample), fragments : SUBSET Fragment, first : Nat,
          drifts : SUBSET (Int \ {0})]

ASSUME DriveAssumption == Drives \subseteq Drive

(* Stage 1 verifies no less than a match.                                  *)
ASSUME FragmentAssumption ==
  \A d \in Drives : \A f \in d.fragments : Len(f.vec) > MIN_WORDS_SEARCH

VARIABLES
  drive,         \* the drive that is read
  count,         \* fragments it has delivered
  frags,         \* p->fragments
  root,          \* rv and rb of the root, or NoRoot
  rootlast,      \* p->root.lastsector
  returnedlimit, \* p->root.returnedlimit
  silenceflag,   \* p->root.silenceflag
  silencebegin,  \* p->root.silencebegin
  pc,            \* where i_stage2 is; "idle" outside
  list,          \* list[]: the fragments when the pass began
  todo,          \* those of list not yet visited
  flag,          \* a fragment was merged in this pass
  v,             \* the fragment i_stage2_each is merging
  l,             \* its vector, repaired
  run,           \* begin and end: offsets in the root of the run that agrees
  offset,        \* what to add to an offset of the root to get one of l
  old,           \* history: the root's vector when the merge began
  upset,         \* history: what a drift in the search did to v: "none",
                 \* "moved", or "torn" from its block
  dyndrift,      \* p->dyndrift
  lost,          \* a fragment was left without its block (its one is NULL)
  misled         \* history: upset was "moved" in some merge

rootVars == <<root, rootlast, returnedlimit, silenceflag, silencebegin>>
mergeVars == <<v, l, run, offset, old, upset>>
driftVars == <<dyndrift, lost, misled>>
vars == <<drive, count, frags, rootVars, pc, list, todo, flag, mergeVars, driftVars>>

NoRoot == [begin |-> -1, vec |-> <<>>]
NoFragment == [begin |-> -1, vec |-> <<>>, last |-> FALSE]
NoRun == [begin |-> 0, end |-> 0]

End(x) == x.begin + Len(x.vec)
At(x, pos) == x.vec[pos - x.begin + 1]

Init ==
  /\ drive \in Drives
  /\ count = 0
  /\ frags = {}
  /\ root = NoRoot
  /\ rootlast = FALSE
  /\ returnedlimit = drive.first
  /\ silenceflag = FALSE
  /\ silencebegin = 0
  /\ pc = "idle"
  /\ list = {} /\ todo = {}
  /\ flag = FALSE
  /\ v = NoFragment /\ l = <<>> /\ run = NoRun /\ offset = 0 /\ old = <<>>
  /\ upset = "none"
  /\ dyndrift = 0 /\ lost = FALSE /\ misled = FALSE

-----------------------------------------------------------------------------
(* offset_add_value, and the drift it may find (offset_adjust_settings).   *)

NoDrift == [by |-> 0, moved |-> {}, torn |-> {}]

(* Fragments are moved from the head of their list on, up to one that lost *)
(* its block before; those that would begin before 0, or whose block       *)
(* would, lose it instead.                                                 *)
Drifts ==
  {NoDrift} \cup
  {d \in [by : drive.drifts, moved : SUBSET frags, torn : SUBSET frags] :
     /\ d.moved \cap d.torn = {}
     /\ lost \/ d.moved \cup d.torn = frags
     /\ \A f \in d.moved : f.begin >= d.by}

Moved(f, d) == IF f \in d.moved THEN [f EXCEPT !.begin = @ - d.by] ELSE f

(* The fragments of S that still have their block.                         *)
After(S, d) == {Moved(f, d) : f \in S \ d.torn}

(* What is read from now on is shifted as well.                            *)
DriftBy(d) ==
  /\ d \in Drifts
  /\ dyndrift' = dyndrift + d.by
  /\ lost' = (lost \/ d.torn # {})

(* The fragments when d is done, without those that were used up.          *)
Left(d, used) ==
  /\ frags' = After(frags \ used, d)
  /\ list' = After(list, d)
  /\ todo' = After(todo \ used, d)

-----------------------------------------------------------------------------
(* Outside: stage 1 verifies a fragment, and the caller is given a sector. *)

(* The root does not hold the sector wanted and the margin after it.       *)
Wanting == \/ root = NoRoot
           \/ root.begin > returnedlimit
           \/ End(root) < returnedlimit + SECTOR + MARGIN

(* A root that reaches the end of the session is padded with zeros         *)
(* (i_end_case, ParanoiaRead!PadEnd), nothing more is read or merged.      *)
AtEnd == root # NoRoot /\ rootlast

(* i_read_c_block reads from an overlap before what is missing.            *)
Target == (IF root = NoRoot \/ root.begin > returnedlimit THEN returnedlimit ELSE End(root))
            - DYNOVERLAP

(* It reads from where the drift so far puts that, to the nearest sector,  *)
(* and the block is taken back by the drift.                               *)
Rounding == IF dyndrift = 0 THEN 0 ELSE SECTOR \div 2

(* Stage 1 counts its matches, too.                                        *)
Verify(f, d) ==
  /\ pc = "idle" /\ Wanting /\ ~AtEnd
  /\ count < MaxFragments
  /\ f.begin - dyndrift >= Target - JIGGLE - Rounding
  /\ count' = count + 1
  /\ DriftBy(d)
  /\ frags' = After(frags, d) \cup {[f EXCEPT !.begin = @ - dyndrift']}
  /\ UNCHANGED <<drive, rootVars, pc, list, todo, flag, mergeVars, misled>>

ReturnSector ==
  /\ pc = "idle" /\ ~Wanting
  /\ returnedlimit' = returnedlimit + SECTOR
  /\ UNCHANGED <<drive, count, frags, root, rootlast, silenceflag, silencebegin,
                 pc, list, todo, flag, mergeVars, driftVars>>

Forgotten == returnedlimit - MARGIN

(* i_paranoia_trim forgets what is more than the margin behind the sector  *)
(* wanted.  That it never frees the root is ParanoiaRead!RootKept.         *)
Trimmed ==
  IF root = NoRoot \/ Forgotten <= root.begin THEN root
  ELSE [begin |-> Forgotten, vec |-> Remove(root.vec, 0, Forgotten - root.begin)]

(* A block that far behind takes its fragments with it; it may reach       *)
(* further than they do.                                                   *)
Behind == IF root = NoRoot THEN {} ELSE {f \in frags : End(f) < Forgotten}

(* i_paranoia_trim, then i_stage2 lists the fragments that are left.       *)
StartStage2 ==
  /\ pc = "idle" /\ Wanting /\ ~AtEnd
  /\ frags # {}
  /\ root' = Trimmed
  /\ \E gone \in SUBSET Behind : frags' = frags \ gone
  /\ pc' = "pass"
  /\ list' = frags' /\ todo' = frags'
  /\ flag' = FALSE
  /\ UNCHANGED <<drive, count, rootlast, returnedlimit, silenceflag,
                 silencebegin, mergeVars, driftVars>>

(* qsort leaves the order of fragments with one begin open, and after it a *)
(* drift may move some and not others.                                     *)
Lowest(f) == f \in todo /\ (lost \/ \A g \in todo : f.begin <= g.begin)

Free(f) == frags' = frags \ {f}
Visited(f) == todo' = todo \ {f}

-----------------------------------------------------------------------------
(* i_silence_test: the flag is lit if all of the root, or long enough an   *)
(* end of it, is silence; it is not put out.  The last sample is not       *)
(* looked at.                                                              *)
SilenceTest(r, lit, from) ==
  LET end == Len(r.vec) - 1
      Heard == {j \in 0..(end - 1) : r.vec[j + 1] # 0}
      j == IF Heard = {} THEN -1 ELSE Max(Heard)
  IN  IF j < 0 \/ end - j > MIN_SILENCE_BOUNDARY
        THEN /\ silenceflag' = TRUE
             /\ silencebegin' = Most(r.begin + j + 1, returnedlimit)
        ELSE /\ silenceflag' = lit
             /\ silencebegin' = from

(* i_init_root: the lowest fragment that holds the wanted position.        *)
InitRoot(f) ==
  /\ pc = "pass" /\ root = NoRoot
  /\ Lowest(f)
  /\ f.begin <= returnedlimit /\ returnedlimit < End(f)
  /\ root' = [begin |-> f.begin, vec |-> f.vec]
  /\ rootlast' = f.last
  /\ SilenceTest(root', silenceflag, silencebegin)
  /\ flag' = TRUE
  /\ Free(f) /\ Visited(f)
  /\ UNCHANGED <<drive, count, returnedlimit, pc, mergeVars, driftVars, list>>

PassBy(f) ==
  /\ pc = "pass" /\ root = NoRoot
  /\ Lowest(f)
  /\ ~(f.begin <= returnedlimit /\ returnedlimit < End(f))
  /\ Visited(f)
  /\ UNCHANGED <<drive, count, frags, rootVars, pc, flag, mergeVars, driftVars, list>>

-----------------------------------------------------------------------------
(* i_iterate_stage2: the first run that is long enough.                    *)

(* The positions of f that are searched: from its first sound on, or from  *)
(* what may overlap the root, and no more than WINDOW.                     *)
FirstSound(f) ==
  LET Sounds == {i \in Most(f.begin, root.begin - DYNOVERLAP)..(End(f) - 1) : At(f, i) # 0}
  IN  IF Sounds = {} THEN End(f) ELSE Min(Sounds)

WindowEnd(f) ==
  Least(Least(FirstSound(f) + WINDOW, End(root) + DYNOVERLAP), End(f))

(* try_sort_sync tries the same position first, then those of the window   *)
(* that lie within dynoverlap of it, where the fragment holds the sample.  *)
PlacesFor(f, post) ==
  LET off == Most(0, Least(Len(f.vec), post - f.begin)) IN
  {i \in FirstSound(f)..(WindowEnd(f) - 1) :
     /\ i - f.begin >= off - DYNOVERLAP /\ i - f.begin < off + DYNOVERLAP
     /\ At(f, i) = At(root, post)}

RunAt(f, post, i) == Overlap(root.vec, f.vec, post - root.begin, i - f.begin)

IsMatch(r) == r.end - r.begin > MIN_WORDS_SEARCH

SamePlaceFits(f, post) ==
  /\ post \in f.begin..(End(f) - 1)
  /\ At(f, post) = At(root, post)
  /\ IsMatch(RunAt(f, post, post))

Fits(f, post) == {i \in PlacesFor(f, post) : IsMatch(RunAt(f, post, i))}

PlaceFound(f, post) ==
  IF SamePlaceFits(f, post) THEN {post}
  ELSE IF Fits(f, post) = {} THEN {} ELSE {Min(Fits(f, post))}

SearchEnd(f) == Least(WindowEnd(f) + DYNOVERLAP, End(root))

(* The posts: every STRIDE positions of the root, moved on to a sound.     *)
NextPost(f, from) ==
  LET Sounds == {j \in from..(SearchEnd(f) - 1) : At(root, j) # 0}
  IN  IF Sounds = {} THEN SearchEnd(f) ELSE Min(Sounds)

(* The fragment may overlap the root and is not all silence.               *)
Comparable(f) ==
  /\ Most(f.begin - DYNOVERLAP, root.begin) < Least(End(f) + DYNOVERLAP, End(root))
  /\ FirstSound(f) < End(f)

(* The first post from a position of the root on that a place of the       *)
(* fragment fits; offsets of the root are searched.                        *)
FirstPost(f, from) ==
  LET search[k \in Nat] ==
        IF root.begin + k >= SearchEnd(f) THEN {}
        ELSE UNION {IF post = SearchEnd(f) THEN {}
                    ELSE IF PlaceFound(f, post) # {} THEN {post}
                    ELSE search[post - root.begin + STRIDE] :
                    post \in {NextPost(f, root.begin + k)}}
  IN  search[from - root.begin] \cap {j \in root.begin..(End(root) - 1) : At(root, j) # 0}

(* The post and the place that fits it, or nothing.                        *)
MatchFound(f) ==
  IF Comparable(f)
    THEN UNION {{post} \X PlaceFound(f, post) :
                post \in FirstPost(f, Most(FirstSound(f) - DYNOVERLAP, root.begin))}
    ELSE {}

(* A match m was found, and is counted before the search returns.  If f is *)
(* moved by that the offset is taken from where f is now, though the match *)
(* is where f was; if f loses its block it is merged without one.          *)
BeginMerge(f, m, d) ==
  /\ pc = "pass" /\ root # NoRoot
  /\ Lowest(f)
  /\ DriftBy(d) /\ Left([d EXCEPT !.torn = @ \ {f}], {})
  /\ v' = Moved(f, d)
  /\ run' = RunAt(f, m[1], m[2])
  /\ offset' = (m[2] - v'.begin) - (m[1] - root.begin)
  /\ l' = f.vec
  /\ old' = root.vec
  /\ upset' = IF f \in d.moved THEN "moved" ELSE IF f \in d.torn THEN "torn" ELSE "none"
  /\ misled' = (misled \/ f \in d.moved)
  /\ pc' = "leading"
  /\ UNCHANGED <<drive, count, rootVars, flag>>

(* Seeded fault: silence is no excuse.                                     *)
NoMatch_InSilence(f) ==
  /\ pc = "pass" /\ root # NoRoot
  /\ Lowest(f)
  /\ MatchFound(f) = {}
  /\ IF End(f) + (DYNOVERLAP \div 2) * 2 < End(root) THEN Free(f) ELSE UNCHANGED frags
  /\ Visited(f)
  /\ UNCHANGED <<drive, count, rootVars, pc, flag, mergeVars, driftVars, list>>

(* No match.  A fragment that should have had one is freed, unless silence *)
(* is in the way.                                                          *)
NoMatch(f) ==
  /\ pc = "pass" /\ root # NoRoot
  /\ Lowest(f)
  /\ MatchFound(f) = {}
  /\ IF End(f) + (DYNOVERLAP \div 2) * 2 < End(root) /\ ~silenceflag
       THEN Free(f) ELSE UNCHANGED frags
  /\ Visited(f)
  /\ UNCHANGED <<drive, count, rootVars, pc, flag, mergeVars, driftVars, list>>

-----------------------------------------------------------------------------
(* Leading rifts, from the match backward.                                 *)

beginL == run.begin + offset
endL == run.end + offset
EdgePosition == root.begin + run.begin
EndPosition == root.begin + run.end

LeadingRift == pc = "leading" /\ run.begin > 0 /\ beginL > 0

(* After a drift in the search the edges may be where the vectors are not, *)
(* or v without a vector.  The analysis of a leading rift reads l from its *)
(* edge down, i_paranoia_overlap both vectors at the edges, when a repair  *)
(* has added a and b samples behind them.                                  *)
LeadingRead == upset # "torn" /\ beginL <= Len(l)

EdgesHeld(a, b) ==
  run.begin < Len(root.vec) + a /\ 0 <= beginL /\ beginL < Len(l) + b

LeadingRifts ==
  IF LeadingRift /\ LeadingRead THEN Analyze_r(root.vec, l, run.begin - 1, beginL - 1) ELSE {}

(* It is not repaired, because of its kind or because the caller was given *)
(* those samples.                                                          *)
LeadingStays(m) ==
  \/ m = NoRift
  \/ m.a # 0 /\ EdgePosition + Least(m.a, 0) < returnedlimit
  \/ m.c # 0 /\ EdgePosition - m.c < returnedlimit

(* How far the run now reaches, given the edge and the offset.             *)
Extended(A, B, edge, off) == Overlap(A, B, edge, edge + off)

(* Samples were dropped from the root or repeat in it.                     *)
LeadingInRoot(m) ==
  /\ m \in LeadingRifts /\ EdgesHeld(0, 0) /\ m.a # 0
  /\ EdgePosition + Least(m.a, 0) >= returnedlimit
  /\ root' = [root EXCEPT !.vec =
                 IF m.a > 0 THEN Insert(@, run.begin, Piece(l, beginL - m.a, beginL))
                 ELSE Remove(@, run.begin + m.a, -m.a)]
  /\ offset' = offset - m.a
  /\ run' = Extended(root'.vec, l, run.begin + m.a, offset')
  /\ UNCHANGED <<drive, count, frags, rootlast, returnedlimit, silenceflag,
                 silencebegin, pc, list, todo, flag, v, l, old,
                 upset, driftVars>>

(* Seeded fault: the offset is not adjusted to the repair.                 *)
LeadingInFragment_OldOffset(m) ==
  /\ m \in LeadingRifts /\ EdgesHeld(0, 0) /\ m.b # 0
  /\ l' = IF m.b > 0
            THEN Insert(l, beginL, Piece(root.vec, run.begin - m.b, run.begin))
            ELSE Remove(l, beginL + m.b, -m.b)
  /\ run' = Extended(root.vec, l', run.begin, offset)
  /\ UNCHANGED <<drive, count, frags, rootVars, pc, list, todo, flag, v, offset, old,
                 upset, driftVars>>

(* Samples were dropped from the fragment or repeat in it.                 *)
LeadingInFragment(m) ==
  /\ m \in LeadingRifts /\ EdgesHeld(0, 0) /\ m.b # 0
  /\ l' = IF m.b > 0
            THEN Insert(l, beginL, Piece(root.vec, run.begin - m.b, run.begin))
            ELSE Remove(l, beginL + m.b, -m.b)
  /\ offset' = offset + m.b
  /\ run' = Extended(root.vec, l', run.begin, offset')
  /\ UNCHANGED <<drive, count, frags, rootVars, pc, list, todo, flag, v, old,
                 upset, driftVars>>

(* Seeded fault: only the edge of the rift is compared with the limit.     *)
LeadingGarbage_EdgeOnly(m) ==
  /\ m \in LeadingRifts /\ EdgesHeld(0, 0) /\ m.c # 0
  /\ EdgePosition >= returnedlimit
  /\ root' = [root EXCEPT !.vec =
                 Overwrite(@, run.begin - m.c, Piece(l, beginL - m.c, beginL))]
  /\ run' = Extended(root'.vec, l, run.begin, offset)
  /\ UNCHANGED <<drive, count, frags, rootlast, returnedlimit, silenceflag,
                 silencebegin, pc, list, todo, flag, v, l, offset, old,
                 upset, driftVars>>

(* The samples just differ: the fragment is believed.                      *)
LeadingGarbage(m) ==
  /\ m \in LeadingRifts /\ EdgesHeld(0, 0) /\ m.c # 0
  /\ EdgePosition - m.c >= returnedlimit
  /\ root' = [root EXCEPT !.vec =
                 Overwrite(@, run.begin - m.c, Piece(l, beginL - m.c, beginL))]
  /\ run' = Extended(root'.vec, l, run.begin, offset)
  /\ UNCHANGED <<drive, count, frags, rootlast, returnedlimit, silenceflag,
                 silencebegin, pc, list, todo, flag, v, l, offset, old,
                 upset, driftVars>>

(* No leading rift is left, or one that stays.                             *)
EndLeading(m) ==
  /\ pc = "leading"
  /\ LeadingRift => m \in LeadingRifts /\ LeadingStays(m)
  /\ ~LeadingRift => m = NoRift
  /\ pc' = "trailing"
  /\ UNCHANGED <<drive, count, frags, rootVars, list, todo, flag, mergeVars, driftVars>>

-----------------------------------------------------------------------------
(* Trailing rifts, from the match forward.                                 *)

TrailingRift == pc = "trailing" /\ run.end < Len(root.vec) /\ endL < Len(l)

TrailingRead == upset # "torn" /\ 0 <= endL

TrailingRifts ==
  IF TrailingRift /\ TrailingRead THEN Analyze_f(root.vec, l, run.end, endL) ELSE {}

EndReturned == EndPosition < returnedlimit

TrailingStays(m) == (m.a # 0 \/ m.c # 0) /\ EndReturned

(* The run is extended from its beginning, which stays.                    *)
Reaches(A, B) == [run EXCEPT !.end = Extended(A, B, run.begin, offset).end]

TrailingInRoot(m) ==
  /\ m \in TrailingRifts /\ EdgesHeld(m.a, m.b) /\ m.a # 0
  /\ ~EndReturned
  /\ root' = [root EXCEPT !.vec =
                 IF m.a > 0 THEN Insert(@, run.end, Piece(l, endL, endL + m.a))
                 ELSE Remove(@, run.end, -m.a)]
  /\ run' = Reaches(root'.vec, l)
  /\ UNCHANGED <<drive, count, frags, rootlast, returnedlimit, silenceflag,
                 silencebegin, pc, list, todo, flag, v, l, offset, old,
                 upset, driftVars>>

TrailingInFragment(m) ==
  /\ m \in TrailingRifts /\ EdgesHeld(m.a, m.b) /\ m.b # 0
  /\ l' = IF m.b > 0 THEN Insert(l, endL, Piece(root.vec, run.end, run.end + m.b))
          ELSE Remove(l, endL, -m.b)
  /\ run' = Reaches(root.vec, l')
  /\ UNCHANGED <<drive, count, frags, rootVars, pc, list, todo, flag, v, offset, old,
                 upset, driftVars>>

TrailingGarbage(m) ==
  /\ m \in TrailingRifts /\ EdgesHeld(m.a, m.b) /\ m.c # 0
  /\ ~EndReturned
  /\ root' = [root EXCEPT !.vec = Overwrite(@, run.end, Piece(l, endL, endL + m.c))]
  /\ run' = Reaches(root'.vec, l)
  /\ UNCHANGED <<drive, count, frags, rootlast, returnedlimit, silenceflag,
                 silencebegin, pc, list, todo, flag, v, l, offset, old,
                 upset, driftVars>>

Unexplained == NoRift \in TrailingRifts

(* What the root has from the rift on is silence: it is taken for garbage. *)
CutRootSilence ==
  /\ Unexplained
  /\ Silent_f(root.vec, run.end)
  /\ root' = IF EndReturned THEN root ELSE [root EXCEPT !.vec = Cut(@, run.end)]
  /\ pc' = "glom"
  /\ UNCHANGED <<drive, count, frags, rootlast, returnedlimit, silenceflag,
                 silencebegin, list, todo, flag, mergeVars, driftVars>>

(* v is used up.                                                           *)
Merged ==
  /\ flag' = TRUE
  /\ v' = NoFragment /\ l' = <<>> /\ run' = NoRun /\ offset' = 0 /\ old' = <<>>
  /\ upset' = "none"
  /\ pc' = "pass"

(* What the fragment has is silence: nothing of it is wanted.              *)
DropFragmentSilence ==
  /\ Unexplained
  /\ ~Silent_f(root.vec, run.end) /\ Silent_f(l, endL)
  /\ Merged /\ Free(v) /\ Visited(v)
  /\ UNCHANGED <<drive, count, rootVars, list, driftVars>>

EndTrailing(m) ==
  /\ pc = "trailing"
  /\ TrailingRift =>
       /\ m \in TrailingRifts
       /\ \/ m = NoRift /\ ~Silent_f(root.vec, run.end) /\ ~Silent_f(l, endL)
          \/ TrailingStays(m)
  /\ ~TrailingRift => m = NoRift
  /\ pc' = "glom"
  /\ UNCHANGED <<drive, count, frags, rootVars, list, todo, flag, mergeVars, driftVars>>

-----------------------------------------------------------------------------
(* What the fragment has beyond the root is appended where the run ends.   *)

(* Seeded fault: the samples that agree are appended again.                *)
Glommed_Repeats == [root EXCEPT !.vec = Cut(@, run.end) \o Piece(l, beginL, Len(l))]

Extends == Len(l) - offset > Len(root.vec) \/ v.last

Glommed == [root EXCEPT !.vec = Cut(@, run.end) \o Piece(l, endL, Len(l))]

(* What is appended lies in the vector; without one it must be nothing.    *)
TailHeld == endL = Len(l) \/ (upset # "torn" /\ endL \in 0..Len(l))

Glom(d) ==
  /\ pc = "glom" /\ Extends /\ TailHeld
  /\ root' = Glommed
  /\ rootlast' = (rootlast \/ v.last)
  /\ SilenceTest(Glommed, silenceflag, silencebegin)
  /\ Merged
  /\ DriftBy(d) /\ Left(d, {v})
  /\ UNCHANGED <<drive, count, returnedlimit, misled>>

NoGrowth ==
  /\ pc = "glom" /\ ~Extends
  /\ Merged /\ Free(v) /\ Visited(v)
  /\ UNCHANGED <<drive, count, rootVars, list, driftVars>>

-----------------------------------------------------------------------------
(* After a drift in the search the merge may read, or copy, what is not in *)
(* the vectors.  That is undefined, and nothing is said of what follows.   *)

LeadingAstray ==
  /\ LeadingRift
  /\ LeadingRead => ~EdgesHeld(0, 0) /\ \E m \in LeadingRifts : ~LeadingStays(m)

TrailingAstray ==
  /\ TrailingRift
  /\ TrailingRead =>
       \E m \in TrailingRifts \ {NoRift} : ~TrailingStays(m) /\ ~EdgesHeld(m.a, m.b)

GlomAstray == pc = "glom" /\ Extends /\ ~TailHeld

GoAstray ==
  /\ LeadingAstray \/ TrailingAstray \/ GlomAstray
  /\ pc' = "undefined"
  /\ UNCHANGED <<drive, count, frags, rootVars, list, todo, flag, mergeVars, driftVars>>

-----------------------------------------------------------------------------
(* Another pass over the fragments that are left, or the return.           *)
NextPass(again) ==
  /\ pc' = IF again /\ frags # {} THEN "pass" ELSE "idle"
  /\ list' = IF again THEN frags ELSE {}
  /\ todo' = list'

(* The fragments of the pass once more, to be matched by their silence.    *)
SilencePass ==
  /\ pc' = "silence"
  /\ todo' = list
  /\ UNCHANGED list

(* Seeded fault: the flag is not reset before the next pass.               *)
EndPass_KeepsFlag ==
  /\ pc = "pass" /\ todo = {}
  /\ IF ~flag /\ silenceflag /\ root # NoRoot THEN SilencePass ELSE NextPass(flag)
  /\ UNCHANGED <<drive, count, frags, rootVars, flag, mergeVars, driftVars>>

EndPass ==
  /\ pc = "pass" /\ todo = {}
  /\ IF ~flag /\ silenceflag /\ root # NoRoot THEN SilencePass ELSE NextPass(flag)
  /\ flag' = FALSE
  /\ UNCHANGED <<drive, count, frags, rootVars, mergeVars, driftVars>>

(* i_silence_match.                                                        *)

Sound(f) == LET Sounds == {i \in f.begin..(End(f) - 1) : At(f, i) # 0}
            IN  IF Sounds = {} THEN End(f) ELSE Min(Sounds)

LeadingSilence(f) == Sound(f) - f.begin

(* The root is silent as far as a fragment that may be displaced to it.    *)
Stretched(f) ==
  IF f.begin >= End(root) /\ f.begin - DYNOVERLAP < End(root)
    THEN [root EXCEPT !.vec = @ \o [i \in 1..(f.begin + MIN_SILENCE_BOUNDARY - End(root)) |-> 0]]
    ELSE root

FromOn(f, pos) == Piece(f.vec, pos - f.begin, Len(f.vec))
CutAt(r, pos) == Cut(r.vec, pos - r.begin)

SilenceBegins(f) == Most(f.begin, silencebegin)

(* Seeded fault: the root keeps its silence.                               *)
Superimposed_Uncut(f, r) ==
  IF End(f) > End(r) THEN [r EXCEPT !.vec = @ \o FromOn(f, SilenceBegins(f))] ELSE r

(* Their silences overlap: no jitter is assumed.                           *)
Superimposed(f, r) ==
  IF End(f) > End(r)
    THEN [r EXCEPT !.vec = CutAt(r, SilenceBegins(f)) \o FromOn(f, SilenceBegins(f))]
    ELSE r

(* The fragment's sound comes before the root's silence: it is moved up.   *)
Spliced(f, r) ==
  IF SilenceBegins(f) + (End(f) - Sound(f)) > End(r)
    THEN [r EXCEPT !.vec = CutAt(r, silencebegin) \o FromOn(f, Sound(f))]
    ELSE r

SilenceOverlaps(f) == SilenceBegins(f) < Least(Sound(f), End(Stretched(f)))

SilenceMatch(f, d) ==
  /\ pc = "silence"
  /\ Lowest(f)
  /\ LeadingSilence(f) >= MIN_SILENCE_BOUNDARY
  /\ SilenceOverlaps(f) \/ Sound(f) < SilenceBegins(f)
  /\ root' = IF SilenceOverlaps(f) THEN Superimposed(f, Stretched(f))
             ELSE Spliced(f, Stretched(f))
  /\ rootlast' = (rootlast \/ f.last)
  /\ SilenceTest(root', FALSE, silencebegin)
  /\ flag' = TRUE
  /\ DriftBy(d) /\ Left(d, {f})
  /\ UNCHANGED <<drive, count, returnedlimit, pc, mergeVars, misled>>

NoSilenceMatch(f) ==
  /\ pc = "silence"
  /\ Lowest(f)
  /\ \/ LeadingSilence(f) < MIN_SILENCE_BOUNDARY
     \/ ~SilenceOverlaps(f) /\ Sound(f) >= SilenceBegins(f)
  /\ root' = IF LeadingSilence(f) < MIN_SILENCE_BOUNDARY THEN root ELSE Stretched(f)
  /\ Visited(f)
  /\ UNCHANGED <<drive, count, frags, rootlast, returnedlimit, silenceflag,
                 silencebegin, pc, flag, mergeVars, driftVars, list>>

EndSilence ==
  /\ pc = "silence" /\ todo = {}
  /\ NextPass(flag)
  /\ flag' = FALSE
  /\ UNCHANGED <<drive, count, frags, rootVars, mergeVars, driftVars>>

-----------------------------------------------------------------------------
LeadingStep ==
  \E m \in LeadingRifts \cup {NoRift} :
    LeadingInRoot(m) \/ LeadingInFragment(m) \/ LeadingGarbage(m) \/ EndLeading(m)

TrailingStep ==
  \/ \E m \in TrailingRifts \cup {NoRift} :
       TrailingInRoot(m) \/ TrailingInFragment(m) \/ TrailingGarbage(m) \/ EndTrailing(m)
  \/ CutRootSilence \/ DropFragmentSilence

VisitStep ==
  \E f \in {g \in todo : Lowest(g)} :
    \/ InitRoot(f) \/ PassBy(f)
    \/ \E d \in Drifts, m \in MatchFound(f) : BeginMerge(f, m, d)
    \/ NoMatch(f)

SilenceStep ==
  EndSilence \/ \E f \in todo : NoSilenceMatch(f) \/ \E d \in Drifts : SilenceMatch(f, d)

Step ==
  \/ pc = "pass" /\ VisitStep
  \/ EndPass
  \/ pc = "silence" /\ SilenceStep
  \/ pc = "leading" /\ LeadingStep
  \/ pc = "trailing" /\ TrailingStep
  \/ NoGrowth
  \/ pc = "glom" /\ \E d \in Drifts : Glom(d)
  \/ GoAstray

Next ==
  \/ \E f \in drive.fragments : \E d \in Drifts : Verify(f, d)
  \/ ReturnSector \/ StartStage2
  \/ Step

Spec == Init /\ [][Next]_vars
FairSpec == Spec /\ WF_vars(Step)

-----------------------------------------------------------------------------
Merging == pc \in {"leading", "trailing", "glom"}

(* While a fragment is merged, and whatever was inserted into or removed   *)
(* from either vector, the run lies in both and they agree over it: the    *)
(* next rift is looked for where there is one (paranoia.c 1264-1470).  Not *)
(* so if the search itself moved the fragment (paranoia.c 358, 386, 1206). *)
RunAgrees ==
  Merging /\ upset # "moved" =>
    /\ 0 <= run.begin /\ run.begin < run.end /\ run.end <= Len(root.vec)
    /\ 0 <= beginL /\ endL <= Len(l)
    /\ Agree(root.vec, l, run.begin, beginL, run.end - run.begin)

(* Samples of two roots that have the same positions below a limit.        *)
SameBelow(r, s, limit) ==
  \A pos \in Most(r.begin, s.begin)..(Least(Least(End(r), End(s)), limit) - 1) :
    At(r, pos) = At(s, pos)

Repairing == pc \in {"leading", "trailing"}

(* No repair of a rift changes, moves or removes a sample that the caller  *)
(* was already given (the returnedlimit checks of i_stage2_each).  The     *)
(* glom that follows does: it cuts the root where the run ends.            *)
RepairsSpareReturned ==
  [][Repairing =>
       /\ SameBelow(root, root', returnedlimit)
       /\ End(root') >= Least(End(root), returnedlimit)]_vars

(* No pass visits a fragment that was freed in it: list[] holds pointers,  *)
(* and free_v_fragment gives the memory back.                              *)
VisitsLive == todo \subseteq frags

-----------------------------------------------------------------------------
(* What merging makes of the audio.                                        *)

Disc == drive.disc
PieceOfDisc(x, from) == from >= 0 /\ from + Len(x) <= Len(Disc) /\ x = Piece(Disc, from, from + Len(x))

(* Fragments that are where they say they are; the last one is the end.    *)
Exact ==
  \A f \in drive.fragments : PieceOfDisc(f.vec, f.begin) /\ (f.last => End(f) = Len(Disc))
Clean == \A f \in drive.fragments : \E from \in 0..Len(Disc) : PieceOfDisc(f.vec, from)
Distinct == \A i, j \in 1..Len(Disc) : Disc[i] = Disc[j] => i = j
Musical == Distinct /\ \A i \in 1..Len(Disc) : Disc[i] # 0

(* Sounds can be told apart, and all silence is in one place.              *)
OneSilence ==
  \A i, j \in 1..Len(Disc) : Disc[i] = Disc[j] =>
    i = j \/ \A k \in i..j : Disc[k] = 0

(* What is read once more reaches no further back than what the root       *)
(* keeps: so it is while dynoverlap is MARGIN at most, as in               *)
(* offset_adjust_settings, but paranoia_overlapset takes more.             *)
OverlapKept == DYNOVERLAP + JIGGLE <= 2 * MARGIN

(* No average is ever so far off that fragments are moved.                 *)
Undrifting == drive.drifts = {}

(* From fragments that are where they say they are the root is the audio   *)
(* at its position, silence and all.  With a second silence it need not    *)
(* be: the flag that the first one lit still burns when a fragment begins  *)
(* with the second, just beyond the root, and the sound between them is    *)
(* taken for silence (i_silence_test never puts silenceflag out).          *)
RootIsDisc ==
  OverlapKept /\ Undrifting /\ Exact /\ OneSilence /\ root # NoRoot =>
    PieceOfDisc(root.vec, root.begin)

(* From fragments that are displaced but whole the root is the audio       *)
(* without a gap or a repetition, if there is no silence in it, through    *)
(* any drift but one that moves a fragment between its match and its merge *)
(* (paranoia.c 386 and 1206): that merge leaves out or repeats the drift.  *)
RootIsWhole ==
  Musical /\ Clean /\ ~misled /\ root # NoRoot =>
    \E from \in 0..Len(Disc) : PieceOfDisc(root.vec, from)

Follows(x, y) == \E i \in 1..(Len(Disc) - 1) : x = Disc[i] /\ y = Disc[i + 1]
Breaks(x) == {i \in 1..(Len(x) - 1) : ~Follows(x[i], x[i + 1])}
PlaceOf(s) == CHOOSE i \in 1..Len(Disc) : Disc[i] = s
OnDisc(s) == \E i \in 1..Len(Disc) : Disc[i] = s

Holds(x, from, to) ==
  /\ 1 <= from /\ to <= Len(Disc)
  /\ \E k \in 0..(Len(x) - (to - from + 1)) : \A i \in from..to : x[k + 1 + i - from] = Disc[i]

(* The audio on both sides of a break of x, which must be sound in x, is   *)
(* whole in y, so far that the two can be told to agree again.             *)
Mendable(x, y) ==
  \A i \in Breaks(x) :
    /\ OnDisc(x[i]) /\ OnDisc(x[i + 1])
    /\ LET from == Least(PlaceOf(x[i]), PlaceOf(x[i + 1]))
           to == Most(PlaceOf(x[i]), PlaceOf(x[i + 1]))
           size == IF x[i + 1] = Disc[to] THEN to - from - 1 ELSE to - from + 1
           flank == MIN_WORDS_RIFT + size
       IN  /\ i >= flank /\ Len(x) - i >= flank
           /\ \A j \in Breaks(x) : j = i \/ j - i >= flank \/ i - j >= flank
           /\ Holds(y, from - flank + 1, to + flank - 1)

(* Samples that were dropped from the root or the fragment, or repeat in   *)
(* them, are put right where the other has them right and nothing was      *)
(* returned: when the rifts are done there is none left, and the run,      *)
(* which is all that root and fragment share, is the audio without a gap.  *)
MergeHeals ==
  pc = "glom" /\ upset # "moved" /\ Musical /\ returnedlimit <= root.begin
    /\ Mendable(old, v.vec) /\ Mendable(v.vec, old) =>
    /\ run.begin = 0 \/ beginL = 0
    /\ run.end = Len(root.vec) \/ endL = Len(l)
    /\ Breaks(Piece(root.vec, run.begin, run.end)) = {}

(* A call of i_stage2 ends: every repair moves the edge on, every pass     *)
(* uses a fragment up (the loops of i_stage2_each and i_stage2).           *)
MergeEnds == pc # "idle" ~> pc \in {"idle", "undefined"}

=============================================================================
