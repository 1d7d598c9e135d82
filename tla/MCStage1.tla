------------------------------ MODULE MCStage1 ------------------------------
(* Drives for Stage1: sets of blocks that show each way two reads differ.  *)
EXTENDS Stage1

Music == [i \in 1..22 |-> i]
Refrain == [i \in 1..22 |-> IF i = 12 THEN 8 ELSE i]

(* A block is the answers to its requests, one after the other.  Where two *)
(* meet, MIN_WORDS_OVERLAP samples are edges.                              *)
Zone(at) == (at - MIN_WORDS_OVERLAP \div 2)..(at + MIN_WORDS_OVERLAP \div 2 - 1)

Pair(begin, first, second, last) ==
  [begin |-> begin, vec |-> first \o second, edge |-> Zone(Len(first)), unread |-> {},
   last |-> last]

Whole(d, from, to) ==
  Pair(from, Piece(d, from, from + 8), Piece(d, from + 8, to), to = Len(d))

(* The second request begins k samples late, or early.                     *)
Skipped(d, from, to, k) ==
  Pair(from, Piece(d, from, from + 8), Piece(d, from + 8 + k, to), FALSE)

(* k samples are lost at pos, of the first request or the second.          *)
Dropped(d, from, to, pos, k) ==
  LET b == Whole(d, from, to) IN
  [b EXCEPT !.vec = Piece(@, 0, pos) \o Piece(@, pos + k, Len(@))]

Garbled(d, from, to, pos, with) ==
  [Whole(d, from, to) EXCEPT !.vec[pos + 1] = with]

Missing(d, from, to, pos) ==
  [Whole(d, from, to) EXCEPT
     !.vec = [i \in 1..Len(@) |-> IF i > pos THEN 0 ELSE @[i]],
     !.unread = pos..(to - from - 1)]

Displaced(b, k) == [b EXCEPT !.begin = @ + k]

Faithful ==
  [disc |-> Music, verify |-> TRUE, displaced |-> {3}, most |-> 3,
   blocks |-> {Whole(Music, 3, 19), Whole(Music, 6, 22)}]

(* Requests that begin late or early, at the same place or another.        *)
Gapped ==
  [disc |-> Music, verify |-> TRUE, displaced |-> {}, most |-> 3,
   blocks |-> UNION {{Whole(Music, p[1], p[2]), Skipped(Music, p[1], p[2], 1),
                      Skipped(Music, p[1], p[2], -1)} : p \in {<<0, 16>>, <<3, 19>>}}]

(* Samples are lost, wrong or missing, and blocks displaced.               *)
Faulty ==
  [disc |-> Music, verify |-> TRUE, displaced |-> {}, most |-> 3,
   blocks |-> {Dropped(Music, 0, 18, 5, 1), Dropped(Music, 0, 18, 12, 2),
               Garbled(Music, 3, 19, 9, 90), Missing(Music, 0, 18, 11),
               Missing(Music, 3, 19, 14), Displaced(Whole(Music, 0, 16), 3),
               Displaced(Dropped(Music, 0, 18, 6, 1), -2)}]

(* The first request is one sample short, where the audio is silent and    *)
(* requests of another block meet.                                         *)
Silence == [i \in 1..22 |-> IF i = 10 THEN 0 ELSE i]
Short ==
  [disc |-> Silence, verify |-> TRUE, displaced |-> {}, most |-> 2,
   blocks |-> {Whole(Silence, 0, 16),
               [Displaced(Whole(Silence, 2, 18), -2) EXCEPT !.unread = {7}]}]

(* A sample that comes again may match by coincidence.                     *)
Repeating ==
  [disc |-> Refrain, verify |-> TRUE, displaced |-> {}, most |-> 3,
   blocks |-> {Whole(Refrain, 0, 16), Whole(Refrain, 3, 19), Whole(Refrain, 6, 22),
               Dropped(Refrain, 0, 20, 8, 4), Dropped(Refrain, 3, 22, 5, 4)}]

(* Only overlapped, not verified.                                          *)
Overlapped ==
  [disc |-> Music, verify |-> FALSE, displaced |-> {}, most |-> 3,
   blocks |-> {Whole(Music, 3, 19), Skipped(Music, 3, 19, 1), Whole(Music, 6, 22),
               Missing(Music, 0, 16, 10)}]

(* The drive's idea of where it is moves away from the root's.             *)
Sliding ==
  [disc |-> Music, verify |-> TRUE, displaced |-> {3}, most |-> 4,
   blocks |-> {Whole(Music, 3, 19)}]

OnlySliding == {Sliding}
AllDrives == {Faithful, Gapped, Faulty, Short, Repeating, Overlapped, Sliding}
=============================================================================
