------------------------------ MODULE MCStage2 ------------------------------
(* Drives for Stage2: sets of fragments that show each way a merge can go. *)
EXTENDS Stage2

Music == [i \in 1..14 |-> i]
Song == [i \in 1..16 |-> i]
Quiet == <<1, 2, 3, 4, 5, 0, 0, 0, 0, 0, 0, 12, 13, 14, 15, 16, 17>>
Fading == [i \in 1..18 |-> IF i <= 5 THEN i ELSE 0]

Named(d, from, to, vec) == [begin |-> from, vec |-> vec, last |-> to = Len(d)]

Whole(d, from, to) == Named(d, from, to, Piece(d, from, to))

(* At a position k samples are lost, come again, or are wrong, or from     *)
(* there on there is only silence.                                         *)
Dropping(d, from, to, pos, k) ==
  Named(d, from, to, Piece(d, from, pos) \o Piece(d, pos + k, to))
Stuttering(d, from, to, pos, k) ==
  Named(d, from, to, Piece(d, from, pos) \o Piece(d, pos - k, to))
Garbling(d, from, to, pos, k) ==
  Named(d, from, to, Piece(d, from, pos) \o [i \in 1..k |-> 90 + i] \o Piece(d, pos + k, to))
Silenced(d, from, to, pos) ==
  Named(d, from, to, Piece(d, from, pos) \o [i \in 1..(to - pos) |-> 0])

(* It says it begins j samples later than it does.                         *)
Displaced(f, j) == [f EXCEPT !.begin = @ + j]

(* Displaced, else whole.                                                  *)
Jittery ==
  [disc |-> Music, first |-> 2, drifts |-> {},
   fragments |-> {Whole(Music, 0, 8)}
     \cup {Displaced(Whole(Music, p[1], p[2]), j) :
             p \in {<<2, 9>>, <<4, 11>>, <<6, 14>>}, j \in {-1, 0, 2}}]

(* Where it says, with silence in the middle.                              *)
Silent ==
  [disc |-> Quiet, first |-> 2, drifts |-> {},
   fragments |-> {Whole(Quiet, from, to) : from \in {0, 2, 5, 7}, to \in {11, 13, 17}}]

(* The lowest fragment hardly overlaps the root, which fades to silence.   *)
Hushed ==
  [disc |-> Fading, first |-> 5, drifts |-> {},
   fragments |-> {Whole(Fading, p[1], p[2]) : p \in {<<0, 5>>, <<2, 10>>, <<7, 16>>}}]

(* Displaced, with silence in the middle.                                  *)
Drifting ==
  [disc |-> Quiet, first |-> 0, drifts |-> {},
   fragments |-> {Whole(Quiet, 0, 10)}
     \cup {Displaced(Whole(Quiet, p[1], p[2]), p[3]) :
             p \in {<<3, 11, 0>>, <<3, 11, 3>>, <<6, 14, 0>>, <<6, 14, 4>>,
                    <<7, 17, -7>>, <<7, 17, 0>>, <<7, 17, 4>>}}]

(* Samples are lost or come again.                                         *)
Skipping ==
  [disc |-> Song, first |-> 0, drifts |-> {},
   fragments |-> {Whole(Song, 0, 10), Whole(Song, 0, 14)}
     \cup {Dropping(Song, 0, 14, pos, k) : pos \in {3, 9}, k \in {1, 2}}
     \cup {Stuttering(Song, 0, 13, pos, k) : pos \in {3, 9}, k \in {1, 2}}]

(* Samples are wrong or lost, or the drive gives up and pads with silence, *)
(* and the next block is displaced so far that it is seen too late.        *)
Garbled ==
  [disc |-> Music, first |-> 0, drifts |-> {},
   fragments |-> {Whole(Music, 0, 9), Silenced(Music, 1, 12, 6), Silenced(Music, 0, 11, 5),
                  Dropping(Music, 0, 11, 3, 1)}
     \cup {Garbling(Music, 0, 11, pos, k) : pos \in {3, 6}, k \in {1, 2}}
     \cup {Displaced(f, 4) : f \in {Whole(Music, 0, 12), Garbling(Music, 0, 13, 3, 1),
                                    Garbling(Music, 0, 13, 5, 1), Dropping(Music, 0, 14, 4, 1),
                                    Silenced(Music, 0, 9, 5)}}]

(* Displaced on average, so that what was verified is moved.               *)
Wandering(by, f) ==
  [disc |-> Song, first |-> 1, fragments |-> {Whole(Song, 0, 9), f}, drifts |-> {by}]

Wanderers ==
  {Wandering(by, Displaced(Whole(Song, 2, 12), 2)) : by \in {-2, 2, 4}}
    \cup {Wandering(1, Displaced(Dropping(Song, 0, 14, 4, 1), 1))}

AllDrives == {Jittery, Silent, Hushed, Drifting, Skipping, Garbled} \cup Wanderers
=============================================================================
