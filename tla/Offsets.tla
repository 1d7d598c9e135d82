------------------------------- MODULE Offsets -------------------------------
(***************************************************************************)
(* The statistics of overlap.c: how far reads are displaced against each   *)
(* other (stage 1) and against the root (stage 2).  The first decide how   *)
(* far a match is searched for, the second tell a drive that drifts.       *)
(***************************************************************************)
EXTENDS Integers

CONSTANTS
  POINTS,               (* 10: offsets that make up statistics            *)
  OLD_POINTS,           (* 600: more than these are toned down            *)
  MIN_SECTOR_EPSILON,   (* least dynoverlap, unit of drift                *)
  MAX_OVERLAP           (* MAX_SECTOR_OVERLAP sectors: most dynoverlap    *)

ASSUME OffsetsAssumption ==
  /\ POINTS \in Nat \ {0} /\ OLD_POINTS \in Nat
  /\ MIN_SECTOR_EPSILON \in Nat \ {0}
  /\ MAX_OVERLAP \in Nat /\ MIN_SECTOR_EPSILON <= MAX_OVERLAP

Magnitude(a) == IF a < 0 THEN -a ELSE a
Larger(a, b) == IF a < b THEN b ELSE a
Smaller(a, b) == IF a < b THEN a ELSE b

(* The division of C, which rounds towards zero.                           *)
Quotient(a, b) == IF a < 0 THEN -((-a) \div b) ELSE a \div b

NoOffsets == [points |-> 0, new |-> 0, accum |-> 0, diff |-> 0, min |-> 0, max |-> 0]

(* paranoia_overlapset: the overlap is given, nothing is counted.          *)
Off == [NoOffsets EXCEPT !.points = -1]

(* offset_add_value, and whether it is time to adjust the settings.        *)
Counted(o, value) ==
  IF o.points = -1 THEN o
  ELSE [points |-> o.points + 1, new |-> o.new + 1,
        accum |-> o.accum + value, diff |-> o.diff + Magnitude(value),
        min |-> Smaller(o.min, value), max |-> Larger(o.max, value)]

IsTime(o) == o.points # -1 /\ o.new >= POINTS

(* offset_adjust_settings.  The drive drifts if fragments are displaced    *)
(* against the root by more than a quarter of the overlap on average.      *)
Average(o) == Quotient(o.accum, o.points)

Drifts(o, dynoverlap) ==
  o.points >= POINTS /\ Magnitude(Average(o)) > dynoverlap \div 4

Drift(o) == Quotient(Average(o), MIN_SECTOR_EPSILON) * MIN_SECTOR_EPSILON

(* Three times the average jitter, and half as much again as the largest   *)
(* of late, within bounds.                                                 *)
Overlapping(o) ==
  LET wide == Larger(Quotient(o.diff, o.points) * 3,
                     Larger((-o.min * 3) \div 2, (o.max * 3) \div 2))
  IN  Smaller(MAX_OVERLAP, Larger(MIN_SECTOR_EPSILON, wide))

TonedDown(n) == Quotient(n * 5, 6)

Rested(o) ==
  LET r == [o EXCEPT !.min = 0, !.max = 0, !.new = 0] IN
  IF o.points > OLD_POINTS
    THEN [r EXCEPT !.points = TonedDown(@), !.accum = TonedDown(@), !.diff = TonedDown(@)]
    ELSE r

=============================================================================
