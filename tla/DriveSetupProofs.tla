-------------------------- MODULE DriveSetupProofs --------------------------
(***************************************************************************)
(* Proofs about the opening of a drive, for every set of drives: whatever  *)
(* it takes, refuses and lists, an obedient one is read in the mode and    *)
(* with the command that were tried, is put back in its mode, and is given *)
(* up only after every command was tried.                                  *)
(***************************************************************************)
EXTENDS DriveSetup, WellFoundedInduction, TLAPS

Ways == {"Dummy", "scsi"}

TypeInv ==
  /\ drive \in Drives
  /\ enable_cdda \in Ways /\ expected[2] \in Ways
  /\ read_audio # "" /\ expected[3] # ""
  /\ trial \in Nat /\ track \in Nat
  /\ endian \in BOOLEAN

(* The drive is in its own mode until it is asked for it, and that is the  *)
(* mode it is put back to, if it told.                                     *)
ModeInv ==
  /\ pc \in {"new", "sense"} => mode = drive.mode
  /\ original = Unknown \/ original = drive.mode
  /\ ModeRestored

(* While a command is tried, a drive that has to be switched is.           *)
TrialInv ==
  Obedient /\ pc \in {"expected", "trial"} /\ enable_cdda = "scsi" =>
    mode = AudioMode /\ AudioMode \in drive.accepts

(* What was proven: the command that is chosen, in the mode the drive is   *)
(* in or will be switched to.                                              *)
InForce ==
  /\ proven = [command |-> read_audio, mode |-> proven.mode]
  /\ IsFull(read_audio, proven.mode)
  /\ IF enable_cdda = "Dummy" THEN mode = proven.mode
     ELSE proven.mode = AudioMode /\ AudioMode \in drive.accepts

ProvenInv ==
  Obedient /\ opened =>
    /\ pc \in {"cache", "check", "endian", "last"} => InForce
    /\ pc \in {"last", "open"} /\ drive.starts => endian
    /\ pc = "open" /\ drive.starts => proven = [command |-> read_audio, mode |-> mode]

Inv == TypeInv /\ ModeInv /\ TrialInv /\ ProvenInv

-----------------------------------------------------------------------------
(* Operators.                                                              *)

(* The components of a drive that the proofs look into.                    *)
LEMMA DriveFacts ==
  ASSUME NEW d \in Drives
  PROVE  /\ d.exception.enable \in {"", "Dummy", "scsi"}
         /\ d.atapi \in BOOLEAN /\ d.mmc \in BOOLEAN /\ d.exception.endian \in BOOLEAN
         /\ d.moody \in BOOLEAN /\ d.starts \in BOOLEAN
         /\ d.tracks \in Seq(Tracks)
<1>1. d \in Drive
  BY DriveAssumption
<1> QED BY <1>1 DEF Drive

(* An obedient drive takes the modes it accepts, and no other; one that is *)
(* not switched stays in its mode.                                         *)
LEMMA Switching ==
  ASSUME NEW now, NEW m, NEW s \in Switched(now, m)
  PROVE  /\ enable_cdda = "Dummy" => s.mode = now /\ s.ok
         /\ Obedient /\ enable_cdda # "Dummy" /\ m \in drive.accepts => s.mode = m /\ s.ok
         /\ Obedient /\ enable_cdda # "Dummy" /\ m \notin drive.accepts => s.mode = now /\ ~s.ok
<1>1. CASE enable_cdda = "Dummy"
  BY <1>1 DEF Switched
<1>2. CASE enable_cdda # "Dummy"
  <2>1. s \in Selected(now, m)
    BY <1>2 DEF Switched
  <2>2. \/ m \in drive.accepts /\ s = [mode |-> m, ok |-> TRUE]
        \/ s = [mode |-> now, ok |-> FALSE] /\ (drive.moody \/ m \notin drive.accepts)
    BY <2>1 DEF Selected
  <2> QED BY <1>2, <2>2 DEF Obedient
<1> QED BY <1>1, <1>2

(* A command that fails leaves the drive as it is meant to be.             *)
LEMMA Failing ==
  ASSUME NEW m \in AfterFailure
  PROVE  /\ enable_cdda = "Dummy" => m = mode
         /\ Obedient /\ enable_cdda # "Dummy" /\ AudioMode \in drive.accepts =>
              m = mode \/ m = AudioMode
<1>1. m = mode \/ \E d \in Disabled(mode) : \E e \in Enabled(d.mode) : m = e.mode
  BY DEF AfterFailure
<1>2. ASSUME NEW d \in Disabled(mode), NEW e \in Enabled(d.mode), m = e.mode
      PROVE  /\ enable_cdda = "Dummy" => m = mode
             /\ Obedient /\ enable_cdda # "Dummy" /\ AudioMode \in drive.accepts => m = AudioMode
  BY <1>2, Switching DEF Enabled, Disabled
<1> QED BY <1>1, <1>2

-----------------------------------------------------------------------------
(* The trials of the probe.                                                *)

(* u is s followed by t.                                                   *)
Joins(u, s, t) ==
  /\ Len(s) \in Nat /\ Len(t) \in Nat /\ Len(u) = Len(s) + Len(t)
  /\ \A i \in 1..Len(s) : u[i] = s[i]
  /\ \A i \in 1..Len(t) : u[Len(s) + i] = t[i]
  /\ \A i \in 1..Len(u) :
       i \in 1..Len(s) \/ (i - Len(s) \in 1..Len(t) /\ u[i] = t[i - Len(s)])

\* Two lists of trials joined hold both, in their order.
LEMMA Joined ==
  ASSUME NEW X, NEW s \in Seq(X), NEW t \in Seq(X)
  PROVE  s \o t \in Seq(X) /\ Joins(s \o t, s, t)
BY DEF Joins

Occurs(s, t) == \A i \in 1..Len(s) : \E j \in 1..Len(t) : t[j] = s[i]

\* Each of two lists occurs in the join.
LEMMA JoinedOccur ==
  ASSUME NEW s, NEW t, NEW u, Joins(u, s, t)
  PROVE  Occurs(s, u) /\ Occurs(t, u)
<1>1. ASSUME NEW i \in 1..Len(s) PROVE i \in 1..Len(u) /\ u[i] = s[i]
  BY DEF Joins
<1>2. ASSUME NEW i \in 1..Len(t) PROVE Len(s) + i \in 1..Len(u) /\ u[Len(s) + i] = t[i]
  BY DEF Joins
<1> QED BY <1>1, <1>2 DEF Occurs

(* The commands that are tried without and with a density.                 *)
LEMMA CommandsAre ==
  ASSUME NEW enable \in Ways
  PROVE  /\ CommandsFor(enable) \in Seq(Commands) /\ Len(CommandsFor(enable)) \in Nat \ {0}
         /\ enable = "Dummy" =>
              \A c \in Commands \ {"cooked"} :
                \E i \in 1..Len(CommandsFor(enable)) : CommandsFor(enable)[i] = c
         /\ \A c \in Others : \E i \in 1..Len(CommandsFor(enable)) : CommandsFor(enable)[i] = c
<1> DEFINE first == <<"28", "A8">>
           middle == IF enable = "Dummy" THEN Undensed ELSE <<"D4_10">>
           start == first \o middle
<1>1. first \in Seq(Commands) /\ Len(first) = 2 /\ first[1] = "28" /\ first[2] = "A8"
  BY DEF Commands, Others
<1>2. /\ Undensed \in Seq(Commands) /\ Len(Undensed) = 9
      /\ Undensed[1] = "mmcB" /\ Undensed[2] = "mmc2B" /\ Undensed[3] = "mmc3B"
      /\ Undensed[4] = "mmc" /\ Undensed[5] = "mmc2" /\ Undensed[6] = "mmc3"
      /\ Undensed[7] = "msf" /\ Undensed[8] = "msf2" /\ Undensed[9] = "msf3"
  BY DEF Undensed, Commands, MMC, MSF
<1>3. /\ Rest \in Seq(Commands) /\ Len(Rest) = 4
      /\ Rest[1] = "D4_10" /\ Rest[2] = "D4_12" /\ Rest[3] = "D5" /\ Rest[4] = "D8"
  BY DEF Rest, Commands, Others
<1>4. middle \in Seq(Commands)
  <2>1. <<"D4_10">> \in Seq(Commands)
    BY DEF Commands, Others
  <2> QED BY <2>1, <1>2
<1>5. enable = "Dummy" => middle = Undensed
  OBVIOUS
<1>6. CommandsFor(enable) = start \o Rest
  BY DEF CommandsFor
<1> HIDE DEF first, middle
<1>7. start \in Seq(Commands) /\ Joins(start, first, middle)
  BY <1>1, <1>4, Joined
<1> HIDE DEF start
<1>8. CommandsFor(enable) \in Seq(Commands) /\ Joins(CommandsFor(enable), start, Rest)
  BY <1>3, <1>6, <1>7, Joined
<1> DEFINE Has(c) == \E i \in 1..Len(CommandsFor(enable)) : CommandsFor(enable)[i] = c
<1>9. /\ \A i \in 1..Len(first) : Has(first[i])
      /\ \A i \in 1..Len(middle) : Has(middle[i])
      /\ \A i \in 1..Len(Rest) : Has(Rest[i])
  <2>1. Occurs(first, start) /\ Occurs(middle, start)
          /\ Occurs(start, CommandsFor(enable)) /\ Occurs(Rest, CommandsFor(enable))
    BY <1>7, <1>8, JoinedOccur
  <2> QED BY <2>1 DEF Occurs
<1>10. Len(CommandsFor(enable)) \in Nat \ {0}
  BY <1>3, <1>8 DEF Joins
<1> HIDE DEF Has
<1>11. Has("28") /\ Has("A8")
  BY <1>1, <1>9
<1>12. Has("D4_10") /\ Has("D4_12") /\ Has("D5") /\ Has("D8")
  BY <1>3, <1>9
<1>13. enable = "Dummy" => \A c \in MMC \cup MSF : Has(c)
  <2> SUFFICES ASSUME enable = "Dummy" PROVE \A c \in MMC \cup MSF : Has(c)
    OBVIOUS
  <2>1. \A i \in 1..9 : Has(Undensed[i])
    BY <1>2, <1>5, <1>9
  <2>2. 1 \in 1..9 /\ 2 \in 1..9 /\ 3 \in 1..9 /\ 4 \in 1..9 /\ 5 \in 1..9 /\ 6 \in 1..9
          /\ 7 \in 1..9 /\ 8 \in 1..9 /\ 9 \in 1..9
    OBVIOUS
  <2> QED BY <2>1, <2>2, <1>2 DEF MMC, MSF
<1>14. \A c \in Others : Has(c)
  BY <1>11, <1>12 DEF Others
<1>15. enable = "Dummy" => \A c \in Commands \ {"cooked"} : Has(c)
  BY <1>13, <1>14 DEF Commands
<1> QED BY <1>8, <1>10, <1>14, <1>15 DEF Has

Trial == [density : {0, 4, 129, 130}, enable : Ways, command : Commands]

(* One density: its trials, in the order of the commands.                  *)
LEMMA RowIs ==
  ASSUME NEW d \in {0, 4, 129, 130}, NEW enable \in Ways
  PROVE  /\ Row(d, enable) \in Seq(Trial) /\ Len(Row(d, enable)) \in Nat \ {0}
         /\ \A i \in 1..Len(Row(d, enable)) : Row(d, enable)[i].enable = enable
         /\ \A c \in Commands :
              (c \in Others \/ (enable = "Dummy" /\ c # "cooked")) =>
                \E i \in 1..Len(Row(d, enable)) :
                  Row(d, enable)[i] = [density |-> d, enable |-> enable, command |-> c]
<1> DEFINE cs == CommandsFor(enable)
           row == [i \in 1..Len(cs) |-> [density |-> d, enable |-> enable, command |-> cs[i]]]
<1>1. cs \in Seq(Commands) /\ Len(cs) \in Nat \ {0}
  BY CommandsAre
<1>2. \A c \in Commands : (c \in Others \/ (enable = "Dummy" /\ c # "cooked")) =>
        \E i \in 1..Len(cs) : cs[i] = c
  BY CommandsAre
<1>3. Row(d, enable) = [i \in DOMAIN cs |-> [density |-> d, enable |-> enable, command |-> cs[i]]]
  BY DEF Row
<1> HIDE DEF cs
<1>4. DOMAIN cs = 1..Len(cs) /\ \A i \in 1..Len(cs) : cs[i] \in Commands
  BY <1>1
<1>5. row \in [1..Len(cs) -> Trial]
  BY <1>4 DEF Trial
<1>6. row \in Seq(Trial) /\ Len(row) = Len(cs)
  BY <1>1, <1>5
<1>7. Row(d, enable) = row
  BY <1>3, <1>4
<1>8. \A i \in 1..Len(cs) : row[i] = [density |-> d, enable |-> enable, command |-> cs[i]]
  OBVIOUS
<1>9. \A i \in 1..Len(row) : row[i].enable = enable
  <2>1. \A i \in 1..Len(cs) : row[i].enable = enable
    OBVIOUS
  <2> QED BY <2>1, <1>6
<1> HIDE DEF row
<1>10. \A c \in Commands : (c \in Others \/ (enable = "Dummy" /\ c # "cooked")) =>
         \E i \in 1..Len(row) : row[i] = [density |-> d, enable |-> enable, command |-> c]
  BY <1>2, <1>6, <1>8
<1> QED BY <1>1, <1>6, <1>7, <1>9, <1>10

(* The first n trials leave the drive alone, the others switch it.         *)
Ordered(s, n) ==
  /\ s \in Seq(Trial) /\ Len(s) \in Nat /\ n \in 1..Len(s)
  /\ \A i \in 1..n : s[i].enable = "Dummy"
  /\ \A i \in (n + 1)..Len(s) : s[i].enable = "scsi"

Densed(s, d) ==
  \A c \in Others : \E j \in 1..Len(s) : s[j] = [density |-> d, enable |-> "scsi", command |-> c]

Undensified(s) ==
  \A c \in Commands \ {"cooked"} : \E j \in 1..Len(s) :
    s[j] = [density |-> 0, enable |-> "Dummy", command |-> c]

\* What a list tries is tried by every list it occurs in.
LEMMA OccurOn ==
  ASSUME NEW s, NEW t, Occurs(s, t)
  PROVE  /\ \A d : Densed(s, d) => Densed(t, d)
         /\ Undensified(s) => Undensified(t)
         /\ \A u : Occurs(t, u) => Occurs(s, u)
<1>1. ASSUME NEW x, \E j \in 1..Len(s) : s[j] = x PROVE \E j \in 1..Len(t) : t[j] = x
  BY <1>1 DEF Occurs
<1>2. ASSUME NEW u, Occurs(t, u) PROVE Occurs(s, u)
  BY <1>2 DEF Occurs
<1>3. ASSUME NEW d, Densed(s, d) PROVE Densed(t, d)
  BY <1>1, <1>3 DEF Densed
<1>4. ASSUME Undensified(s) PROVE Undensified(t)
  BY <1>1, <1>4 DEF Undensified
<1> QED BY <1>2, <1>3, <1>4

\* A row of the table keeps the order of densities and adds one of its own.
LEMMA RowAdded ==
  ASSUME NEW s, NEW n, Ordered(s, n), NEW d \in {0, 4, 129, 130}
  PROVE  LET t == s \o Row(d, "scsi") IN Ordered(t, n) /\ Occurs(s, t) /\ Densed(t, d)
<1> DEFINE row == Row(d, "scsi")
           t == s \o row
<1>1. row \in Seq(Trial) /\ \A i \in 1..Len(row) : row[i].enable = "scsi"
  BY RowIs DEF Ways
<1>2. Densed(row, d)
  <2>1. \A c \in Others : c \in Commands
    BY DEF Commands
  <2> QED BY <2>1, RowIs DEF Ways, Densed
<1>3. s \in Seq(Trial) /\ n \in 1..Len(s) /\ Len(s) \in Nat
  BY DEF Ordered
<1> HIDE DEF row
<1>4. t \in Seq(Trial) /\ Joins(t, s, row)
  BY <1>1, <1>3, Joined
<1> HIDE DEF t
<1>5. Occurs(s, t) /\ Densed(t, d)
  BY <1>2, <1>4, JoinedOccur, OccurOn
<1>6. Len(t) \in Nat /\ n \in 1..Len(t)
  BY <1>3, <1>4 DEF Joins
<1>7. \A i \in 1..n : t[i].enable = "Dummy"
  BY <1>3, <1>4 DEF Ordered, Joins
<1>8. \A i \in (n + 1)..Len(t) : t[i].enable = "scsi"
  <2> SUFFICES ASSUME NEW i \in (n + 1)..Len(t) PROVE t[i].enable = "scsi"
    OBVIOUS
  <2>1. i \in 1..Len(t)
    BY <1>3, <1>6
  <2>2. CASE i \in 1..Len(s)
    <3>1. t[i] = s[i] /\ i \in (n + 1)..Len(s)
      BY <2>2, <1>3, <1>4 DEF Joins
    <3> QED BY <3>1 DEF Ordered
  <2>3. CASE i - Len(s) \in 1..Len(row) /\ t[i] = row[i - Len(s)]
    BY <2>3, <1>1
  <2> QED BY <2>1, <2>2, <2>3, <1>4 DEF Joins
<1> QED BY <1>4, <1>5, <1>6, <1>7, <1>8 DEF Ordered, t, row

(* All of them: drives are not switched at first; every command is tried   *)
(* then, and those that may need a density again in every density.         *)
LEMMA TrialsAre ==
  /\ Trials \in Seq(Trial) /\ Len(Trials) \in Nat \ {0}
  /\ \A n \in 1..(Len(Trials) - 1) : Trials[n + 1].enable = "Dummy" => Trials[n].enable = "Dummy"
  /\ Undensified(Trials)
  /\ \A d \in {0, 4, 129, 130} : Densed(Trials, d)
<1> DEFINE s1 == Row(0, "Dummy")
           s2 == s1 \o Row(0, "scsi")
           s3 == s2 \o Row(4, "scsi")
           s4 == s3 \o Row(130, "scsi")
           s5 == s4 \o Row(129, "scsi")
<1>1. Trials = s5
  BY DEF Trials
<1>2. Undensified(s1)
  BY RowIs DEF Ways, Undensified
<1>3. PICK n \in Nat : Ordered(s1, n)
  <2>1. s1 \in Seq(Trial) /\ Len(s1) \in Nat \ {0}
    BY RowIs DEF Ways
  <2>2. \A i \in 1..Len(s1) : s1[i].enable = "Dummy"
    BY RowIs DEF Ways
  <2> HIDE DEF s1
  <2>3. Ordered(s1, Len(s1))
    BY <2>1, <2>2 DEF Ordered
  <2> QED BY <2>1, <2>3
<1> HIDE DEF s1
<1>4. Ordered(s2, n) /\ Occurs(s1, s2) /\ Densed(s2, 0)
  BY <1>3, RowAdded
<1> HIDE DEF s2
<1>5. Ordered(s3, n) /\ Occurs(s2, s3) /\ Densed(s3, 4)
  BY <1>4, RowAdded
<1> HIDE DEF s3
<1>6. Ordered(s4, n) /\ Occurs(s3, s4) /\ Densed(s4, 130)
  BY <1>5, RowAdded
<1> HIDE DEF s4
<1>7. Ordered(s5, n) /\ Occurs(s4, s5) /\ Densed(s5, 129)
  BY <1>6, RowAdded
<1> HIDE DEF s5
<1>8. Occurs(s3, s5) /\ Occurs(s2, s5) /\ Occurs(s1, s5)
  BY <1>4, <1>5, <1>6, <1>7, OccurOn
<1>9. Undensified(s5) /\ Densed(s5, 0) /\ Densed(s5, 4) /\ Densed(s5, 130)
  BY <1>2, <1>4, <1>5, <1>6, <1>7, <1>8, OccurOn
<1>10. s5 \in Seq(Trial) /\ Len(s5) \in Nat \ {0} /\ n \in 1..Len(s5)
  BY <1>7 DEF Ordered
<1>11. \A i \in 1..(Len(s5) - 1) : s5[i + 1].enable = "Dummy" => s5[i].enable = "Dummy"
  <2> SUFFICES ASSUME NEW i \in 1..(Len(s5) - 1), s5[i + 1].enable = "Dummy"
               PROVE  s5[i].enable = "Dummy"
    OBVIOUS
  <2>1. i + 1 \in 1..Len(s5)
    BY <1>10
  <2>2. ~(i + 1 \in (n + 1)..Len(s5))
    BY <1>7 DEF Ordered
  <2>3. i \in 1..n
    BY <2>1, <2>2, <1>10
  <2> QED BY <2>3, <1>7 DEF Ordered
<1> QED BY <1>1, <1>7, <1>9, <1>10, <1>11

-----------------------------------------------------------------------------
(* The tracks that are tried, from the first.                              *)

\* A set of naturals has a least element.
LEMMA LeastNat ==
  ASSUME NEW S \in SUBSET Nat, S # {}
  PROVE  \E x \in S : \A y \in S : x <= y
<1>1. PICK x \in S : \A y \in S : ~ (<<y, x>> \in OpToRel(<, Nat))
  BY NatLessThanWellFounded, WFMin
<1>2. \A y \in S : ~ (y < x)
  BY <1>1 DEF OpToRel
<1> QED BY <1>2

\* The track to try next is the first audio track behind the last one tried.
LEMMA NextAudioIs ==
  ASSUME NEW k \in Nat, drive \in Drives, AudioAfter(k) # {}
  PROVE  /\ NextAudio(k) \in AudioAfter(k) /\ NextAudio(k) \in Nat
         /\ \A t \in AudioAfter(k) : NextAudio(k) <= t
<1>1. Len(drive.tracks) \in Nat
  <2>1. drive.tracks \in Seq(Tracks)
    BY DriveFacts
  <2> QED BY <2>1
<1>2. AudioAfter(k) \in SUBSET Nat
  BY <1>1 DEF AudioAfter
<1>3. \E t \in AudioAfter(k) : \A u \in AudioAfter(k) : t <= u
  BY <1>2, LeastNat
<1> QED BY <1>2, <1>3 DEF NextAudio

-----------------------------------------------------------------------------
(* The invariant of opening a drive.                                       *)

\* The invariant holds before the drive is opened.
LEMMA InitInv == Init => Inv
<1> SUFFICES ASSUME Init PROVE Inv
  OBVIOUS
<1>1. pc = "new" /\ enable_cdda = "Dummy" /\ expected[2] = "Dummy" /\ read_audio = "D8"
        /\ expected[3] = "D8" /\ endian = FALSE /\ mode = drive.mode /\ drive \in Drives
        /\ original = Unknown /\ trial = 0 /\ track = 0
  BY DEF Init
<1> QED BY <1>1 DEF Inv, TypeInv, ModeInv, ModeRestored, TrialInv, ProvenInv, Ways

(* What a trial that is begun has, and where the last one leads.           *)
LEMMA TryNextIs ==
  ASSUME NEW n \in 1..Len(Trials), TryNext(n)
  PROVE  /\ enable_cdda' \in Ways /\ read_audio' # "" /\ trial' \in Nat /\ track' = 0
         /\ pc' = "enable" /\ trial' = n
         /\ enable_cdda' = Trials[n].enable /\ read_audio' = Trials[n].command
         /\ density' = Trials[n].density
<1>0. "" \notin Commands
  BY DEF Commands, MMC, MSF, Others
<1>1. Trials[n] \in Trial /\ Len(Trials) \in Nat
  BY TrialsAre
<1>2. /\ trial' = n /\ track' = 0 /\ pc' = "enable"
      /\ density' = Trials[n].density /\ enable_cdda' = Trials[n].enable
      /\ read_audio' = Trials[n].command
  BY DEF TryNext
<1>3. Trials[n].enable \in Ways /\ Trials[n].command \in Commands
  BY <1>1 DEF Trial
<1>4. n \in Nat /\ 0 \in Nat
  BY <1>1
<1> QED BY <1>0, <1>2, <1>3, <1>4

\* After a failed trial either the next one is begun or the probe has failed.
LEMMA NextTrialIs ==
  ASSUME TypeInv, NextTrial
  PROVE  \/ /\ trial + 1 \in 1..Len(Trials) /\ TryNext(trial + 1)
            /\ UNCHANGED result
         \/ /\ pc' = "failed" /\ result' = -6 /\ trial >= Len(Trials)
            /\ enable_cdda' = expected[2] /\ read_audio' = expected[3]
            /\ UNCHANGED <<trial, track>>
<1>1. Len(Trials) \in Nat /\ trial \in Nat
  BY TrialsAre DEF TypeInv
<1> QED BY <1>1 DEF NextTrial, Return

\* Either way the types hold.
LEMMA NextTrialTypes ==
  ASSUME TypeInv, NextTrial, UNCHANGED <<drive, endian, expected>>
  PROVE  TypeInv'
<1>1. CASE trial + 1 \in 1..Len(Trials) /\ TryNext(trial + 1)
  <2>1. enable_cdda' \in Ways /\ read_audio' # "" /\ trial' \in Nat /\ track' = 0
    BY <1>1, TryNextIs
  <2>2. track' \in Nat
    BY <2>1
  <2> QED BY <2>1, <2>2 DEF TypeInv
<1>2. CASE enable_cdda' = expected[2] /\ read_audio' = expected[3] /\ UNCHANGED <<trial, track>>
  BY <1>2 DEF TypeInv
<1> QED BY <1>1, <1>2, NextTrialIs

\* Every step keeps the types.
LEMMA StepType == TypeInv /\ [Next]_vars => TypeInv'
<1> SUFFICES ASSUME TypeInv, [Next]_vars PROVE TypeInv'
  OBVIOUS
<1>1. CASE ChooseDefaults
  <2>1. drive.exception.enable \in {"", "Dummy", "scsi"} /\ drive \in Drives
    BY DriveFacts DEF TypeInv
  <2>2. enable_cdda' \in Ways
    BY <1>1, <2>1 DEF ChooseDefaults, Ways
  <2>3. read_audio' # ""
    BY <1>1 DEF ChooseDefaults
  <2>4. endian' \in BOOLEAN
    BY <1>1 DEF ChooseDefaults
  <2> QED BY <1>1, <2>2, <2>3, <2>4 DEF ChooseDefaults, place, TypeInv
<1>2. CASE LearnMode \/ ReadToc \/ CheckToc \/ CheckCache \/ EnableForGood \/ Close
  BY <1>2 DEF LearnMode, ReadToc, CheckToc, CheckCache, EnableForGood, Close,
              settings, place, TypeInv
<1>3. CASE BeginVerify \/ ExpectedFailed \/ ProbeFound
  <2>1. UNCHANGED <<drive, settings, endian, trial, expected>>
    BY <1>3 DEF BeginVerify, ExpectedFailed, ProbeFound, place
  <2>2. track' \in {0, track}
    BY <1>3 DEF BeginVerify, ExpectedFailed, ProbeFound, place
  <2>3. track' \in Nat
    <3>1. track \in Nat
      BY DEF TypeInv
    <3> QED BY <2>2, <3>1
  <2> QED BY <2>1, <2>3 DEF settings, TypeInv
<1>4. CASE TryExpected \/ ProbeNextTrack
  <2>1. track' \in Nat
    BY <1>4, NextAudioIs DEF TryExpected, ProbeNextTrack, TypeInv
  <2> QED BY <1>4, <2>1 DEF TryExpected, ProbeNextTrack, settings, TypeInv
<1>5. CASE BeginProbe
  <2>1. 1 \in 1..Len(Trials)
    BY TrialsAre
  <2>2. UNCHANGED drive /\ expected' = settings /\ endian' = FALSE /\ TryNext(1)
    BY <1>5 DEF BeginProbe
  <2>3. expected'[2] = enable_cdda /\ expected'[3] = read_audio
    BY <2>2 DEF settings
  <2>4. enable_cdda' \in Ways /\ read_audio' # "" /\ trial' \in Nat /\ track' = 0
    BY <2>1, <2>2, TryNextIs
  <2>5. track' \in Nat
    BY <2>4
  <2> QED BY <2>2, <2>3, <2>4, <2>5 DEF TypeInv
<1>6. CASE EnableTrial
  <2>1. UNCHANGED <<drive, endian, expected>>
    BY <1>6 DEF EnableTrial
  <2>2. UNCHANGED <<settings, track, trial>> \/ NextTrial
    BY <1>6 DEF EnableTrial
  <2> QED BY <2>1, <2>2, NextTrialTypes DEF settings, TypeInv
<1>7. CASE ProbeFailed
  BY <1>7, NextTrialTypes DEF ProbeFailed
<1>8. CASE CheckEndian \/ ReadAudio
  <2>1. endian' \in BOOLEAN
    BY <1>8 DEF CheckEndian, ReadAudio, DetermineEndian, Determines, TypeInv
  <2> QED BY <1>8, <2>1 DEF CheckEndian, ReadAudio, settings, place, TypeInv
<1>9. CASE UNCHANGED vars
  BY <1>9 DEF vars, settings, place, TypeInv
<1> QED BY <1>1, <1>2, <1>3, <1>4, <1>5, <1>6, <1>7, <1>8, <1>9 DEF Next

(* The drive is itself until it is opened, learns its mode once, and goes  *)
(* back to it.                                                             *)
LEMMA StepMode == TypeInv /\ ModeInv /\ [Next]_vars => ModeInv'
<1> SUFFICES ASSUME TypeInv, ModeInv, [Next]_vars PROVE ModeInv'
  OBVIOUS
<1>1. UNCHANGED drive
  BY DEF Next, ChooseDefaults, LearnMode, ReadToc, BeginVerify, TryExpected, ExpectedFailed,
         BeginProbe, EnableTrial, ProbeFound, ProbeNextTrack, ProbeFailed, CheckCache, CheckToc,
         CheckEndian, EnableForGood, ReadAudio, Close, vars
<1>2. CASE ChooseDefaults
  BY <1>1, <1>2 DEF ChooseDefaults, ModeInv, ModeRestored
<1>3. CASE LearnMode
  BY <1>1, <1>3 DEF LearnMode, OriginalOf, ModeInv, ModeRestored
<1>4. CASE Close
  <2>1. pc' = "closed" /\ UNCHANGED <<enable_cdda, original, opened>>
    BY <1>4 DEF Close, settings
  <2>2. ASSUME opened, Obedient, drive.mode \in drive.accepts, original # Unknown,
               enable_cdda = "scsi"
        PROVE  mode' = drive.mode
    <3>1. PICK s \in Disabled(mode) : mode' = s.mode
      BY <1>4, <2>2 DEF Close
    <3>2. original = drive.mode
      BY <2>2 DEF ModeInv
    <3> QED BY <3>1, <3>2, <2>2, Switching DEF Disabled
  <2> QED BY <1>1, <2>1, <2>2 DEF ModeInv, ModeRestored, Obedient
<1>5. CASE UNCHANGED vars
  BY <1>5 DEF vars, settings, ModeInv, ModeRestored, Obedient
<1>6. CASE pc \notin {"new", "sense"} /\ pc' \notin {"new", "sense", "closed"} /\ UNCHANGED original
  BY <1>1, <1>6 DEF ModeInv, ModeRestored
<1>7. ASSUME NextTrial PROVE pc' \notin {"new", "sense", "closed"}
  BY <1>7, NextTrialIs, TryNextIs
<1>8. CASE ReadToc \/ BeginVerify \/ TryExpected \/ ExpectedFailed
  <2>1. pc' \notin {"new", "sense", "closed"} /\ pc \notin {"new", "sense"} /\ UNCHANGED original
    BY <1>8 DEF ReadToc, BeginVerify, TryExpected, ExpectedFailed, Return
  <2> QED BY <2>1, <1>6
<1>9. CASE BeginProbe \/ EnableTrial \/ ProbeFound \/ ProbeNextTrack \/ ProbeFailed
  <2>1. pc' \notin {"new", "sense", "closed"} /\ pc \notin {"new", "sense"} /\ UNCHANGED original
    BY <1>7, <1>9 DEF BeginProbe, EnableTrial, ProbeFound, ProbeNextTrack, ProbeFailed, TryNext
  <2> QED BY <2>1, <1>6
<1>10. CASE CheckCache \/ CheckToc \/ CheckEndian \/ EnableForGood \/ ReadAudio
  <2>1. pc' \notin {"new", "sense", "closed"} /\ pc \notin {"new", "sense"} /\ UNCHANGED original
    BY <1>10 DEF CheckCache, CheckToc, CheckEndian, EnableForGood, ReadAudio, Return
  <2> QED BY <2>1, <1>6
<1> QED BY <1>2, <1>3, <1>4, <1>5, <1>8, <1>9, <1>10 DEF Next

(* What is tried is tried in the mode of audio, or without switching.      *)
LEMMA StepTrial == TypeInv /\ TrialInv /\ [Next]_vars => TrialInv'
<1> SUFFICES ASSUME TypeInv, TrialInv, [Next]_vars,
                    Obedient', pc' \in {"expected", "trial"}, enable_cdda' = "scsi"
             PROVE  mode' = AudioMode' /\ AudioMode' \in drive'.accepts
  BY DEF TrialInv, Obedient
<1>1. UNCHANGED drive /\ Obedient
  BY DEF Next, ChooseDefaults, LearnMode, ReadToc, BeginVerify, TryExpected, ExpectedFailed,
         BeginProbe, EnableTrial, ProbeFound, ProbeNextTrack, ProbeFailed, CheckCache, CheckToc,
         CheckEndian, EnableForGood, ReadAudio, Close, vars, Obedient
<1>2. ASSUME UNCHANGED settings, NEW s \in Enabled(mode), mode' = s.mode, s.ok
      PROVE  mode' = AudioMode' /\ AudioMode' \in drive'.accepts
  <2>1. enable_cdda = "scsi" /\ AudioMode' = AudioMode
    BY <1>2 DEF settings, AudioMode
  <2> QED BY <2>1, <1>1, <1>2, Switching DEF Enabled
<1>3. ASSUME UNCHANGED settings, pc \in {"expected", "trial"}, mode' \in AfterFailure
      PROVE  mode' = AudioMode' /\ AudioMode' \in drive'.accepts
  <2>1. enable_cdda = "scsi" /\ AudioMode' = AudioMode
    BY <1>3 DEF settings, AudioMode
  <2>2. mode = AudioMode /\ AudioMode \in drive.accepts
    BY <2>1, <1>1, <1>3 DEF TrialInv
  <2> QED BY <2>1, <2>2, <1>1, <1>3, Failing
<1>4. ASSUME UNCHANGED settings, pc \in {"expected", "trial"}, mode' = mode
      PROVE  mode' = AudioMode' /\ AudioMode' \in drive'.accepts
  BY <1>1, <1>4 DEF settings, AudioMode, TrialInv
<1>5. CASE BeginVerify
  BY <1>2, <1>5 DEF BeginVerify
<1>6. CASE TryExpected
  BY <1>3, <1>6 DEF TryExpected
<1>7. CASE EnableTrial
  <2>1. PICK s \in Enabled(mode) :
          /\ mode' = s.mode
          /\ IF s.ok THEN pc' = "trial" /\ UNCHANGED settings ELSE NextTrial
    BY <1>7 DEF EnableTrial
  <2>2. s.ok
    BY <2>1, NextTrialIs, TryNextIs
  <2> QED BY <2>1, <2>2, <1>2
<1>8. CASE ProbeNextTrack
  BY <1>4, <1>8 DEF ProbeNextTrack
<1>9. CASE UNCHANGED vars
  <2>1. UNCHANGED settings /\ pc' = pc /\ mode' = mode
    BY <1>9 DEF vars
  <2> QED BY <2>1, <1>4
<1>10. CASE ProbeFailed
  BY <1>10, NextTrialIs, TryNextIs DEF ProbeFailed
<1>11. CASE ChooseDefaults \/ LearnMode \/ ReadToc \/ ExpectedFailed \/ BeginProbe \/ ProbeFound
  BY <1>11 DEF ChooseDefaults, LearnMode, ReadToc, ExpectedFailed, BeginProbe, ProbeFound,
               TryNext, Return
<1>12. CASE CheckCache \/ CheckToc \/ CheckEndian \/ EnableForGood \/ ReadAudio \/ Close
  BY <1>12 DEF CheckCache, CheckToc, CheckEndian, EnableForGood, ReadAudio, Close, Return
<1> QED BY <1>5, <1>6, <1>7, <1>8, <1>9, <1>10, <1>11, <1>12 DEF Next

(* What was proven stays in force, wherever the drive is switched.         *)
LEMMA StepProven == TypeInv /\ TrialInv /\ ProvenInv /\ [Next]_vars => ProvenInv'
<1> SUFFICES ASSUME TypeInv, TrialInv, ProvenInv, [Next]_vars, Obedient', opened'
             PROVE  /\ pc' \in {"cache", "check", "endian", "last"} => InForce'
                    /\ pc' \in {"last", "open"} /\ drive'.starts => endian'
                    /\ pc' = "open" /\ drive'.starts =>
                         proven' = [command |-> read_audio', mode |-> mode']
  BY DEF ProvenInv
<1>1. UNCHANGED drive /\ Obedient
  BY DEF Next, ChooseDefaults, LearnMode, ReadToc, BeginVerify, TryExpected, ExpectedFailed,
         BeginProbe, EnableTrial, ProbeFound, ProbeNextTrack, ProbeFailed, CheckCache, CheckToc,
         CheckEndian, EnableForGood, ReadAudio, Close, vars, Obedient
<1>2. enable_cdda \in {"Dummy", "scsi"}
  BY DEF TypeInv, Ways
<1>3. ASSUME NEW now, NEW m, NEW s \in Switched(now, m)
      PROVE  /\ enable_cdda = "Dummy" => s.mode = now /\ s.ok
             /\ enable_cdda = "scsi" /\ m \in drive.accepts => s.mode = m /\ s.ok
  BY <1>1, <1>3, Switching
<1>4. ASSUME UNCHANGED <<settings, proven>>, InForce, enable_cdda = "Dummy" => mode' = mode
      PROVE  InForce'
  BY <1>1, <1>2, <1>4 DEF InForce, IsFull, Gives, settings, AudioMode
<1>5. ASSUME UNCHANGED settings, pc \in {"expected", "trial"}, IsFull(read_audio, mode),
             proven' = [command |-> read_audio, mode |-> mode],
             enable_cdda = "Dummy" => mode' = mode
      PROVE  InForce'
  <2>1. enable_cdda = "scsi" => mode = AudioMode /\ AudioMode \in drive.accepts
    BY <1>1, <1>5 DEF TrialInv
  <2> QED BY <2>1, <1>1, <1>2, <1>5 DEF InForce, IsFull, Gives, settings, AudioMode
<1>6. CASE TryExpected
  <2>1. CASE IsFull(read_audio, mode)
    <3>1. /\ UNCHANGED settings /\ pc = "expected" /\ pc' \in {"cache", "check"}
          /\ proven' = [command |-> read_audio, mode |-> mode]
      BY <1>6, <2>1 DEF TryExpected
    <3>2. PICK s \in Disabled(mode) : mode' = s.mode
      BY <1>6, <2>1 DEF TryExpected
    <3>3. enable_cdda = "Dummy" => mode' = mode
      BY <3>2, <1>3 DEF Disabled
    <3> QED BY <3>1, <3>3, <2>1, <1>5
  <2>2. CASE ~IsFull(read_audio, mode)
    BY <1>6, <2>2 DEF TryExpected
  <2> QED BY <2>1, <2>2
<1>7. CASE ProbeFound
  <2>1. /\ UNCHANGED settings /\ pc = "trial" /\ pc' = "cache" /\ IsFull(read_audio, mode)
        /\ proven' = [command |-> read_audio, mode |-> mode]
    BY <1>7 DEF ProbeFound
  <2>2. PICK s \in Disabled(mode) : mode' = s.mode
    BY <1>7 DEF ProbeFound
  <2>3. enable_cdda = "Dummy" => mode' = mode
    BY <2>2, <1>3 DEF Disabled
  <2> QED BY <2>1, <2>3, <1>5
<1>8. CASE CheckCache
  <2>1. UNCHANGED <<settings, proven, opened>> /\ pc = "cache" /\ pc' = "check"
    BY <1>8 DEF CheckCache
  <2>2. InForce
    BY <2>1, <1>1 DEF ProvenInv
  <2>3. \/ mode' = mode
        \/ \E s \in Enabled(mode) : mode' = s.mode \/ \E e \in Disabled(s.mode) : mode' = e.mode
    BY <1>8 DEF CheckCache
  <2>4. enable_cdda = "Dummy" => mode' = mode
    BY <2>3, <1>3 DEF Enabled, Disabled
  <2> QED BY <2>1, <2>2, <2>4, <1>4
<1>9. CASE CheckToc
  <2>1. UNCHANGED <<settings, proven, opened, mode>> /\ pc = "check" /\ pc' = "endian"
    BY <1>9 DEF CheckToc
  <2>2. InForce
    BY <2>1, <1>1 DEF ProvenInv
  <2> QED BY <2>1, <2>2, <1>4
<1>10. CASE CheckEndian
  <2>1. UNCHANGED <<settings, proven, opened>> /\ pc = "endian" /\ pc' = "last"
    BY <1>10 DEF CheckEndian
  <2>2. InForce
    BY <2>1, <1>1 DEF ProvenInv
  <2>3. CASE endian
    <3>1. mode' = mode /\ endian' = endian
      BY <1>10, <2>3 DEF CheckEndian
    <3> QED BY <3>1, <2>1, <2>2, <2>3, <1>4
  <2>4. CASE ~endian
    <3>1. PICK s \in Enabled(mode) : \E e \in Disabled(s.mode) :
            /\ mode' = e.mode
            /\ endian' \in IF drive.starts THEN {Determines(s.mode)} ELSE {FALSE, Determines(s.mode)}
      BY <1>10, <2>4 DEF CheckEndian, DetermineEndian
    <3>2. enable_cdda = "Dummy" => mode' = mode
      BY <3>1, <1>3 DEF Enabled, Disabled
    <3>3. s.mode = proven.mode
      BY <2>2, <1>2, <1>3 DEF InForce, Enabled
    <3>4. Determines(s.mode)
      BY <3>3, <2>2 DEF Determines, InForce
    <3>5. drive.starts => endian'
      BY <3>1, <3>4
    <3> QED BY <3>2, <3>5, <2>1, <2>2, <1>1, <1>4
  <2> QED BY <2>3, <2>4
<1>11. CASE EnableForGood
  <2>1. UNCHANGED <<settings, proven, opened, endian>> /\ pc = "last" /\ pc' \in {"open", "failed"}
    BY <1>11 DEF EnableForGood, Return
  <2>2. InForce /\ (drive.starts => endian)
    BY <2>1, <1>1 DEF ProvenInv
  <2>3. PICK s \in Enabled(mode) : mode' = s.mode
    BY <1>11 DEF EnableForGood, FinalModes
  <2>4. s.mode = proven.mode
    BY <2>2, <2>3, <1>2, <1>3 DEF InForce, Enabled
  <2> QED BY <2>1, <2>2, <2>3, <2>4, <1>1 DEF InForce, settings
<1>12. CASE ReadAudio
  <2>1. pc = "open" /\ opened /\ ~endian /\ pc' = "open"
    BY <1>12 DEF ReadAudio
  <2> QED BY <2>1, <1>1 DEF ProvenInv
<1>13. CASE UNCHANGED vars
  BY <1>13, <1>1 DEF vars, settings, ProvenInv, InForce, IsFull, Gives, AudioMode, Obedient
<1>14. CASE ReadToc
  BY <1>14 DEF ReadToc, Return
<1>15. CASE EnableTrial \/ ProbeFailed
  BY <1>15, NextTrialIs, TryNextIs DEF EnableTrial, ProbeFailed
<1>16. CASE ChooseDefaults \/ LearnMode \/ BeginVerify \/ ExpectedFailed \/ BeginProbe
              \/ ProbeNextTrack \/ Close
  BY <1>16 DEF ChooseDefaults, LearnMode, BeginVerify, ExpectedFailed, BeginProbe,
               ProbeNextTrack, Close, TryNext, Return
<1> QED BY <1>6, <1>7, <1>8, <1>9, <1>10, <1>11, <1>12, <1>13, <1>14, <1>15, <1>16 DEF Next

-----------------------------------------------------------------------------
(* The probe misses nothing, where the rows of the list of exceptions fit: *)
(* a drive that is to be switched tells the mode it is in, and takes it.   *)
RowsFit ==
  \A d \in Drives : d.exception.enable = "scsi" => ~d.atapi /\ d.senses /\ d.mode \in d.accepts

Failed(n) ==
  LET t == Trials[n]
      m == [density |-> t.density, size |-> FRAMESIZE]
  IN  IF t.enable = "Dummy" THEN \E dm \in DataModes : ~IsFull(t.command, dm)
      ELSE m \in drive.accepts => ~IsFull(t.command, m)

Listed == \E t \in DOMAIN drive.tracks : drive.tracks[t] = "audio"

(* Until commands are tried without switching it, the drive is in a mode   *)
(* of data, which it goes back to if it was switched.                      *)
DataInv ==
  /\ pc \in {"new", "sense", "toc", "verify", "probe"} => mode \in DataModes
  /\ pc = "expected" /\ enable_cdda = "Dummy" => mode \in DataModes
  /\ pc \in {"sense", "toc", "verify", "expected"} /\ enable_cdda = "scsi" =>
       drive.exception.enable = "scsi"
  /\ pc \in {"toc", "verify", "expected"} /\ drive.exception.enable = "scsi" =>
       original = drive.mode

Settings(n) ==
  /\ density = Trials[n].density /\ enable_cdda = Trials[n].enable
  /\ read_audio = Trials[n].command

(* Every trial before the one that is made has failed; of the tracks it    *)
(* passed none is audio.                                                   *)
ProbeInv ==
  /\ pc \in {"enable", "trial"} =>
       /\ trial \in 1..Len(Trials) /\ Settings(trial)
       /\ enable_cdda = "Dummy" => mode \in DataModes
       /\ \A n \in 1..(trial - 1) : Failed(n)
  /\ pc \in {"enable", "trial"} =>
       \A t \in 1..track : t \in DOMAIN drive.tracks => drive.tracks[t] # "audio"
  /\ result = -6 => \A n \in 1..Len(Trials) : Failed(n)

Complete == Obedient /\ IsScsi /\ Listed => DataInv /\ ProbeInv

\* Before the probe no trial has been passed over.
LEMMA InitComplete == Init => Complete
<1> SUFFICES ASSUME Init PROVE DataInv /\ ProbeInv
  BY DEF Complete
<1>1. pc = "new" /\ mode = drive.mode /\ result = 1
  BY DEF Init, Opening
<1> QED BY <1>1 DEF DataInv, ProbeInv, DataModes

(* Failures do not depend on where opening the drive is.                   *)
LEMMA DriveStays ==
  ASSUME [Next]_vars
  PROVE  drive' = drive
BY DEF Next, ChooseDefaults, LearnMode, ReadToc, BeginVerify, TryExpected, ExpectedFailed,
       BeginProbe, EnableTrial, ProbeFound, ProbeNextTrack, ProbeFailed, CheckCache, CheckToc,
       CheckEndian, EnableForGood, ReadAudio, Close, vars

\* What failed depends on the drive alone, which does not change.
LEMMA FailedStays ==
  ASSUME drive' = drive
  PROVE  /\ \A n : Failed(n)' <=> Failed(n)
         /\ DataModes' = DataModes
BY DEF Failed, DataModes, IsFull, Gives

(* A trial that did not work is passed, to the next or to the end.         *)
LEMMA PassedOn ==
  ASSUME TypeInv, ProbeInv, pc \in {"enable", "trial"}, NextTrial, Failed(trial),
         drive' = drive, enable_cdda = "Dummy" => mode' = mode
  PROVE  ProbeInv'
<1>1. trial \in 1..Len(Trials) /\ Settings(trial) /\ Len(Trials) \in Nat
        /\ (enable_cdda = "Dummy" => mode \in DataModes)
        /\ (\A n \in 1..(trial - 1) : Failed(n))
        /\ (result = -6 => \A n \in 1..Len(Trials) : Failed(n))
  BY TrialsAre DEF ProbeInv
<1>2. \A n \in 1..trial : Failed(n)
  BY <1>1
<1>3. \A n : Failed(n)' <=> Failed(n)
  BY FailedStays
<1>4. DataModes' = DataModes
  BY FailedStays
<1>5. CASE trial + 1 \in 1..Len(Trials) /\ TryNext(trial + 1) /\ UNCHANGED result
  <2>1. /\ pc' = "enable" /\ trial' = trial + 1 /\ track' = 0
        /\ enable_cdda' = Trials[trial + 1].enable /\ read_audio' = Trials[trial + 1].command
        /\ density' = Trials[trial + 1].density
    BY <1>5, TryNextIs
  <2>2. enable_cdda' = "Dummy" => mode' \in DataModes'
    <3>1. trial \in 1..(Len(Trials) - 1)
      BY <1>1, <1>5
    <3>2. enable_cdda' = "Dummy" => enable_cdda = "Dummy"
      BY <1>1, <2>1, <3>1, TrialsAre DEF Settings
    <3> QED BY <3>2, <1>1, <1>4
  <2>3. \A n \in 1..(trial' - 1) : Failed(n)'
    BY <2>1, <1>1, <1>2, <1>3
  <2>4. Settings(trial)'
    BY <2>1 DEF Settings
  <2>5. result' = -6 => \A n \in 1..Len(Trials) : Failed(n)'
    BY <1>1, <1>3, <1>5
  <2>6. \A t \in 1..track' : FALSE
    BY <2>1
  <2> QED BY <1>5, <2>1, <2>2, <2>3, <2>4, <2>5, <2>6 DEF ProbeInv
<1>6. CASE pc' = "failed" /\ result' = -6 /\ trial >= Len(Trials)
  <2>1. \A n \in 1..Len(Trials) : Failed(n)'
    BY <1>1, <1>2, <1>3, <1>6
  <2> QED BY <1>6, <2>1 DEF ProbeInv
<1> QED BY <1>5, <1>6, NextTrialIs

\* Every step keeps what is known of the trials already made,
LEMMA StepProbe ==
  ASSUME TypeInv, TrialInv, ProbeInv, DataInv, [Next]_vars, Obedient, IsScsi, Listed
  PROVE  ProbeInv'
<1>0. drive' = drive /\ drive \in Drives
  BY DriveStays DEF TypeInv
<1>1. \A n : Failed(n)' <=> Failed(n)
  BY <1>0, FailedStays
<1>2. DataModes' = DataModes
  BY <1>0, FailedStays
<1>3. ASSUME UNCHANGED <<settings, trial, track, result>>, pc' \in {"enable", "trial"},
             pc \in {"enable", "trial"}, enable_cdda = "Dummy" => mode' = mode
      PROVE  ProbeInv'
  <2>1. UNCHANGED <<density, enable_cdda, read_audio, trial, track, result>>
    BY <1>3 DEF settings
  <2>2. /\ trial \in 1..Len(Trials) /\ Settings(trial)
        /\ enable_cdda = "Dummy" => mode \in DataModes
        /\ \A n \in 1..(trial - 1) : Failed(n)
        /\ \A t \in 1..track : t \in DOMAIN drive.tracks => drive.tracks[t] # "audio"
        /\ result = -6 => \A n \in 1..Len(Trials) : Failed(n)
    BY <1>3 DEF ProbeInv
  <2>3. Settings(trial)'
    BY <2>1, <2>2 DEF Settings
  <2>4. enable_cdda' = "Dummy" => mode' \in DataModes'
    BY <2>1, <2>2, <1>2, <1>3
  <2>5. /\ \A n \in 1..(trial' - 1) : Failed(n)'
        /\ result' = -6 => \A n \in 1..Len(Trials) : Failed(n)'
    BY <2>1, <2>2, <1>1
  <2>6. \A t \in 1..track' : t \in DOMAIN drive'.tracks => drive'.tracks[t] # "audio"
    BY <2>1, <2>2, <1>0
  <2> QED BY <2>1, <2>2, <2>3, <2>4, <2>5, <2>6 DEF ProbeInv
<1>4. ASSUME pc' \notin {"enable", "trial"}, result' = -6 => result = -6
      PROVE  ProbeInv'
  <2>1. result' = -6 => \A n \in 1..Len(Trials) : Failed(n)'
    BY <1>1, <1>4 DEF ProbeInv
  <2>2. ~(pc' \in {"enable", "trial"})
    BY <1>4
  <2> QED BY <2>1, <2>2 DEF ProbeInv
<1>5. CASE ChooseDefaults \/ LearnMode \/ ReadToc \/ BeginVerify
  <2>1. pc' \notin {"enable", "trial"}
    BY <1>5 DEF ChooseDefaults, LearnMode, ReadToc, BeginVerify, Return
  <2>2. result' = result \/ result' = -4
    BY <1>5 DEF ChooseDefaults, LearnMode, ReadToc, BeginVerify, Return
  <2>3. result' = -6 => result = -6
    BY <2>2
  <2> QED BY <2>1, <2>3, <1>4
<1>6. CASE TryExpected \/ ProbeFound \/ CheckCache \/ CheckToc
  BY <1>4, <1>6 DEF TryExpected, ProbeFound, CheckCache, CheckToc, Return
<1>7. CASE CheckEndian \/ EnableForGood \/ ReadAudio \/ Close
  BY <1>4, <1>7 DEF CheckEndian, EnableForGood, ReadAudio, Close, Return
<1>8. CASE ExpectedFailed
  BY <1>4, <1>8 DEF ExpectedFailed, Return, IsScsi
<1>9. CASE BeginProbe
  <2>1. 1 \in 1..Len(Trials) /\ TryNext(1) /\ pc = "probe" /\ UNCHANGED <<mode, result>>
    BY <1>9, TrialsAre DEF BeginProbe
  <2>2. /\ pc' = "enable" /\ trial' = 1 /\ track' = 0
        /\ enable_cdda' = Trials[1].enable /\ read_audio' = Trials[1].command
        /\ density' = Trials[1].density
    BY <2>1, TryNextIs
  <2>3. mode' \in DataModes'
    BY <2>1, <1>2 DEF DataInv
  <2>4. Settings(trial)'
    BY <2>2 DEF Settings
  <2>5. (\A n \in 1..(trial' - 1) : FALSE) /\ \A t \in 1..track' : FALSE
    BY <2>2
  <2>6. result' = -6 => \A n \in 1..Len(Trials) : Failed(n)'
    BY <2>1, <1>1 DEF ProbeInv
  <2> QED BY <2>1, <2>2, <2>3, <2>4, <2>5, <2>6 DEF ProbeInv
<1>10. CASE EnableTrial
  <2>1. PICK s \in Enabled(mode) :
          /\ mode' = s.mode
          /\ IF s.ok THEN pc' = "trial" /\ UNCHANGED <<settings, track, trial, result>>
                     ELSE NextTrial
    BY <1>10 DEF EnableTrial
  <2>2. pc = "enable"
    BY <1>10 DEF EnableTrial
  <2>3. enable_cdda = "Dummy" => mode' = mode /\ s.ok
    BY <2>1, Switching DEF Enabled
  <2>4. CASE s.ok
    BY <2>1, <2>2, <2>3, <2>4, <1>3
  <2>5. CASE ~s.ok
    <3>1. enable_cdda # "Dummy" /\ AudioMode \notin drive.accepts
      BY <2>1, <2>3, <2>5, Switching DEF Enabled
    <3>2. Failed(trial)
      BY <3>1, <2>2 DEF Failed, AudioMode, ProbeInv, Settings
    <3> QED BY <2>1, <2>2, <2>5, <3>1, <3>2, <1>0, PassedOn
  <2> QED BY <2>4, <2>5
<1>11. CASE ProbeNextTrack
  <2> DEFINE next == NextAudio(track)
  <2>1. /\ pc = "trial" /\ AudioAfter(track) # {} /\ drive.tracks[next] = "silent"
        /\ track' = next
        /\ UNCHANGED <<mode, pc, settings, trial, result>>
    BY <1>11 DEF ProbeNextTrack
  <2>2. track \in Nat /\ drive.tracks \in Seq(Tracks)
    BY <1>0, DriveFacts DEF TypeInv
  <2>3. next \in Nat /\ \A t \in AudioAfter(track) : next <= t
    BY <2>1, <2>2, <1>0, NextAudioIs
  <2> HIDE DEF next
  <2>4. ASSUME NEW t \in 1..next, t \in DOMAIN drive.tracks
        PROVE  drive.tracks[t] # "audio"
    <3>1. CASE t <= track
      BY <3>1, <2>1, <2>2, <2>4 DEF ProbeInv
    <3>2. CASE t = next
      BY <3>2, <2>1
    <3>3. CASE track < t /\ t < next
      <4>1. t \notin AudioAfter(track)
        BY <3>3, <2>3
      <4>2. t \in (track + 1)..Len(drive.tracks)
        BY <3>3, <2>2, <2>4
      <4>3. drive.tracks[t] = "data"
        BY <4>1, <4>2 DEF AudioAfter
      <4> QED BY <4>3
    <3> QED BY <3>1, <3>2, <3>3, <2>2, <2>3
  <2>5. \A t \in 1..track' : t \in DOMAIN drive'.tracks => drive'.tracks[t] # "audio"
    BY <2>1, <2>4, <1>0
  <2>6. /\ trial' \in 1..Len(Trials) /\ Settings(trial)'
        /\ enable_cdda' = "Dummy" => mode' \in DataModes'
        /\ \A n \in 1..(trial' - 1) : Failed(n)'
    BY <2>1, <1>1, <1>2 DEF ProbeInv, Settings, settings
  <2>7. result' = -6 => \A n \in 1..Len(Trials) : Failed(n)'
    BY <2>1, <1>1 DEF ProbeInv
  <2> QED BY <2>5, <2>6, <2>7 DEF ProbeInv
<1>12. CASE ProbeFailed
  <2>1. pc = "trial" /\ NextTrial /\ (AudioAfter(track) # {} => ~IsFull(read_audio, mode))
    BY <1>12 DEF ProbeFailed
  <2>2. PICK m \in AfterFailure : \E s \in Disabled(m) : mode' = s.mode
    BY <1>12 DEF ProbeFailed
  <2>3. enable_cdda = "Dummy" => mode' = mode
    BY <2>2, Failing, Switching DEF Disabled
  <2>4. AudioAfter(track) # {}
    <3>1. PICK t \in DOMAIN drive.tracks : drive.tracks[t] = "audio"
      BY DEF Listed
    <3>2. track \in Nat /\ drive.tracks \in Seq(Tracks)
      BY <1>0, DriveFacts DEF TypeInv
    <3>3. t \in 1..Len(drive.tracks)
      BY <3>2
    <3>4. ~(t \in 1..track)
      BY <2>1, <3>1 DEF ProbeInv
    <3>5. t \in (track + 1)..Len(drive.tracks)
      BY <3>2, <3>3, <3>4
    <3> QED BY <3>1, <3>5 DEF AudioAfter
  <2>5. Failed(trial)
    <3>1. ~IsFull(read_audio, mode)
      BY <2>1, <2>4
    <3>2. Settings(trial) /\ (enable_cdda = "Dummy" => mode \in DataModes)
      BY <2>1 DEF ProbeInv
    <3>3. enable_cdda # "Dummy" => mode = AudioMode
      BY <2>1 DEF TypeInv, TrialInv, Ways
    <3> QED BY <3>1, <3>2, <3>3 DEF Failed, Settings, AudioMode
  <2> QED BY <2>1, <2>3, <2>5, <1>0, PassedOn
<1>13. CASE UNCHANGED vars
  <2>1. pc' = pc /\ mode' = mode /\ UNCHANGED <<settings, trial, track, result>>
    BY <1>13 DEF vars, place
  <2> QED BY <2>1, <1>3, <1>4
<1> QED BY <1>5, <1>6, <1>7, <1>8, <1>9, <1>10, <1>11, <1>12, <1>13 DEF Next

\* and what is known of the data they delivered.
LEMMA StepData ==
  ASSUME RowsFit, TypeInv, ModeInv, TrialInv, DataInv, [Next]_vars, Obedient, IsScsi
  PROVE  DataInv'
<1>0. drive' = drive /\ drive \in Drives /\ enable_cdda \in {"Dummy", "scsi"}
  BY DriveStays DEF TypeInv, Ways
<1>1. DataModes' = DataModes
  BY <1>0, FailedStays
<1>2. drive.exception.enable = "scsi" => ~drive.atapi /\ drive.senses /\ drive.mode \in drive.accepts
  BY <1>0 DEF RowsFit
<1>3. ASSUME pc' \notin {"new", "sense", "toc", "verify", "probe", "expected"}
      PROVE  DataInv'
  BY <1>3 DEF DataInv
<1>4. CASE ChooseDefaults
  <2>1. mode' = mode /\ pc' \in {"sense", "toc"} /\ (pc' = "toc" => ~IsScsi \/ drive.atapi)
          /\ pc = "new"
    BY <1>4 DEF ChooseDefaults
  <2>2. enable_cdda' = "scsi" => drive.exception.enable = "scsi" /\ IsScsi
    BY <1>4 DEF ChooseDefaults
  <2> QED BY <2>1, <2>2, <1>0, <1>1, <1>2 DEF DataInv
<1>5. CASE LearnMode
  <2>1. mode = drive.mode /\ pc = "sense" /\ pc' = "toc" /\ UNCHANGED settings
    BY <1>5 DEF LearnMode, ModeInv
  <2>2. drive.senses => original' = drive.mode
    BY <1>5, <2>1 DEF LearnMode, OriginalOf
  <2>3. mode' \in DataModes
    <3>1. mode' = mode \/ \E s \in Selected(mode, [mode EXCEPT !.size = 2048]) : mode' = s.mode
      BY <1>5 DEF LearnMode
    <3>2. \A s \in Selected(mode, [mode EXCEPT !.size = 2048]) :
            s.mode = mode \/ s.mode = [mode EXCEPT !.size = 2048]
      BY DEF Selected
    <3> QED BY <3>1, <3>2, <2>1 DEF DataModes
  <2> QED BY <2>1, <2>2, <2>3, <1>0, <1>1, <1>2 DEF DataInv, settings
<1>6. CASE ReadToc
  BY <1>0, <1>1, <1>6 DEF ReadToc, DataInv, settings, Return
<1>7. CASE BeginVerify
  <2>1. PICK s \in Enabled(mode) : mode' = s.mode /\ pc' = IF s.ok THEN "expected" ELSE "probe"
    BY <1>7 DEF BeginVerify
  <2>2. pc = "verify" /\ UNCHANGED <<settings, original>>
    BY <1>7 DEF BeginVerify
  <2>3. (enable_cdda = "Dummy" => s.mode = mode) /\ (~s.ok => s.mode = mode)
    BY <2>1, Switching DEF Enabled
  <2> QED BY <2>1, <2>2, <2>3, <1>0, <1>1 DEF DataInv, settings
<1>8. CASE TryExpected
  <2>1. CASE IsFull(read_audio, mode)
    BY <1>3, <1>8, <2>1 DEF TryExpected
  <2>2. CASE ~IsFull(read_audio, mode)
    <3>1. mode' \in AfterFailure /\ pc' = pc /\ pc = "expected" /\ UNCHANGED <<settings, original>>
      BY <1>8, <2>2 DEF TryExpected
    <3>2. enable_cdda = "Dummy" => mode' = mode
      BY <3>1, Failing
    <3> QED BY <3>1, <3>2, <1>0, <1>1 DEF DataInv, settings
  <2> QED BY <2>1, <2>2
<1>9. CASE ExpectedFailed
  <2>1. PICK s \in Disabled(mode) : mode' = s.mode
    BY <1>9 DEF ExpectedFailed
  <2>2. pc = "expected" /\ pc' \in {"probe", "failed"} /\ UNCHANGED <<settings, original>>
    BY <1>9 DEF ExpectedFailed, Return
  <2>3. CASE enable_cdda = "Dummy"
    <3>1. mode' = mode
      BY <2>1, <2>3, Switching DEF Disabled
    <3> QED BY <3>1, <2>2, <2>3, <1>0, <1>1 DEF DataInv, settings
  <2>4. CASE enable_cdda = "scsi"
    <3>1. original = drive.mode /\ original \in drive.accepts
      BY <2>2, <2>4, <1>2 DEF DataInv
    <3>2. mode' = drive.mode
      BY <2>1, <2>4, <3>1, Switching DEF Disabled
    <3> QED BY <3>2, <2>2, <1>0, <1>1 DEF DataInv, DataModes
  <2> QED BY <2>3, <2>4, <1>0
<1>10. CASE BeginProbe \/ EnableTrial \/ ProbeFound \/ ProbeNextTrack \/ ProbeFailed
  <2>1. NextTrial => pc' \in {"enable", "failed"}
    BY NextTrialIs, TryNextIs
  <2>2. pc' \notin {"new", "sense", "toc", "verify", "probe", "expected"}
    BY <1>10, <2>1 DEF BeginProbe, EnableTrial, ProbeFound, ProbeNextTrack, ProbeFailed, TryNext
  <2> QED BY <2>2, <1>3
<1>11. CASE CheckCache \/ CheckToc \/ CheckEndian \/ EnableForGood \/ ReadAudio \/ Close
  BY <1>3, <1>11 DEF CheckCache, CheckToc, CheckEndian, EnableForGood, ReadAudio, Close, Return
<1>12. CASE UNCHANGED vars
  BY <1>0, <1>1, <1>12 DEF vars, settings, DataInv
<1> QED BY <1>4, <1>5, <1>6, <1>7, <1>8, <1>9, <1>10, <1>11, <1>12 DEF Next

-----------------------------------------------------------------------------
(* Theorems.                                                               *)

\* The inductive invariant of opening and closing a drive.
LEMMA Invariance == Spec => []Inv
<1>1. Inv /\ [Next]_vars => Inv'
  BY StepType, StepMode, StepTrial, StepProven DEF Inv
<1> QED BY <1>1, InitInv, PTL DEF Spec

(* What the program reads with is what gave a sector when the drive was    *)
(* opened: the command, and the mode the drive is in.                      *)
THEOREM ReadsWithWhatWorked == Spec => []ReadsAsProven
<1>1. Inv => ReadsAsProven
  <2> SUFFICES ASSUME Inv, pc = "open", opened, Obedient, drive.starts
               PROVE  proven # NotProven /\ proven = [command |-> read_audio, mode |-> mode]
    BY DEF ReadsAsProven
  <2>1. proven = [command |-> read_audio, mode |-> mode] /\ read_audio # ""
    BY DEF Inv, ProvenInv, TypeInv
  <2> QED BY <2>1 DEF NotProven
<1> QED BY <1>1, Invariance, PTL

(* A drive that was switched and accepts its own mode is closed in it.     *)
THEOREM PutBack == Spec => []ModeRestored
<1>1. Inv => ModeRestored
  BY DEF Inv, ModeInv
<1> QED BY <1>1, Invariance, PTL

(* A drive is called unable to read audio only after every command was     *)
(* tried, and where it may need one, in every mode: provided that drives   *)
(* which are listed as ones to be switched can be put back.                *)
THEOREM NothingMissed ==
  ASSUME RowsFit
  PROVE  Spec => []ProbeComplete
<1>1. Inv /\ Complete /\ [Next]_vars => Complete'
  <2> SUFFICES ASSUME Inv, Complete, [Next]_vars, Obedient', IsScsi', Listed'
               PROVE  DataInv' /\ ProbeInv'
    BY DEF Complete
  <2>1. Obedient /\ IsScsi /\ Listed
    BY DriveStays DEF Obedient, IsScsi, Listed
  <2> QED BY <2>1, StepData, StepProbe DEF Inv, Complete
<1>2. Inv /\ Complete => ProbeComplete
  <2> SUFFICES ASSUME Inv, Complete, result = -6, IsScsi, Obedient, Listed
               PROVE  /\ \A c \in Commands \ {"cooked"} : \E m \in DataModes : ~IsFull(c, m)
                      /\ \A c \in Others, m \in AudioModes : ~IsFull(c, m)
    BY DEF ProbeComplete, Listed
  <2>1. \A n \in 1..Len(Trials) : Failed(n)
    BY DEF Complete, ProbeInv
  <2>2. ASSUME NEW c \in Commands \ {"cooked"}
        PROVE  \E m \in DataModes : ~IsFull(c, m)
    <3>1. PICK n \in 1..Len(Trials) :
            Trials[n] = [density |-> 0, enable |-> "Dummy", command |-> c]
      BY TrialsAre DEF Undensified
    <3>2. Trials[n].enable = "Dummy" /\ Trials[n].command = c
      BY <3>1
    <3>3. \E m \in DataModes : ~IsFull(Trials[n].command, m)
      BY <3>2, <2>1 DEF Failed
    <3> QED BY <3>2, <3>3
  <2>3. ASSUME NEW c \in Others, NEW m \in AudioModes
        PROVE  ~IsFull(c, m)
    <3>1. PICK d \in {0, 4, 129, 130} : m = [density |-> d, size |-> FRAMESIZE]
      BY DEF AudioModes
    <3>2. PICK n \in 1..Len(Trials) :
            Trials[n] = [density |-> d, enable |-> "scsi", command |-> c]
      BY TrialsAre DEF Densed
    <3>3. m \in drive.accepts
      BY DEF AudioModes
    <3> QED BY <3>1, <3>2, <3>3, <2>1 DEF Failed
  <2> QED BY <2>2, <2>3
<1> QED BY <1>1, <1>2, InitComplete, Invariance, PTL DEF Spec
=============================================================================
