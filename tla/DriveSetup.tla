----------------------------- MODULE DriveSetup -----------------------------
(***************************************************************************)
(* How a drive is opened (cdda_open, scsi_init_drive, cooked_init_drive):  *)
(* which command reads audio, whether the drive has to be switched to a    *)
(* mode of its own for it, and how it is switched there and back until it  *)
(* is closed.  What the drive is and takes is a constant; a command to it  *)
(* is one step, with the switching around it.                              *)
(***************************************************************************)
EXTENDS Integers, Sequences

CONSTANTS
  Drives      (* the drives a run looks at, see Drive *)

(* A mode is a density and a size of blocks.                               *)
Mode == [density : Nat, size : Nat]
Unknown == [density |-> 0, size |-> 0]
FRAMESIZE == 2352

MMC == {"mmcB", "mmc2B", "mmc3B", "mmc", "mmc2", "mmc3"}
MSF == {"msf", "msf2", "msf3"}
Others == {"28", "A8", "D4_10", "D4_12", "D5", "D8"}
Commands == MMC \cup MSF \cup Others \cup {"cooked"}
Tracks == {"audio", "silent", "data"}

(* interface, atapi and mmc: how the drive presents itself; exception: its *)
(* row of the lists of exceptions, "" for what the row leaves alone; mode: *)
(* as it is found, and senses: whether it tells; accepts: the modes it can *)
(* be switched to, and moody: it may refuse those, too; gives: what it     *)
(* returns for a command in a mode, other commands are rejected; fua: the  *)
(* commands that take the bit; tracks, none if it lists none; legal: the   *)
(* table passes cdda_open's test; starts: where tracks begin can be read.  *)
Drive == [interface : {"scsi", "cooked"}, atapi : BOOLEAN, mmc : BOOLEAN,
          exception : [density : Nat, enable : {"", "Dummy", "scsi"},
                       read : Commands \cup {""}, endian : BOOLEAN],
          mode : Mode, senses : BOOLEAN, accepts : SUBSET Mode, moody : BOOLEAN,
          gives : SUBSET [command : Commands, mode : Mode, length : {"full", "short"}],
          fua : SUBSET Commands, tracks : Seq(Tracks), legal : BOOLEAN, starts : BOOLEAN]

ASSUME DriveAssumption == Drives \subseteq Drive

VARIABLES
  drive,        \* the drive, as it is
  mode,         \* the mode it is in
  pc,           \* where cdda_open is; "open", "failed", "closed" after it
  density, enable_cdda, read_audio, fua,   \* of the cdrom_drive
  original,     \* orgdens and orgsize
  opened,
  endian,       \* whether bigendianp is determined
  track,        \* the track tried
  trial,        \* the trial of the probe
  expected,     \* the settings the probe began with
  proven,       \* history: the command that returned a sector, and the mode
  result        \* what cdda_open returned

settings == <<density, enable_cdda, read_audio>>
place == <<track, trial, expected>>
vars == <<drive, mode, pc, settings, fua, original, opened, endian, place, proven, result>>

NotProven == [command |-> "", mode |-> Unknown]
Opening == 1

Init ==
  /\ drive \in Drives
  /\ mode = drive.mode
  /\ pc = "new"
  /\ density = 0 /\ enable_cdda = "Dummy" /\ read_audio = "D8" /\ fua = FALSE
  /\ original = Unknown
  /\ opened = FALSE /\ endian = FALSE
  /\ track = 0 /\ trial = 0 /\ expected = <<0, "Dummy", "D8">>
  /\ proven = NotProven
  /\ result = Opening

Return(code) == result' = code /\ pc' = "failed"

-----------------------------------------------------------------------------
(* Commands.                                                               *)

(* mode_select in mode now: the mode it leaves, and whether it was taken.  *)
Selected(now, m) ==
  {[mode |-> m, ok |-> TRUE] : n \in {m} \cap drive.accepts}
    \cup {[mode |-> now, ok |-> FALSE] : n \in {n \in {m} : drive.moody \/ n \notin drive.accepts}}

AudioMode == [density |-> density, size |-> FRAMESIZE]

(* d->enable_cdda: only some drives are switched at all.                   *)
Switched(now, m) ==
  IF enable_cdda = "Dummy" THEN {[mode |-> now, ok |-> TRUE]} ELSE Selected(now, m)
Enabled(now) == Switched(now, AudioMode)
Disabled(now) == Switched(now, original)

(* read_audio of a sector.  One that is too short is tried again, switched *)
(* off and on in between, until it has failed; what is rejected, is.       *)
Gives(command, m, length) == [command |-> command, mode |-> m, length |-> length] \in drive.gives
IsFull(command, m) == Gives(command, m, "full")

AfterFailure ==
  IF Gives(read_audio, mode, "short")
    THEN {e.mode : e \in UNION {Enabled(d.mode) : d \in Disabled(mode)}}
    ELSE {mode}

AudioAfter(k) == {t \in (k + 1)..Len(drive.tracks) : drive.tracks[t] # "data"}
NextAudio(k) == CHOOSE t \in AudioAfter(k) : \A u \in AudioAfter(k) : t <= u

-----------------------------------------------------------------------------
(* What the drive presents itself as decides what is tried first.          *)
IsScsi == drive.interface = "scsi"

ChooseDefaults ==
  /\ pc = "new"
  /\ LET row == drive.exception
         usual == IF ~IsScsi THEN "cooked" ELSE IF drive.atapi \/ drive.mmc THEN "mmc2B" ELSE "D8"
     IN  /\ density' = IF IsScsi THEN row.density ELSE 0
         /\ enable_cdda' = IF IsScsi /\ row.enable # "" THEN row.enable ELSE "Dummy"
         /\ read_audio' = IF IsScsi /\ row.read # "" THEN row.read ELSE usual
         /\ endian' = (drive.atapi \/ drive.mmc \/ row.endian)
  /\ pc' = IF IsScsi /\ ~drive.atapi THEN "sense" ELSE "toc"
  /\ UNCHANGED <<drive, mode, fua, original, opened, place, proven, result>>

(* Seeded fault: the mode to go back to is asked for after the switch.     *)
OriginalOf_Switched(m) == [m EXCEPT !.size = IF @ < 2048 THEN 2048 ELSE @]

OriginalOf(m) == m

(* get_orig_sectorsize; smaller blocks are made 2048 bytes long.           *)
LearnMode ==
  /\ pc = "sense"
  /\ IF drive.senses
       THEN /\ original' = OriginalOf(mode)
            /\ IF mode.size < 2048
                 THEN \E s \in Selected(mode, [mode EXCEPT !.size = 2048]) : mode' = s.mode
                 ELSE UNCHANGED mode
       ELSE UNCHANGED <<original, mode>>
  /\ pc' = "toc"
  /\ UNCHANGED <<drive, settings, fua, opened, endian, place, proven, result>>

(* A drive without tracks is no error, and is not opened.                  *)
ReadToc ==
  /\ pc = "toc"
  /\ UNCHANGED <<drive, mode, settings, fua, original, endian, place, proven>>
  /\ \/ Return(-4) /\ UNCHANGED opened
     \/ /\ opened' = (drive.tracks # <<>>)
        /\ pc' = IF drive.tracks = <<>> THEN "check" ELSE "verify"
        /\ UNCHANGED result

-----------------------------------------------------------------------------
(* verify_read_command, the expected command: any audio track will do.     *)
BeginVerify ==
  /\ pc = "verify"
  /\ track' = 0
  /\ \E s \in Enabled(mode) : mode' = s.mode /\ pc' = IF s.ok THEN "expected" ELSE "probe"
  /\ UNCHANGED <<drive, settings, fua, original, opened, endian, trial, expected, proven, result>>

TryExpected ==
  /\ pc = "expected" /\ AudioAfter(track) # {}
  /\ track' = NextAudio(track)
  /\ IF IsFull(read_audio, mode)
       THEN /\ proven' = [command |-> read_audio, mode |-> mode]
            /\ \E s \in Disabled(mode) : mode' = s.mode
            /\ pc' = IF IsScsi THEN "cache" ELSE "check"
       ELSE mode' \in AfterFailure /\ UNCHANGED <<pc, proven>>
  /\ UNCHANGED <<drive, settings, fua, original, opened, endian, trial, expected, result>>

ExpectedFailed ==
  /\ pc = "expected" /\ AudioAfter(track) = {}
  /\ \E s \in Disabled(mode) : mode' = s.mode
  /\ IF AudioAfter(0) = {} THEN Return(-403)
     ELSE IF IsScsi THEN pc' = "probe" /\ UNCHANGED result
     ELSE Return(-6)
  /\ UNCHANGED <<drive, settings, fua, original, opened, endian, place, proven>>

-----------------------------------------------------------------------------
(* The probe: without switching the drive every command is tried, with a   *)
(* density those that come with none are not; there the switch statement   *)
(* falls through to the command after them, which is then tried twice.     *)
Undensed == <<"mmcB", "mmc2B", "mmc3B", "mmc", "mmc2", "mmc3", "msf", "msf2", "msf3">>
Rest == <<"D4_10", "D4_12", "D5", "D8">>

(* Seeded fault: without falling through, the last command is left out.    *)
CommandsFor_Short(enable) ==
  <<"28", "A8">> \o (IF enable = "Dummy" THEN Undensed ELSE <<"D4_10">>) \o SubSeq(Rest, 1, 3)

CommandsFor(enable) ==
  <<"28", "A8">> \o (IF enable = "Dummy" THEN Undensed ELSE <<"D4_10">>) \o Rest

Row(d, enable) ==
  [i \in DOMAIN CommandsFor(enable) |->
     [density |-> d, enable |-> enable, command |-> CommandsFor(enable)[i]]]

Trials ==
  Row(0, "Dummy") \o Row(0, "scsi") \o Row(4, "scsi") \o Row(130, "scsi") \o Row(129, "scsi")

TryNext(n) ==
  /\ trial' = n /\ track' = 0
  /\ density' = Trials[n].density
  /\ enable_cdda' = Trials[n].enable
  /\ read_audio' = Trials[n].command
  /\ pc' = "enable"

BeginProbe ==
  /\ pc = "probe"
  /\ expected' = settings
  /\ endian' = FALSE
  /\ TryNext(1)
  /\ UNCHANGED <<drive, mode, fua, original, opened, proven, result>>

(* After the last trial the settings are put back.                         *)
NextTrial ==
  IF trial < Len(Trials)
    THEN TryNext(trial + 1) /\ UNCHANGED result
    ELSE /\ density' = expected[1] /\ enable_cdda' = expected[2] /\ read_audio' = expected[3]
         /\ UNCHANGED <<trial, track>>
         /\ Return(-6)

EnableTrial ==
  /\ pc = "enable"
  /\ UNCHANGED <<drive, fua, original, opened, endian, expected, proven>>
  /\ \E s \in Enabled(mode) :
       /\ mode' = s.mode
       /\ IF s.ok THEN pc' = "trial" /\ UNCHANGED <<settings, track, trial, result>> ELSE NextTrial

(* A command that fails is given up, one that returns silence is tried on  *)
(* the next track.                                                         *)
ProbeFound ==
  /\ pc = "trial" /\ AudioAfter(track) # {}
  /\ IsFull(read_audio, mode) /\ drive.tracks[NextAudio(track)] = "audio"
  /\ proven' = [command |-> read_audio, mode |-> mode]
  /\ \E s \in Disabled(mode) : mode' = s.mode
  /\ pc' = "cache"
  /\ UNCHANGED <<drive, settings, fua, original, opened, endian, place, result>>

ProbeNextTrack ==
  /\ pc = "trial" /\ AudioAfter(track) # {}
  /\ IsFull(read_audio, mode) /\ drive.tracks[NextAudio(track)] = "silent"
  /\ track' = NextAudio(track)
  /\ UNCHANGED <<drive, mode, pc, settings, fua, original, opened, endian, trial, expected,
                 proven, result>>

ProbeFailed ==
  /\ pc = "trial"
  /\ AudioAfter(track) # {} => ~IsFull(read_audio, mode)
  /\ \E m \in AfterFailure : \E s \in Disabled(m) : mode' = s.mode
  /\ NextTrial
  /\ UNCHANGED <<drive, fua, original, opened, endian, expected, proven>>

-----------------------------------------------------------------------------
(* check_cache: where the bit is rejected the drive stays switched.        *)
CheckCache ==
  /\ pc = "cache"
  /\ IF read_audio \in MMC THEN UNCHANGED <<mode, fua>>
     ELSE \E s \in Enabled(mode) :
            IF IsFull(read_audio, s.mode) /\ read_audio \in drive.fua
              THEN fua' = TRUE /\ \E e \in Disabled(s.mode) : mode' = e.mode
              ELSE fua' = FALSE /\ mode' = s.mode
  /\ pc' = "check"
  /\ UNCHANGED <<drive, settings, original, opened, endian, place, proven, result>>

(* cdda_open's test of the table.                                          *)
CheckToc ==
  /\ pc = "check"
  /\ IF drive.legal \/ drive.tracks = <<>> THEN pc' = "endian" /\ UNCHANGED <<opened, result>>
     ELSE opened' = FALSE /\ Return(-9)
  /\ UNCHANGED <<drive, mode, settings, fua, original, endian, place, proven>>

(* data_bigendianp: the drive is switched, read where tracks begin, and    *)
(* switched back; a read that fails leaves the order undetermined.         *)
Determines(m) == AudioAfter(0) # {} => IsFull(read_audio, m)

DetermineEndian ==
  \E s \in Enabled(mode) : \E e \in Disabled(s.mode) :
    /\ mode' = e.mode
    /\ endian' \in IF drive.starts THEN {Determines(s.mode)} ELSE {FALSE, Determines(s.mode)}

CheckEndian ==
  /\ pc = "endian"
  /\ IF endian THEN UNCHANGED <<mode, endian>> ELSE DetermineEndian
  /\ pc' = "last"
  /\ UNCHANGED <<drive, settings, fua, original, opened, place, proven, result>>

(* Seeded fault: the drive is taken to be switched already.                *)
FinalModes_AsIs == {[mode |-> mode, ok |-> TRUE]}

FinalModes == Enabled(mode)

EnableForGood ==
  /\ pc = "last"
  /\ \E s \in FinalModes :
       /\ mode' = s.mode
       /\ IF s.ok THEN result' = 0 /\ pc' = "open" ELSE Return(-1)
  /\ UNCHANGED <<drive, settings, fua, original, opened, endian, place, proven>>

-----------------------------------------------------------------------------
(* cdda_read: with data the order of bytes is determined, if it is not.    *)
ReadAudio ==
  /\ pc = "open" /\ opened /\ ~endian
  /\ IsFull(read_audio, mode)
  /\ DetermineEndian
  /\ UNCHANGED <<drive, pc, settings, fua, original, opened, place, proven, result>>

(* cdda_close, which the program calls however it ends.                    *)
Close ==
  /\ pc \in {"open", "failed"}
  /\ IF opened THEN \E s \in Disabled(mode) : mode' = s.mode ELSE UNCHANGED mode
  /\ pc' = "closed"
  /\ UNCHANGED <<drive, settings, fua, original, opened, endian, place, proven, result>>

Next ==
  \/ ChooseDefaults \/ LearnMode \/ ReadToc
  \/ BeginVerify \/ TryExpected \/ ExpectedFailed
  \/ BeginProbe \/ EnableTrial \/ ProbeFound \/ ProbeNextTrack \/ ProbeFailed
  \/ CheckCache \/ CheckToc \/ CheckEndian \/ EnableForGood
  \/ ReadAudio \/ Close

Spec == Init /\ [][Next]_vars

-----------------------------------------------------------------------------
Obedient == ~drive.moody

(* Once the program reads, the drive is in the mode, and read with the     *)
(* command, in which a whole sector came from it; unless the order of its  *)
(* bytes is still to be found then, which switches it back.                *)
ReadsAsProven ==
  pc = "open" /\ opened /\ Obedient /\ drive.starts =>
    proven # NotProven /\ proven = [command |-> read_audio, mode |-> mode]

(* A drive is only given up as one that cannot read audio if no command    *)
(* reads it: none in the mode it is in without being switched, and none    *)
(* that may need it in a mode of audio that it accepts.                    *)
DataModes == {drive.mode, [drive.mode EXCEPT !.size = 2048]}
AudioModes == {[density |-> d, size |-> FRAMESIZE] : d \in {0, 4, 129, 130}} \cap drive.accepts

ProbeComplete ==
  result = -6 /\ IsScsi /\ Obedient /\ (\E t \in DOMAIN drive.tracks : drive.tracks[t] = "audio") =>
    /\ \A c \in Commands \ {"cooked"} : \E m \in DataModes : ~IsFull(c, m)
    /\ \A c \in Others, m \in AudioModes : ~IsFull(c, m)

(* A drive that told the mode it was in, and that had to be switched, is   *)
(* in that mode again when it is closed.                                   *)
ModeRestored ==
  pc = "closed" /\ opened /\ Obedient /\ drive.mode \in drive.accepts
    /\ original # Unknown /\ enable_cdda = "scsi" => mode = drive.mode

=============================================================================
