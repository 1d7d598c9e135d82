---------------------------- MODULE MCDriveSetup ----------------------------
(* Drives for DriveSetup: each is one of the usual ones, with exceptions.  *)
EXTENDS DriveSetup

Data(d, size) == [density |-> d, size |-> size]
Audio(d) == Data(d, FRAMESIZE)
Full(c, m) == [command |-> c, mode |-> m, length |-> "full"]
Short(c, m) == [command |-> c, mode |-> m, length |-> "short"]
NoRow == [density |-> 0, enable |-> "", read |-> "", endian |-> FALSE]

(* What a drive of this kind looks like that has nothing odd about it.     *)
Usual ==
  [interface |-> "scsi", atapi |-> FALSE, mmc |-> FALSE, exception |-> NoRow,
   mode |-> Data(0, 2048), senses |-> TRUE, accepts |-> {Data(0, 2048)}, moody |-> FALSE,
   gives |-> {}, fua |-> {}, tracks |-> <<"data", "silent", "audio">>, legal |-> TRUE,
   starts |-> TRUE]

(* Interface and kind of MMC, ATAPI and IDE drives; Toshiba has a density. *)
Atapi == [Usual EXCEPT !.atapi = TRUE, !.mmc = TRUE, !.gives = {Full("mmc2B", Data(0, 2048))}]
Cooked == [Usual EXCEPT !.interface = "cooked", !.gives = {Full("cooked", Data(0, 2048))}]
Toshiba ==
  [Usual EXCEPT !.exception = [density |-> 130, enable |-> "scsi", read |-> "28", endian |-> TRUE],
     !.accepts = {Data(0, 2048), Audio(130)}, !.gives = {Full("28", Audio(130))}, !.fua = {"28"}]
Plain == [Usual EXCEPT !.gives = {Full("D8", Data(0, 2048))}]

(* A drive that reads with one command only, switched to one mode or none. *)
Reading(c, m) ==
  [Usual EXCEPT !.accepts = {Data(0, 2048), m}, !.gives = {Full(c, m)}]

Probed ==
  {Reading(c, m) : c \in Others, m \in {Audio(0), Audio(4), Audio(129), Audio(130)}}
    \cup {[Usual EXCEPT !.gives = {Full(c, Data(0, 2048))}] : c \in Commands \ {"cooked"}}

(* What may be odd about any of them.                                      *)
Oddities(d) ==
  {d, [d EXCEPT !.moody = TRUE], [d EXCEPT !.legal = FALSE], [d EXCEPT !.fua = {}],
   [d EXCEPT !.starts = FALSE], [d EXCEPT !.senses = FALSE],
   [d EXCEPT !.tracks = <<>>], [d EXCEPT !.tracks = <<"data">>], [d EXCEPT !.tracks = <<"silent">>],
   [d EXCEPT !.exception.endian = FALSE], [d EXCEPT !.exception.enable = "Dummy"],
   [d EXCEPT !.gives = {[g EXCEPT !.length = "short"] : g \in @}],
   [d EXCEPT !.gives = {}], [d EXCEPT !.accepts = {}]}

(* Blocks of 512 bytes, that can be made longer or cannot.                 *)
SmallBlocks ==
  LET d == [Toshiba EXCEPT !.mode = Data(1, 512), !.accepts = {Data(1, 512), Audio(130)}]
  IN  {d, [d EXCEPT !.accepts = @ \cup {Data(1, 2048)}],
       [d EXCEPT !.exception = NoRow, !.accepts = @ \cup {Data(1, 2048)}],
       [Plain EXCEPT !.mode = Data(1, 512), !.accepts = {Data(1, 512), Data(1, 2048)},
                     !.gives = {Full("D8", Data(1, 2048))}]}

AllDrives ==
  Probed \cup SmallBlocks \cup UNION {Oddities(d) : d \in {Atapi, Cooked, Toshiba, Plain}}
    \cup UNION {Oddities(d) : d \in {Reading("A8", Audio(4)), Reading("D4_12", Audio(129))}}
=============================================================================
