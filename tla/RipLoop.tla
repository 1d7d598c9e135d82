------------------------------ MODULE RipLoop ------------------------------
(***************************************************************************)
(* main() from cdda_open to "Done.": the table of contents is repaired and *)
(* shifted, the span is parsed, and the loop reads the span into one file, *)
(* or in batch mode into one file per track, each starting and ending      *)
(* sample_offset samples into a sector.  paranoia_read_limited is one step *)
(* (ParanoiaRead has its inside); a sample is its position on the disc.    *)
(***************************************************************************)
EXTENDS Toc, Sequences

CONSTANTS
  Discs,     (* what drives may report: [toc, lba of the second session]   *)
  Options,   (* command lines: [sample, toc, bias, batch, abort, shown,    *)
             (* span]; shown: the progress line goes to a terminal         *)
  Samples,   (* samples in a sector; 588 in the code                       *)
  Padding,   (* a sample made up behind the last readable sector           *)
  ErrnoKept  (* subset of BOOLEAN: may errno survive main()'s messages     *)

End  == [track : Int, sector : Int]
Line == [sample : Int, toc : Int, bias : BOOLEAN, batch : BOOLEAN,
         abort : BOOLEAN, shown : BOOLEAN, span : Seq(End)]

ASSUME RipAssumption ==
  /\ Samples \in Nat \ {0}
  /\ ErrnoKept \subseteq BOOLEAN
  /\ Padding \notin Int
  /\ \A d \in Discs : IsTable(d.toc) /\ d.lba \in Int
  /\ Options \subseteq Line

VARIABLES
  pc,                 \* where main() is
  opt,                \* the command line
  disc,               \* the disc, as the drive reports it
  toc,                \* d->disc_toc
  sample_offset,      \* samples, less than a sector once biased
  first_sector, last_sector,
  cursor,             \* main()'s idea of the next sector
  reader,             \* paranoia's: [cursor, last: current_lastsector]
  batch_first, batch_last, batch_track,
  offset_buffer,      \* the sector read across the end of the last file
  offset_buffer_used, \* samples of it that are in that file
  offset_skip,        \* samples to leave out of the next sector
  skipped_flag,
  medium,             \* FALSE once a read found the disc gone
  files               \* what is on disk, by track number; NoTrack: the span

setup   == <<opt, disc, toc, sample_offset, first_sector, last_sector>>
piece   == <<batch_first, batch_last, batch_track>>
offsets == <<offset_buffer, offset_buffer_used, offset_skip>>
vars    == <<pc, setup, cursor, reader, piece, offsets, skipped_flag, medium, files>>

NoTrack == -1
NoFile == [state |-> "absent", claim |-> 0, data |-> <<>>, marks |-> {}]
Names  == {NoTrack} \cup 0..disc.toc.tracks

Init ==
  /\ pc = "start"
  /\ opt \in Options
  /\ disc \in Discs
  /\ toc = disc.toc
  /\ sample_offset = opt.sample
  /\ first_sector = 0 /\ last_sector = 0
  /\ cursor = 0 /\ reader = [cursor |-> 0, last |-> 0]
  /\ batch_first = 0 /\ batch_last = 0 /\ batch_track = NoTrack
  /\ offset_buffer = <<>> /\ offset_buffer_used = 0 /\ offset_skip = 0
  /\ skipped_flag = FALSE
  /\ medium = TRUE
  /\ files = [n \in Names |-> NoFile]

-----------------------------------------------------------------------------
(* Only batch mode goes without a span; otherwise the usage is printed.    *)
SpanMissing == opt.span = <<>> /\ ~opt.batch

Usage ==
  /\ pc = "start"
  /\ SpanMissing
  /\ pc' = "exit"
  /\ UNCHANGED <<opt, disc, toc, sample_offset, first_sector, last_sector, cursor,
                 reader, piece, offsets, skipped_flag, medium, files>>

(* The drive's table is read and repaired; cdda_open may refuse it.        *)
OpenDisc ==
  /\ pc = "start"
  /\ ~SpanMissing
  /\ toc' = FixupTOC(disc.toc, disc.lba)
  /\ pc' = IF Illegal(toc') THEN "exit" ELSE "open"
  /\ UNCHANGED <<opt, disc, sample_offset, first_sector, last_sector, cursor,
                 reader, piece, offsets, skipped_flag, medium, files>>

(* Whole sectors of the sample offset move the table, the rest is kept and *)
(* made positive: what \div and % of TLA+ do.  -T sets the shift anew.     *)
BiasDisc ==
  LET shift == IF opt.bias THEN -cdda_track_firstsector(toc, 1)
                           ELSE opt.toc + opt.sample \div Samples IN
  /\ pc = "open"
  /\ sample_offset' = opt.sample % Samples
  /\ toc' = Shifted(toc, shift)
  /\ pc' = "biased"
  /\ UNCHANGED <<opt, disc, first_sector, last_sector, cursor, reader, piece,
                 offsets, skipped_flag, medium, files>>

(* parse_offset: one end of the span, a track and a sector within it, each *)
(* -1 when not given; -1 when there is nothing, Exits on a bad one.        *)
Exits == -9999
parse_offset(end, begin) ==
  LET from == IF end.track # -1 THEN cdda_track_firstsector(toc, end.track)
              ELSE IF begin = -1 THEN cdda_disc_firstsector(toc) ELSE begin
      at   == from + end.sector IN
  IF end.track > toc.tracks THEN Exits
  ELSE IF end.sector = -1 THEN
    IF end.track = -1 THEN -1
    ELSE IF begin = -1 THEN cdda_track_firstsector(toc, end.track)
    ELSE cdda_track_lastsector(toc, end.track)
  ELSE IF \/ end.track # -1 /\ cdda_sector_gettrack(toc, at) # end.track
          \/ at > cdda_disc_lastsector(toc) THEN Exits
  ELSE at

(* The span is <<>>, one end, or two with a hyphen between them.           *)
SpanFirst ==
  IF opt.span = <<>> THEN -1 ELSE parse_offset(opt.span[1], -1)
SpanLast ==
  IF Len(opt.span) < 2 THEN -1
  ELSE parse_offset(opt.span[2], IF SpanFirst = -1 THEN cdda_disc_firstsector(toc)
                                                   ELSE SpanFirst)

(* Missing ends are filled in; a span over a data track is refused.        *)
ParseSpan ==
  LET first == IF SpanFirst = -1 THEN cdda_disc_firstsector(toc) ELSE SpanFirst
      last  == IF SpanLast # -1 THEN SpanLast
               ELSE IF SpanFirst # -1 /\ Len(opt.span) = 1
                 THEN cdda_track_lastsector(toc, cdda_sector_gettrack(toc, first))
               ELSE cdda_disc_lastsector(toc)
      tracks == cdda_sector_gettrack(toc, first)..cdda_sector_gettrack(toc, last) IN
  /\ pc = "biased"
  /\ IF \/ Exits \in {SpanFirst, SpanLast}
        \/ opt.span # <<>> /\ SpanFirst = -1 /\ SpanLast = -1
        \/ \E n \in tracks : cdda_track_audiop(toc, n) = 0
       THEN pc' = "exit" /\ UNCHANGED <<first_sector, last_sector>>
       ELSE pc' = "parsed" /\ first_sector' = first /\ last_sector' = last
  /\ UNCHANGED <<opt, disc, toc, sample_offset, cursor, reader, piece, offsets,
                 skipped_flag, medium, files>>

(* paranoia_seek: it refuses a sector outside the disc only if that were   *)
(* reported as -1, which it is not.                                        *)
SeekTo(t, c) == [cursor |-> c, last |-> LastReadable(t, c)]

(* The reader is placed first; then the lead-out is moved by a sector so   *)
(* that the end of the last track can be read across it.                   *)
StartRip ==
  /\ pc = "parsed"
  /\ cursor' = first_sector
  /\ reader' = SeekTo(toc, first_sector)
  /\ offset_skip' = sample_offset
  /\ toc' = IF sample_offset = 0 THEN toc
            ELSE [toc EXCEPT !.start = [toc.start EXCEPT ![toc.tracks] = @ + 1]]
  /\ pc' = "loop"
  /\ UNCHANGED <<opt, disc, sample_offset, first_sector, last_sector, piece,
                 offset_buffer, offset_buffer_used, skipped_flag, medium, files>>

-----------------------------------------------------------------------------
(* Where the piece ends that begins in this track.                         *)
PieceEnd(track) == Min({cdda_track_lastsector(toc, track), last_sector})

(* The piece of the span that goes into the next file.                     *)
NextPiece ==
  LET track == cdda_sector_gettrack(toc, cursor) IN
  IF opt.batch
    THEN [first |-> cursor, last |-> PieceEnd(track), track |-> track]
    ELSE [first |-> first_sector, last |-> last_sector, track |-> NoTrack]

(* Open the piece's file, write a header that promises its length, and     *)
(* begin it with what the last file left of its last sector.               *)
OpenFile(opened, written) ==
  LET pending == offset_buffer_used # 0
      rest    == IF pending THEN SubSeq(offset_buffer, offset_buffer_used + 1, Samples)
                            ELSE <<>>
      claim   == (NextPiece.last - NextPiece.first + 1) * Samples IN
  /\ pc = "loop"
  /\ cursor <= last_sector
  /\ batch_first' = NextPiece.first
  /\ batch_last' = NextPiece.last
  /\ batch_track' = NextPiece.track
  /\ IF opened
       THEN /\ files' = [files EXCEPT ![batch_track'] =
                [state |-> "open", claim |-> claim, data |-> rest, marks |-> {}]]
            /\ cursor' = IF pending THEN cursor + 1 ELSE cursor
            /\ skipped_flag' = FALSE
            /\ pc' = IF ~written THEN "exit"
                     ELSE IF cursor' <= batch_last' THEN "reading" ELSE "closing"
       ELSE pc' = "exit" /\ UNCHANGED <<files, cursor, skipped_flag>>
  /\ UNCHANGED <<setup, reader, offsets, medium>>

(* The sector at paranoia's cursor; past the last readable one, silence.   *)
SectorAt(c) == [i \in 1..Samples |->
                  IF c > reader.last THEN Padding ELSE c * Samples + i - 1]

(* What may happen while a sector is read: nothing of note, a skip that    *)
(* callback() does not notice, or a skip or cache warning that it does     *)
(* notice, which takes a progress line on a terminal (-q has none) and an  *)
(* event that lies on the line.                                            *)
Events == {"none", "skip", "seen"}
MayHappen(event) == event = "seen" => opt.shown
Aborts(event) == event = "seen" /\ opt.abort

Store(data, event) ==
  [files EXCEPT ![batch_track].data = @ \o data,
                ![batch_track].marks = @ \cup ({event} \ {"none"})]

(* One sector is read and written, unless callback() raised skipped_flag   *)
(* meanwhile and -X was given.                                             *)
ReadSector(event, written) ==
  LET new == SubSeq(SectorAt(reader.cursor), offset_skip + 1, Samples) IN
  /\ pc = "reading"
  /\ medium
  /\ MayHappen(event)
  /\ reader' = [reader EXCEPT !.cursor = @ + 1]
  /\ IF Aborts(event)
       THEN /\ cursor' = batch_last + 1
            /\ files' = Store(<<>>, event)
            /\ skipped_flag' = TRUE
            /\ pc' = "closing"
            /\ UNCHANGED offset_skip
       ELSE /\ cursor' = cursor + 1
            /\ files' = Store(new, event)
            /\ offset_skip' = 0
            /\ skipped_flag' = FALSE
            /\ pc' = IF ~written THEN "exit"
                     ELSE IF cursor' <= batch_last THEN "reading"
                     ELSE IF sample_offset # 0 THEN "shifting" ELSE "closing"
  /\ UNCHANGED <<setup, piece, offset_buffer, offset_buffer_used, medium>>

(* paranoia lost the medium.  main() asks errno why, after it has printed  *)
(* messages and freed them: exit, or drop the file and go on.              *)
ReadFails(kept) ==
  /\ pc = "reading"
  /\ kept \in ErrnoKept
  /\ medium' = FALSE
  /\ IF kept THEN pc' = "exit" /\ UNCHANGED skipped_flag
             ELSE pc' = "closing" /\ skipped_flag' = TRUE
  /\ UNCHANGED <<setup, cursor, reader, piece, offsets, files>>

(* At the end of the piece, the sector its last samples are in: its first  *)
(* part is written, the whole is kept for the next file, and the cursor    *)
(* does not move.                                                          *)
ReadShift(event, written) ==
  LET new == SectorAt(reader.cursor) IN
  /\ pc = "shifting"
  /\ medium
  /\ MayHappen(event)
  /\ reader' = [reader EXCEPT !.cursor = @ + 1]
  /\ IF Aborts(event)
       THEN /\ files' = Store(<<>>, event)
            /\ skipped_flag' = TRUE
            /\ pc' = "closing"
            /\ UNCHANGED <<offset_buffer, offset_buffer_used>>
       ELSE /\ files' = Store(SubSeq(new, 1, sample_offset), event)
            /\ offset_buffer' = new
            /\ offset_buffer_used' = sample_offset
            /\ skipped_flag' = FALSE
            /\ pc' = IF written THEN "closing" ELSE "exit"
  /\ UNCHANGED <<setup, cursor, piece, offset_skip, medium>>

(* The same at the end of the piece, where errno is not looked at.         *)
ShiftFails ==
  /\ pc = "shifting"
  /\ medium' = FALSE
  /\ skipped_flag' = TRUE
  /\ pc' = "closing"
  /\ UNCHANGED <<setup, cursor, reader, piece, offsets, files>>

(* Seeded faults: the cursor moves on but paranoia is not told; the sector *)
(* kept for the next file outlives an abort; the same track is next again. *)
StartAfresh_NoSeek(track) ==
  /\ cursor' = cdda_track_firstsector(toc, track)
  /\ offset_skip' = sample_offset
  /\ offset_buffer_used' = 0
  /\ UNCHANGED <<reader, offset_buffer>>
StartAfresh_KeepsBuffer(track) ==
  /\ cursor' = cdda_track_firstsector(toc, track)
  /\ reader' = SeekTo(toc, cursor')
  /\ offset_skip' = sample_offset
  /\ UNCHANGED <<offset_buffer, offset_buffer_used>>
StartAfresh_SameTrack(track) ==
  /\ cursor' = cdda_track_firstsector(toc, track - 1)
  /\ reader' = SeekTo(toc, cursor')
  /\ offset_skip' = sample_offset
  /\ offset_buffer_used' = 0
  /\ UNCHANGED offset_buffer

(* After an abort in batch mode: on to the beginning of the next track.    *)
StartAfresh(track) ==
  /\ cursor' = cdda_track_firstsector(toc, track)
  /\ reader' = SeekTo(toc, cursor')
  /\ offset_skip' = sample_offset
  /\ offset_buffer_used' = 0
  /\ UNCHANGED offset_buffer

(* Seeded fault: the aborted file stays.                                   *)
ClosedState_NoUnlink == "kept"
ClosedState == IF skipped_flag THEN "removed" ELSE "kept"

(* Close the file; unlink it if it was aborted.                            *)
CloseFile ==
  /\ pc = "closing"
  /\ pc' = "loop"
  /\ files' = [files EXCEPT ![batch_track].state = ClosedState]
  /\ IF skipped_flag /\ batch_track # NoTrack
       THEN StartAfresh(batch_track + 1) /\ batch_track' = batch_track + 1
       ELSE UNCHANGED <<cursor, reader, offsets, batch_track>>
  /\ UNCHANGED <<setup, batch_first, batch_last, skipped_flag, medium>>

Done ==
  /\ pc = "loop"
  /\ cursor > last_sector
  /\ pc' = "done"
  /\ UNCHANGED <<setup, cursor, reader, piece, offsets, skipped_flag, medium, files>>

Next ==
  \/ Usage \/ OpenDisc \/ BiasDisc \/ ParseSpan \/ StartRip
  \/ \E opened, written \in BOOLEAN : OpenFile(opened, written)
  \/ \E event \in Events, written \in BOOLEAN :
       ReadSector(event, written) \/ ReadShift(event, written)
  \/ \E kept \in BOOLEAN : ReadFails(kept)
  \/ ShiftFails
  \/ CloseFile
  \/ Done

Spec == Init /\ [][Next]_vars

(* main() is the only thread; that every read returns is ReadReturns of    *)
(* ParanoiaRead.                                                           *)
FairSpec == Spec /\ WF_vars(Next)

-----------------------------------------------------------------------------
(* However broken the table a drive reports, once it is accepted the       *)
(* tracks follow one another without overlap: every sector before the      *)
(* lead-out belongs to the one track whose first and last sectors enclose  *)
(* it, which is what batch mode cuts the span by (FixupTOC, toc.c).        *)
TracksPartitionDisc ==
  pc \notin {"start", "exit"} =>
    \A s \in toc.start[0]..(toc.start[toc.tracks] - 1) :
      LET enclosing == {n \in 1..toc.tracks :
            cdda_track_firstsector(toc, n) <= s /\ s <= cdda_track_lastsector(toc, n)} IN
      enclosing = {cdda_sector_gettrack(toc, s)}

(* While a sector is about to be read, the sector main() counts is the one *)
(* paranoia will return: the leftover of the last file counts as read, the *)
(* sector across its end is not counted, and an abort moves both.          *)
ReaderInStep == pc = "reading" => reader.cursor = cursor

(* The samples the user asked for: those of the track as the repaired      *)
(* table has it, moved by the options, as far as the span goes.            *)
Repaired == FixupTOC(disc.toc, disc.lba)
Moved(sector) ==
  (sector + (IF opt.bias THEN -Repaired.start[0] ELSE opt.toc)) * Samples + opt.sample
SpanFrom == first_sector * Samples + sample_offset
SpanTo   == (last_sector + 1) * Samples + sample_offset
From(n) == IF n \in {NoTrack, 0} THEN SpanFrom
           ELSE Max({SpanFrom, Moved(Repaired.start[n - 1])})
To(n) == IF n = NoTrack THEN SpanTo
         ELSE Min({SpanTo, Moved(IF n = 0 THEN Repaired.start[0] ELSE Repaired.start[n])})

(* A batch piece of one sector that begins with a leftover: see the README *)
(* for what the code does with it.                                         *)
OneSectorPiece(n) ==
  opt.batch /\ sample_offset # 0 /\ files[n].claim = Samples /\ From(n) # SpanFrom

Whole(n) == files[n].state = "kept" /\ ~OneSectorPiece(n)

(* Every file that is kept holds exactly the wanted samples of its track,  *)
(* in order and without a gap to the files beside it, whatever was aborted *)
(* before it; samples may be made up only behind the end of the disc.  The *)
(* header, written before anything is read, tells the true length.         *)
FileHoldsTrack ==
  \A n \in Names : Whole(n) =>
    /\ Len(files[n].data) = To(n) - From(n)
    /\ files[n].claim = Len(files[n].data)
    /\ \A i \in 1..Len(files[n].data) :
         \/ files[n].data[i] = From(n) + i - 1
         \/ files[n].data[i] = Padding /\ From(n) + i > SpanTo - sample_offset

(* With -X no file is kept in which callback() saw a skip.                 *)
SkippedRemoved ==
  opt.abort => \A n \in Names : files[n].state = "kept" => "seen" \notin files[n].marks

(* The loop over the span ends.                                            *)
RipEnds == <>(pc \in {"done", "exit"})

(* What the sources say and the loop does not do; runs of their own.       *)

(* "set the disc length forward here so that the libs are willing to read  *)
(* past" (main.c): the end of a shifted last track is read, not made up.   *)
ShiftedEndRead ==
  \A n \in Names : files[n].state = "kept" =>
    \A i \in 1..Len(files[n].data) : files[n].data[i] # Padding

(* "make the cursor correct if we have another track" (main.c): after an   *)
(* abort the rip goes on behind the track or not at all.                   *)
CursorInSpan == pc = "loop" => cursor >= first_sector
=============================================================================
