-------------------------------- MODULE Toc --------------------------------
(***************************************************************************)
(* The table of contents as the interface library answers questions about  *)
(* it (interface/toc.c), the repairs made when it is read (FixupTOC) and   *)
(* the test cdda_open makes.  A table is a record: tracks, and for entries *)
(* 0..tracks, the last being the lead-out, start and audio.  Track n is    *)
(* entry n - 1; track 0 is the pre-gap of track 1.                         *)
(***************************************************************************)
EXTENDS Integers, FiniteSetsExt

(* Whatever a drive reports: without a track it would not be opened.       *)
IsTable(t) ==
  /\ t = [tracks |-> t.tracks, start |-> t.start, audio |-> t.audio]
  /\ t.tracks \in Nat \ {0}
  /\ t.start \in [0..t.tracks -> Int]
  /\ t.audio \in [0..t.tracks -> BOOLEAN]

BadTrack == -401
NoAudio  == -403

Listed(t, track) == track \in 1..t.tracks

cdda_track_firstsector(t, track) ==
  IF track = 0 /\ t.start[0] # 0 THEN 0
  ELSE IF Listed(t, track) THEN t.start[track - 1] ELSE BadTrack

cdda_track_lastsector(t, track) ==
  IF track = 0 /\ t.start[0] # 0 THEN t.start[0] - 1
  ELSE IF Listed(t, track) THEN t.start[track] - 1 ELSE BadTrack

(* 1 for audio, 0 for data, and an error code, which is not 0 either.      *)
cdda_track_audiop(t, track) ==
  LET entry == IF track = 0 THEN 1 ELSE track IN
  IF ~Listed(t, entry) THEN BadTrack
  ELSE IF t.audio[entry - 1] THEN 1 ELSE 0

AudioTracks(t) == {n \in 1..t.tracks : cdda_track_audiop(t, n) = 1}

cdda_disc_firstsector(t) ==
  IF AudioTracks(t) = {} THEN NoAudio
  ELSE IF Min(AudioTracks(t)) = 1 THEN 0
  ELSE cdda_track_firstsector(t, Min(AudioTracks(t)))

cdda_disc_lastsector(t) ==
  IF AudioTracks(t) = {} THEN NoAudio
  ELSE cdda_track_lastsector(t, Max(AudioTracks(t)))

cdda_sector_gettrack(t, sector) ==
  LET holding == {n \in 1..t.tracks :
                    t.start[n - 1] <= sector /\ sector < t.start[n]} IN
  IF sector < t.start[0] THEN 0
  ELSE IF holding = {} THEN BadTrack ELSE Min(holding)

-----------------------------------------------------------------------------
(* FixupTOC runs over every entry, the lead-out included.  First, in one   *)
(* pass: a negative start, or one beyond its successor's, becomes 0.       *)
ZeroWildStarts(t) ==
  [j \in 0..t.tracks |->
     IF \/ t.start[j] < 0
        \/ j < t.tracks /\ t.start[j] > t.start[j + 1]
       THEN 0 ELSE t.start[j]]

(* Then no start may lie before an earlier one.                            *)
RaiseToEarlier(t, start) == [j \in 0..t.tracks |-> Max({start[i] : i \in 0..j})]

SessionGap == 11400     \* lead-out, lead-in and pre-gap between two sessions

(* Seeded fault: the session is not checked to end behind the audio track. *)
EndFirstSession_Anywhere(t, start, lba) ==
  LET turns == {j \in 1..t.tracks : ~t.audio[j] /\ t.audio[j - 1]}
      j     == Max(turns)
      end   == lba - SessionGap IN
  IF lba > 100 /\ turns # {} /\ start[j] > end
    THEN [start EXCEPT ![j] = end]
    ELSE start

(* With a second session the last data track that follows an audio track   *)
(* is made to begin where the first session ends; no other is looked at.   *)
EndFirstSession(t, start, lba) ==
  LET turns == {j \in 1..t.tracks : ~t.audio[j] /\ t.audio[j - 1]}
      j     == Max(turns)
      end   == lba - SessionGap IN
  IF lba > 100 /\ turns # {} /\ start[j] > end /\ end > start[j - 1]
    THEN [start EXCEPT ![j] = end]
    ELSE start

FixupTOC(t, lba) ==
  [t EXCEPT !.start = EndFirstSession(t, RaiseToEarlier(t, ZeroWildStarts(t)), lba)]

(* cdda_open refuses a table with one of these.                            *)
Illegal(t) == \E j \in 0..(t.tracks - 1) : t.start[j] < 0 \/ t.start[j + 1] = 0

(* main() moves the whole table by the wanted number of sectors.           *)
Shifted(t, sectors) ==
  [t EXCEPT !.start = [j \in 0..t.tracks |-> t.start[j] + sectors]]

-----------------------------------------------------------------------------
(* i_paranoia_firstlast: how far paranoia may read when its cursor is set  *)
(* to c.  Of several data tracks behind c the last one decides.            *)
LastReadable(t, c) ==
  LET data == {i \in cdda_sector_gettrack(t, c)..(t.tracks - 1) :
                 cdda_track_audiop(t, i) = 0}
      last == cdda_track_lastsector(t, Max(data) - 1) IN
  IF data = {} \/ last = -1 THEN cdda_disc_lastsector(t) ELSE last
=============================================================================
