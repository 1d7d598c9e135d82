# cdparanoia in TLA+

cdparanoia reads audio from a CD that cannot be addressed exactly: a drive
returns samples that may be displaced, missing, repeated or stale, and the
program reads every place several times, compares, and splices what agrees
into one stream of samples. This directory models that program. TLC checks
the modules on small instances, TLAPS proves theorems about most of them
for all parameters. `PROJECT.json` says which lines of the source each definition
stands for, and which seeded fault each property was tried against.

## 1. The system

    main.c             options, span of the disc, rip loop, output files
      |  paranoia_read_limited, paranoia_seek
    paranoia/          the verifying reader
      paranoia.c         read loop, block reading, stage 1, stage 2, skips
      p_block.c          linked lists of blocks and fragments
      overlap.c          trimming, offset statistics, drift
      gap.c              rift analysis
      isort.c            index from sample values to positions
      |  cdda_read, cdda_read_timed, track lookup
    interface/         the drive
      interface.c, toc.c, common_interface.c
      cooked_interface.c, scsi_interface.c, test_interface.c
    buffering_write.c  one buffer in front of the output files

| component | state | operations | what is hard | what makes it right |
|---|---|---|---|---|
| Rip loop (`main.c`) | cursor, span, batch track, `offset_buffer`, output file | open, header, read a sector, write it, abort on skip, next track | a sector shared by two files, aborted tracks, one-sector tracks | each file holds exactly its track, shifted by the sample offset |
| Output buffering | `bw_fd`, `bw_pos`, `bw_outbuf` | `buffering_write`, `buffering_close` | descriptor reuse, partial and failed writes | no byte lost, repeated or misfiled |
| Read loop (`paranoia_read_limited`) | cursor, root, blocks, fragments, `dynoverlap`, retries | read, seek, trim, merge, pad, skip | retries against skips, a root that is rewritten after parts of it were returned, end of session | sectors come in order from one verified root, calls return |
| Block reading (`i_read_c_block`) | jitter, cache window | one block as a run of requests | clipping at both ends, short and failed requests, loss of the medium | contiguous addresses, fresh data, end of session recognised |
| Drive cache model | `cdcache_begin`, `cdcache_end` | update, flush | a guess about hidden state of the drive | never narrower than the drive's cache |
| Stage 1 (`i_stage1`) | block flags, sort index, search window | compare a new block with every cached one | offsets, drift correction while iterating | a verified sample was read twice |
| Stage 2, rifts (`i_stage2`, `gap.c`) | root, fragments, silence flag | merge, repair rifts, glom | splicing at repeated or silent samples | splices keep the stream's order |
| Offset statistics (`overlap.c`) | sums of offsets, `dynoverlap`, `dyndrift` | add a value, adjust | shifts every block while positions are held | overlap stays within its bounds |
| Table of contents (`toc.c`, `FixupTOC`) | track starts | sector to track, first and last sectors, repair | gaps, data tracks, bad tables | sessions contain only audio |
| Transports (`scsi_interface.c`, `cooked_interface.c`) | `nsectors`, retry counters, errno | read sectors with retries, reset | halving, retrying, giving up, signals | bounded retries, right length or error |
| Drive open and close (`interface.c`, `scsi_init_drive`, `cooked_init_drive`) | mode of the drive, command, `density`, `enable_cdda`, `orgdens`, `orgsize`, `opened` | defaults, probe, FUA test, byte order, switch, close | some dozen switches back and forth, refusals, fallthroughs | reads in the mode that worked, puts the drive back |
| Device scan, byte order, headers, cache test, options, reports, test drive | | | I/O, timing or formatting | not modelled, see section 7 |

Everything runs in one thread. What interleaves is the drive, which may do
anything between two requests; the caller, which reads and seeks; and the
kernel, which hands out descriptors again and may write part of a buffer.
The hazards that follow are listed line by line in `PROJECT.json`.

## 2. Modules

`ByteStream` is what output buffering promises: bytes are offered to a file,
a prefix of them is on disk, and a file closed without a reported error is
complete. `BufferingWrite` is `buffering_write.c` with `blocking_write` below
it; a byte is the pair of the file it is meant for and its position in that
file. `bw_pos` is the length of `bw_outbuf`; `fileOf` is the kernel's table of
descriptors, so that a number can name another file later, while `bw_fd` still
holds it. `WriteFits`, `WriteSpills` and `WriteSwitches` are the three ways
through `buffering_write` (the C code can do the switch and then save into the
empty buffer; a write longer than the buffer does not occur, which
`MaxNum \in 1..OUTBUFSZ` says). `Emit` is `blocking_write`: all of the bytes,
or a proper prefix and an error.

`CacheModel` has the arithmetic of the drive-cache guess and, as an external
component, a drive that caches `DriveCache` sectors, drops the lowest when it
reads on and empties its cache when it seeks back. `ReadBlock` is
`i_read_c_block`: `BeginRead` chooses the start (`JitteredStart`) and runs
`cdrom_cache_handler`; `Request`, `SkipAhead`, `EndRead` and `NoMedium` are the
ways round the request loop. The buffer is the list of the disc's sectors it
stands for, so a shift of addresses shows. `stale` collects the sectors that
came out of what the drive had cached for earlier blocks.

`ParanoiaRead` is `paranoia_read_limited` with everything it calls, at the
level of intervals of word positions. `pc` is the place in the loop: `check`
(loop condition), `stage2` (merging, one action per fragment), `enough` (the
test before reading, and the read), `account` (retries and skips). The root is
an interval and its `lastsector` and `returnedlimit`; a block has its interval,
its place in the list (`age`) and the fragments cut from it. What the samples
decide is a free choice: which run of a new block stage 1 verifies, whether a
fragment matches the root and with what jitter, whether a rift is repaired,
whether the root ends in silence, which of the grafts a skip takes.
`enable` is the mode of `paranoia_modeset`.

`Stage2` opens the free choices of `ParanoiaRead`'s merging: fragments and root
are vectors of samples (integers, 0 is silence). `Vectors` has what compares and
edits them, as operators: `i_paranoia_overlap` and the editing functions of
`p_block.c`; `Rifts` is `gap.c`. Between calls (`pc = "idle"`) the drive delivers a
fragment (`Verify`, for all of stage 1) or the caller is given a sector;
`StartStage2` trims and takes the list of fragments, and then a pass visits the
lowest of `todo` one by one: `InitRoot`, or the search (`MatchFound`) and
`BeginMerge`, then one action per rift, first backward (`leading`: `begin`,
`end`, `offset` in the code are `run` and `offset` here), then forward
(`trailing`), then `Glom`. A pass in which nothing merged ends or, if the root
ends in silence, goes over the same list for `i_silence_match`. Each of these
counts its offset (`offset_add_value`: in the search, 358 and 386; after the
glom, 1802; after a match by silence, 1056 and 1111), and so does stage 1
(`Verify`). Counting may be followed by a drift, which moves the fragments that
are in the list and shifts later reads (`Drifts`, `DriftBy`, `Left`, `dyndrift`);
a fragment, or its block, that would come to lie below 0 loses its block and
is out of the list (`torn`). The sums are `Stage1`'s; in `Stage2` whether there
is a drift, of which of the sizes in `drive.drifts`, is a free choice. A drift in the search comes between the match and
the offset that line 1206 takes from it, so that `BeginMerge` starts with an
offset that is wrong by the drift (`upset` is `moved`), or with a fragment
without samples (`torn`). From there the code may read or copy what
is outside of its vectors: `GoAstray` leads to `undefined`, where the model
stops. The scratch copy
`l` is made at the start instead of at the first rift, and `dynoverlap` is
constant (`Stage1` adjusts it); a root with `lastsector` set is
`ParanoiaRead`'s to pad.

`Stage1` opens the other free choice, what stage 1 verifies. A block has its
samples and the offsets flagged as edges or unread; `verified` holds the flags
stage 1 sets, and `frags` is the list of fragments, which is known by the block
and the offset each was cut at: `NotBehind` is the order of the list. `Read` puts a block in the list and begins; each round of the
search is `PassOver` or `Match` (`Places` is `try_sort_sync`, `RunAt`
`i_paranoia_overlap2`, `Marked` what `stage1_matched` flags), `NextBlock` goes
on to the next older block, `CutFragments` makes fragments of the flags. The
sort index is the set of places it would answer with. `Offsets` is the
statistics of `overlap.c`: `Counted` is `offset_add_value`, and `Settle`,
`MovedBlocks` and `MovedFragments` are `offset_adjust_settings`, which happens
inside of `Match`, between the search and the marking, as in the code. Stage 2
is there by the offsets it counts: `Stage2Match` in the search and `Stage2Merge`
after the glom.

`DriveSetup` is how a drive comes to be read: `scsi_init_drive` and
`cooked_init_drive` (`ChooseDefaults`, `LearnMode`, `ReadToc`),
`verify_read_command` (`TryExpected` and the probe, whose `Trials` are the five
times fifteen commands of the source, fallthroughs resolved), `check_cache`, the
rest of `cdda_open` (`CheckToc`, `CheckEndian`, `EnableForGood`), the late test
of the byte order in `cdda_read`, and `cdda_close`. `mode` is the density and
block size the drive is in, which `enable_cdda` switches around every command;
`drive` says which commands give a sector in which modes, and what it refuses.

`Toc` is the table of contents: the lookups of `toc.c`, `FixupTOC`, the test in
`cdda_open`, the shift by whole sectors (`Shifted`) and the limit
`i_paranoia_firstlast` derives from it (`LastReadable`). Sectors outside the
disc give the negative codes of the C functions. `RipLoop` EXTENDS it and is
`main()` from opening the drive to the end: `Usage` turns away
a command line without a span, `OpenDisc`, `BiasDisc`, `ParseSpan` and
`StartRip` run once; `OpenFile`, `ReadSector`, `ReadShift` and `CloseFile`
are the loop over the files and over the sectors of one. A read of paranoia is
one step here: it returns the sector at `reader.cursor`, or padding behind
`reader.last`, or NULL (`ReadFails`, `ShiftFails`). A sample is its position on
the disc, so a file is a sequence of positions and can be compared with the
samples the track has. `BufferingWrite` and `ParanoiaRead` are what stands
behind its writes and reads.

`Transport` is one call of `cdda_read_timed`: `Call`, then commands
(`SgSend`, `SgSendTimesOut`, `SgWriteFails`, `SgReply` and `SgTimeout` over the
sg driver's queue, `IoctlCommand` over
SG_IO and the cooked driver), and the loop of `scsi_read_map` or `cooked_read`
around them (`Scsi*`, `Cooked*`, `NextTry`), with the bus reset in between.
`queue` is the state of the sg driver: commands the drive has not answered and
replies nobody has read. What it returns (fewer sectors than asked, zero, or a
negative code) is what `ReadBlock!Request` may get.

The `MC*` modules give TLC the values a configuration file cannot write.
The `*Proofs` modules hold the theorems of the module they are named after.

## 3. Runs

Positions are small because nothing in the loop depends on the size of a
sector: `FRAMEWORDS` is 1, the overlap one or two sectors, a block three, the
list holds two blocks, which is enough for blocks to be culled, cut off by
trimming and left over by seeks. `RetryStep` (5 in the code) is 2 and the retry
limit a multiple of it. `MaxCursor`, `MaxBytes` and the targets bound a run.

| run | question |
|---|---|
| `buffering` | two files on two descriptor numbers, a three-byte buffer, writes of one and two bytes, headers, any failure: `DiskInOrder`, `NothingLost`, and `StreamSpec`, that the buffered files implement `ByteStream` |
| `block_read` | blocks of four sectors, requests of three, two targets far apart so that reads go forwards and backwards, a session that starts above sector 0; one drive that delivers everything and one that does not |
| `read` | a session of three sectors read to its end and past it, in full paranoia, with overlap checking only (-Y) and without (-Z), seeks between two sectors with the lists kept, jitter 0 and 1, drives that fail for ever |
| `read_far_start` | expected to fail, see section 6 |
| `rip` | seven discs (plain, with a pre-gap, with starts out of order or negative, one that is refused, two with a second session) under sixteen command lines (batch or not, -X, -O of either sign, -t, -T, spans), two samples a sector, while any read may skip or lose the disc and any open or write fail |
| `rip_last_track`, `rip_shifted_end` | expected to fail, see section 6 |
| `stage2` | six drives of up to fifteen fragments: whole but displaced, in place with silence between, fading to silence, displaced with silence, with samples lost or repeated, garbled or padded with silence; three of them delivered in any order, sectors returned in between; and four drives that wander, by -2, 1, 2 or 4 samples, whole or with a sample lost, where a drift may follow whatever is counted |
| `stage1` | seven drives: whole blocks, requests that begin late or early, short ones, lost, wrong, missing and displaced samples, a passage that comes again, -Y, a reader that drifts; three or four blocks in any order, freed at any time, statistics of stage 2 in between, overlap adjusted or forced |
| `stage1_drift` | expected to fail, see section 6 |
| `setup` | 114 drives: every command in every mode it may need, and ATAPI, cooked, Toshiba, plain and probed drives with what may be odd about each |
| `transport` | three ways to the drive, reads of up to three sectors with two a command, every error after every command, late and short replies, resets that fail, probing and opened drives |

The properties: `FreshBlock` (no sector of a block came out of the drive's
cache), `WindowCoversDrive` (the guess contains the truth),
`BlockIsContiguous` (addresses follow one another, and a short block is one
that reached the end and says so), `StartsVary` (fifteen different
alignments before one recurs) and `CallReturns` for block reading;
`ReturnedProtected` (while fragments are merged `returnedlimit` covers what the
caller has), `RootKept` (between seeks the next sector is
always joined to the last), `CacheBounded`, `PaddingAtEnd`
(zeros are only added to a root that reached the end of the session) and
`ReadReturns` (every call that verifies, or overlaps, returns; without either
there is the case in section 6) for the read loop. For the rip: `TracksPartitionDisc` (after
`FixupTOC` every sector is in the one track that encloses it), `ReaderInStep`
(`main()` and paranoia agree on the next sector whenever one is read),
`FileHoldsTrack` (a kept file is exactly its track's samples, shifted as asked,
and as long as its header promised in advance), `SkippedRemoved` and `RipEnds`.
For stage 1: `VerifiedTwice` (two samples that follow each other in a fragment
do so in a run of another block that both reads delivered, longer than a
coincidence and across no request boundary of both), `FragmentIsDisc` (so
fragments are the audio, if reads go wrong alike only where requests meet),
`AgreementFound` (the search, which looks at every 23rd sample and skips,
misses no run that is in place) and `FragmentsInPlace` (fragments and their
blocks are moved together). For the drive: `ReadsAsProven` (the command and the
mode in force when the program reads are those that delivered a sector),
`ProbeComplete` (a drive is given up only if no command reads it) and
`ModeRestored`. For stage 2: `RunAgrees` (the
offsets that relate root and fragment stay right through every repair, if they
were when the merge began), `RepairsSpareReturned`, `VisitsLive`, `RootIsDisc` (what
is in place and stays there gives the audio in place, silence included, if the silence is all in one place), `RootIsWhole` (what is
displaced gives the audio without gap or repetition, unless a drift came between
a match and its merge; `misled` says so), `MergeHeals` (a rift that
can be mended from the other vector is) and `MergeEnds`. For the transports: `OwnData` (what is
returned is this read's and was delivered), `TriesBounded`,
`MediumLossReported` and `CallReturns`.

In `stage2` the thresholds keep their order (a rift needs two samples that
agree, a match more than three, silence four; the code has 16, 64 and 1024) and
a window of the search is eight positions with posts two apart, so that it is
clipped by either vector, by the window and by the overlap. A fragment has at
most 14 samples, which leaves room for two rifts of two samples with enough
around them. Every kind of repair, refusal, cut, splice and stretch occurs; the
one branch that does not is a comparison of a leading rift past the end of a
vector, for which the model leaves both outcomes open.

In `stage1` a match is more than four samples, posts are three apart and
statistics of two points (64, 23 and 10 in the code), so that a block of 16 to
20 samples holds several posts, two requests and a boundary with its edges, and
a drift happens within four blocks. Every action fires, with every way a run
can end. `TELLING` is three, all that two runs that join share there.

Two samples a sector are enough because the code only distinguishes an offset
of none from one inside the sector; a disc has at most four tracks of a few
sectors. Two things `rip` leaves out of its properties, and why, are in section
6. In `transport` `MAX_RETRIES` is 6 instead of 8, above the 4 from which
`cooked_read` makes its request smaller; `MaxQueued` 2 is more than current
kernels accept from this program; `MaxSignals` and `MaxUnready` bound what the
code does not count.

## 4. Fairness

`ReadBlock!FairSpec` and `ParanoiaRead!FairSpec` assume weak fairness of the
steps inside a call, and of nothing else: a call that was entered is
straight-line C in one thread, and the kernel runs it. Calls, seeks and what
the drive delivers are not assumed; a drive may fail for ever, and the loop has
to end by itself. `RipLoop!FairSpec` is weak fairness of `Next` (that a read
returns is `ParanoiaRead!ReadReturns`), `Transport!FairSpec` of the steps
inside a call: every wait there is a `select` or an ioctl with a time limit.
`Stage2!FairSpec` is weak fairness of the
steps of `i_stage2`, which is a loop in one thread.
`CallReturns` needs signals to cease and the drive not to claim for ever that
it is becoming ready; the model's bounds on both are that assumption. It names
one exception itself (`OldSignal`): a sg driver that takes no command any more
while errno still holds an EINTR, see section 6.

## 5. What is proved

Each theorem holds for all values of the constants that the named assumption
of the module allows. Where a theorem needs more than that it says so, and the
rest of this section says what is beyond it.

`BufferingWriteProofs`, from `BufferingAssumption` (a buffer of at least one
byte and no single write longer than it): `Invariance`, `TypesHold`,
`FilesInOrder`, `FilesComplete` and `Refinement` (`Spec => StreamSpec`). The
properties are not inductive: that the disk is in order does not follow from
its being in order before, because the bytes that are appended come from the
buffer. `IInv` adds where every byte is: the bytes held for a file are exactly
the end of what it was offered (`HeldOK`), nothing on disk is from that end,
a file without a reported error has the rest on disk (`Counted`), and a
descriptor with bytes in the buffer is open and is the only one of its file
(`DescriptorsOK`). After an exit only the order on disk is left (`DiskOK`).

`ReadBlockProofs`, from `CacheAssumption` and `ReadBlockAssumption`. `TypesHold`, `AddressesFollow` and
`StartsDiffer` hold for every drive and session. What they rest on is
`BufferInv`: the buffer is a stretch of the session and the next request begins
where it ends. `NoStaleSector` and `GuessCovers` need `WithinModel`, which is
what the guess in the code assumes of the world: the drive caches no more than
`cdcache_size`, it can be sent where the cache handler sends it, and the
session begins the disc or is no shorter than the cache. What happens without
the last is in section 6. `CacheInv` says that what the drive holds
lies in the window (`DriveInv`), how the window lies to the start of the block
(`StartInv`), and that the next request lies below what the drive holds or
beyond where the window ended before the block (`FreshInv`).

`ParanoiaReadProofs`, from `ReadAssumption` (sizes are positive, the overlap is
at least `MIN_WORDS_OVERLAP`): `TypeCorrect`, `TypesHold`, `CacheIsBounded`,
`Invariance`, `ReturnedIsProtected`, `RootIsKept` and `PaddingOnlyAtEnd`, for every overlap, block size, cache limit, retry limit,
mode, session and jitter. `TypeInv` adds to the types that the ages of the
cached blocks are distinct and below the limit, from which the bound on their
number follows by counting. `RootInv` and `FragmentsOK` say which roots and
fragments carry the end-of-session flag. `KeptInv` is the heart: while a track
is being read the root starts at or before the cursor and ends no further
behind it than trimming tolerates, and `returnedlimit` is at least the
cursor's first word whenever merging may rewrite the root. It is needed
because `returnedlimit` is set in four places and lowered by freeing the root.

`Stage1Proofs`, from `OffsetsAssumption`, `Stage1Assumption` (a join of four samples at least; the
code's `MIN_WORDS_OVERLAP` is 64) and `SearchAssumption` (posts no further apart
than a match is long, and trimming that does not eat it up: 23, 64 and 62 in the
code). `FragmentsStay` is by `PlaceInv`: however offsets are counted and
settings adjusted, `MovedBlocks` and `MovedFragments` subtract the same.
`ReadTwice` is by `TwiceInv`: every flagged sample of the new block lies in some
older block's run and the width of the trimming inside of it; so the stretch
that is cut and widened again lies in the union of such runs, and each two
neighbours of it in one. `NothingPassedOver` is by `WithinInv` and `AheadInv`:
an agreement of more than a coincidence that is not yet flagged is still ahead
of the post, because a step of `STRIDE` cannot jump over it, and because a run
that ends inside of it would have gone on (`ForwardIs`, and the new block
repeats nothing). `FragmentsAreDisc` goes on from `TwiceInv`: the width of the
trimming makes any `TELLING` neighbours of a fragment lie in one run
(`FragmentRuns`), so that a break between them would be one that two reads
share where their requests do not meet; and what is on the disc so many samples
at a time is on it as a whole (`ChainOnDisc`), because each step shares all but
one with the one before. That takes `PlacesApart`: the audio has the same
`TELLING` - 1 samples in a row at one place only. `TellingAssumption` lets
`TELLING` be 63 for the code's thresholds, about the 64 words that the code
itself takes for no coincidence; in the run it is 3, and its audio has
`PlacesApart`. Real audio has it but for silence and loops, where the code, too,
cannot tell (`i_silence_match`).

`Stage2Proofs`, from `RiftAssumption`, `Stage2Assumption` (lengths are natural
numbers) and `DriveAssumption` (what is delivered are fragments: any, clean or
not): `FreedNotVisited`, `MergedRunsAgree` and `RepairsSpare`; with
`FragmentAssumption` (a fragment is longer than a match, which is what stage 1
flags and widens again; -Y, which cuts at edges instead, is left out of these
two) also `RootWhole` and `RootDisc`. All but `RootDisc` allow drifts of any
size, after anything that is counted. The first half of the module says what the operators do: which samples `Insert`, `Remove`, `Cut` and
`Overwrite` leave where they were and which they move (`InsertIs` to
`OverwriteIs`), that the run around two equal samples is one in both vectors
(`OverlapIs`), that the rift analysis never finds more missing or superfluous
than there is beyond the edge (`LeadingRiftIs`, `TrailingRiftIs`), and that what
the search returns is a sample root and fragment share (`MatchFoundIs`). Which
post it returns first is a recursion and stays with TLC. `RunInv` is types and
the run with one offset for both vectors (`Shared`); if the search moved the
fragment, that is all that is lost (`Lined`), since every copy is still
checked for what it reads (`EdgesHeld`, `TailHeld`). For each kind of repair a
lemma shows two things at once (`Repaired`): the sample at the edge is the same
in both vectors under the new offset, so that the extended run is shared; and
the edit lies at or beyond the position that was compared with `returnedlimit`.
`FreedNotVisited` is by `ListLive`: `list[]` is only walked again after a pass
that freed nothing, since a merge sets the flag, and a fragment that should have
matched is not freed while `silenceflag` is lit. A drift moves what is listed, to
visit and in p->fragments alike (`AfterGrows`).

`RootWhole` and `RootDisc` say what all that merging makes of the audio.
`Lies(x, d)` is "x is the disc from d on", and `Placed` the invariant of a merge:
root and fragment lie on the disc, the fragment where the offset puts it, and
the run reaches an end of one of them on both sides. It begins so, because the
search only matches at a sound (`MatchFoundIs`), a sound is in one place, and
the overlap functions stop at nothing but a difference or an end
(`ForwardMost`, `BackwardMost`, `OverlapComplete`); so there is no rift, every
repair is out of the question (`MergeStepPlaced`), and the glom puts two pieces
of the disc together (`GlommedPlaced`). `OwnInv` says that nothing else than what
was delivered is merged, moved perhaps, but only with a drive that drifts
(`Owned`, `Steadfast`), and that a merge which a drift upset is known to be
(`misled`). For `RootIsWhole` that is all, with one `d` for the root
and any for the fragments (`WholeInv`); there is no silence. For `RootIsDisc` the
matches by silence are the hard part: they go by position, in a root that was
trimmed and stretched since the flag was lit. `DiscInv` keeps the root at its own
position, `Reaching` how far it goes behind and ahead of what was returned, and
`Calm` says that the silence that was found begins before the end of the root and
the disc is silent there. The rest follows the fragments that could be appended
at the wrong place, those that begin in silence and end beyond the root
(`Hides`): in a call none of them lies behind what the root keeps
(`HiddenInCall`); one that was matched in vain lies beyond the root, or ends its
silence where the root's begins (`HiddenSeen`); so that between two calls, while
more is returned and the next call may trim, they lie no further back than a new
read does (`HiddenKept`), which `OverlapKept` puts into the margin. `OverlapKept`
is a hypothesis of the property, and needed: see section 6. So is `Undrifting`:
what is in place has an average of zero and is not moved (`SteadyDrift`).

`DriveSetupProofs`, from `DriveAssumption`: `ReadsWithWhatWorked`, `PutBack` and
`NothingMissed`. `ModeInv` follows the mode the drive is in and the one it will
be put back to, `TrialInv` and `InForce` say that a command is only tried, and
kept, in the mode it is used in. `NothingMissed` is by `ProbeInv`, every trial
before the current one has failed; its trials are taken from the lists the
source makes, row by row (`RowAdded`). It assumes `RowsFit`: a drive in the list
of exceptions that is to be switched is not ATAPI, answers the mode sense and
takes its own mode. Otherwise the first switch back fails and leaves the drive
in audio mode, where the commands tried without switching are not tried in its
own.

`RipLoopProofs`, from `RipAssumption` (which tables, command
lines and lengths are numbers): `TracksFollow` says what `FixupTOC` makes of any
table whatever, once `cdda_open` accepts it: starts rise strictly, so each
sector has one track. `SkipsRemoved` is by `SkipInv`: `skipped_flag` is of the
file that is open. `InStep` is by `InStepInv`: main's cursor and paranoia's
differ by exactly the leftover in `offset_buffer`. It is proved for rips whose
every piece has a sector to read (`[]LongPieces`), the case that is left out of
the property as well. `FilesHold` is by `RipInv`, which says of the file being
written where in its track it is, what the leftover holds, and that each file
before it ended where the piece ends; with `TableInv` the sum of the parts is
the length its header promised. It is proved for rips that are `Undisturbed`:
`LongPieces`; a span on the disc (`KnownSpan`); an aborted track is not the
disc's last (`LastTrackKept`, see `rip_last_track`); and no -T with whole
sectors of -O (`BiasWhole`). What happens otherwise is in section 6. Each of
them is a fault of the code, or of the command line, and all others are
covered: aborts in every other track, failed opens and writes, loss of the disc
at any sector.

`TransportProofs`, from `TransportAssumption` (sizes are positive): `TypesHold`,
`Invariance`, `DataIsOwn`, `TriesAreBounded` and `LossIsReported`, for every
length of reads, retry limit and queue. `IInv` adds to the types which waits
belong to which transport (`PlacesInv`), that a lost medium is only known
between the command and the return (`LossInv`), that sizes decrease from what
was asked to what is returned (`SizeInv`), that once `clear_garbage` has run
every entry of the queue is this read's (`DataInv`), and an account of the
commands spent (`TriesInv`): each was a signal of this read, made the request smaller, or
was one of the retries of a single sector.

Only model-checked: liveness (`CallReturns`, `ReadReturns`, `RipEnds`,
`MergeEnds`), which rests on fairness; and `MergeHeals` of `Stage2`, which says
that a loop of repairs, each decided by comparing samples, ends with the audio
mended: that takes an induction over the rifts of both vectors, and an account
of what each kind of repair does to every other one. That the root stays small over a long read is neither
checked nor proved.

## 6. Observations about the code

* `read_far_start`. `verify_skip_case` without a root makes a root of two
  sectors of zeros at word 0. If the sector wanted lies further on,
  `i_paranoia_trim` frees that root in the next round, and a drive that
  delivers nothing keeps the call going for ever, although -z n promises a
  skip after n retries.
* The read that pushes old data out of the drive's
  cache goes a cache size beyond the wanted sector when there is no room
  below, which is so where an audio session follows a data track. If the session
  is shorter than that the read fails or does not reach its first sectors, the
  failure is ignored, the window advances all the same, and the following block
  is stale: `FreshBlock` fails with a session of sectors 2 to 4 behind a data
  track and a cache of four (targets 1 and 4).
* A retry limit that is not a multiple of five is never compared equal; with a
  forced overlap, which never grows to its maximum, such a limit never skips.
* `dynoverlap` starts at its maximum, so that five reads without progress
  skip, whatever the limit, until a first adjustment lowers it.
* Without paranoia (-Z) the sector past the end of the session that a sample
  offset needs is never padded, because `lastsector` of the root is not set.
* Repairs look at `returnedlimit`, and where the root ends in silence a comment
  says "Can only do this if we haven't already returned data". The glom right
  after them does not look: if the fragment reaches further, the root is cut
  where the agreement ends and the fragment appended, over samples the caller
  has. Three fragments do it (a root padded with silence after a drive gave up,
  one sector returned, a fragment displaced by four): the caller gets the new
  samples from the next sector on, so that its stream has a break there.
* `i_silence_test` looks at all but the last sample of the root, and only
  `i_silence_match` puts the flag out: a root that has long found sound again
  keeps `silenceflag` and with it fragments that should have been dropped.
  Worse, `i_silence_match`, which is there for "a problematic amount of silence
  at the end of the root" (`paranoia.c`, 963), then takes what lies between the
  root's end and a fragment for silence: on a disc of six sounds, six zeros,
  seven sounds, six zeros and more, fragments of the positions 0 to 11, 2 to 16
  and 19 on, all of them right, make a root with zeros at 17 and 18, where there
  is sound. `OneSilence` leaves such discs out of `RootIsDisc`.
* `silencebegin` is a position in a root that may since have been trimmed; the
  negative offset `c_remove` would then get is ignored and the fragment appended
  behind what should have gone, which makes the root longer than the audio. While
  the overlap is what `offset_adjust_settings` allows, the margin that trimming
  leaves keeps this from happening (`RootDisc`): what is read again begins no
  more than the overlap, the jitter of `i_read_c_block` and its rounding to
  sectors before the end of the root, which is less than twice 32 sectors. -o takes
  an overlap of up to 75 sectors. With more than 48, `OverlapKept` does not
  hold, and the root can go wrong: with `MARGIN` 2 and `DYNOVERLAP` 9, on a disc of
  seven sounds and six zeros, a simulation with five fragments, all of them right,
  ends with a root that was trimmed to position 8 and has ten zeros from there
  on, where the disc has five. The three fragments of `stage2` are too few for it.
* A fragment that is dropped because it ends in silence takes its `lastsector`
  with it.
* `rip_last_track`. After an abort of the disc's last track in batch mode the
  cursor is -401, `cdda_track_firstsector`'s error code. It is below the last
  sector, so the loop opens `track00`, aborts that too, and rips the disc again
  from track 1. With a sample offset the read across the end takes the same way.
* -X acts on what `callback` sees while it draws the progress line. With -q,
  with stderr redirected, or for a position that is off the line a skip is not
  seen and the file is kept, though the manual says it is deleted
  (`cdparanoia.1`, 239). `SkippedRemoved` speaks of skips that were seen.
* `rip_shifted_end`. `main` moves the lead-out by one sector so that the end of
  a shifted last track can be read, but paranoia took its limit before, and
  fills the end with zeros. With a negative offset the disc still begins at
  sector 0.
* A batch piece of one sector that begins with a leftover never enters the read
  loop: the sector that holds its end is not read, the file is `sample_offset`
  samples short of its header, and the next file begins with the same leftover
  again. `OneSectorPiece` leaves it out of `FileHoldsTrack`.
* "cdparanoia 0" on a disc whose first track starts at sector 0: `parse_offset`
  takes 0 for the pre-gap, and `cdda_track_firstsector` answers with the error
  -401 since there is none. The code goes on with it as the first sector.
  `KnownSpan` leaves this out of `FilesHold`.
* -T after -O forgets the whole sectors of the offset: `toc_offset` is set, not
  added to. The command lines of `rip` do not combine them.
* A NULL from paranoia is not the end unless errno still says ENOMEDIUM after
  messages were printed. If it does not, batch mode removes the file and goes
  on to the next track; otherwise the file is opened again and truncated.
* `cooked_read` reports a missing medium as 0 sectors, not as an error, and
  also when the kernel had no memory for more than one sector, where a comment
  says "Keep limping". `sectors` is made smaller there but `arg.nframes` is
  not, so that every retry asks for as much and less of it is returned.
* Over sg a reply that comes after its command was given up, and after the next
  one was sent, is taken for the next one's if the lengths are the same
  (`crossed`). A driver that takes one command at a time excludes this.
* A write select that times out leaves errno as it was; an old ENOMEDIUM then
  reads as a missing medium.
* `test_unit_ready` looks at bytes 2, 12 and 13 of the data buffer, not at the
  sense; over SG_IO they are what an earlier read left there.
* `verify_skip_case` allocates half of what it then uses for a new root.
* `stage1_drift`. `try_sort_sync` computes where the run begins and ends, then
  counts its offset, which may move every block by the drift; `stage1_matched`
  subtracts the moved begin and flags samples beside the run. `VerifiedTwice`
  leaves out the call in which that happens, `VerifiedTwiceAlways` does not.
* Backward, a run may end on a sample that is an edge in both
  blocks, and that is tested before whether it was read. The unread sample is
  then part of the fragment if it is silence in both, and the blocks are
  displaced by exactly what the edges are wide. A comment there says "don't
  allow matching through known missing data". `VerifiedTwice` lets a run begin
  on such a sample; the drive `Short` of `MCStage1` has one.
* The same in stage 2: `try_sort_sync` counts the offset of the match
  (`paranoia.c`, 358 and 386), which may move the fragment, and line 1206
  subtracts the moved beginning, so that the merge goes on with an offset that is
  wrong by the drift. The rift analysis then compares samples that do not belong
  together, and the glom appends from the wrong place. With a root of the disc's
  samples 0 to 8, a fragment of its samples 2 to 11 that says it begins at 4, and a
  drift of 2 in its search, samples 9 and 10 are missing from the root; with a
  drift of -2 samples 7 and 8 come twice. Without the exception for `misled`
  TLC finds the first for `RootIsWhole`. A drift that is larger than what is to be appended gives `c_append` a
  negative length.
* The rest of the drift, too, is at odds with its comment ("Adjust all the
  values in the cache"). The loop over the fragments stops at one without a
  block, so that those behind it stay where they were while their blocks are
  moved. A fragment that stage 2 is merging can lose its block in its own
  search; its samples are then read through a null pointer as soon as there is a
  rift or a tail to append (`GoAstray`). The statistics of stage 2 count an
  offset from before the move.
* With -Y a fragment is what lies between two edges, samples that were never
  read and are zero included.
* Over the sg driver a select that times out before the write leaves errno as
  it was (src/interface/scsi_interface.c:233-240). If that is EINTR, from this
  select, a command before or a system call of long ago, `scsi_read_map`
  repeats the command at once and counts nothing (1103-1105); if the driver
  takes none any more the read never returns. `TriesBounded` leaves those
  repeats out of its count, and `CallReturns` says that they are the only way
  not to return.
* With -Z, once a skip has written two sectors of zeros at word 0 for want of a
  root, a sector further on is never reached (the case of `read_far_start`), so
  `ReadReturns` leaves that mode out.
* If `data_bigendianp` fails while the drive is opened, because the beginning of
  a track cannot be read, `cdda_read` calls it again after the first sectors it
  read, and it ends with `enable_cdda(d,0)`: a drive that has to be switched is
  then out of its audio mode for the rest of the rip. `ReadsAsProven` leaves
  these drives out (`drive.starts`).
* An ATAPI drive, or one that does not answer the mode sense, is, if it has been
  switched at all, "restored" to
  density 0 and blocks of 0 bytes. A drive with blocks of less than 2048 bytes
  that is not switched otherwise stays at 2048.
* `check_cache` leaves the drive switched when the FUA bit is rejected; where
  the table of contents is then refused `opened` is 0, and closing does not
  switch it back.
* A table of contents without tracks makes `cdda_open` return 0, success, with
  `opened` 0.
* A sector that comes short is tried again in `scsi_read_map` until it fails, so
  the length test of the probe and its "incorrect size" message never apply.
* The probe tries D4 with ten bytes twice for each density, because the cases
  for commands without a density fall through to it. A comment says the NEC
  test must come before Sony's, whose D8 is the default and tried before all.

## 7. Not modelled

In the read loop, more than one verified run per new block and the move of blocks
by drift, which are `Stage1`'s, and the `EBADF` return of a closed drive. The
parts of the reader are composed at their seams only: `ParanoiaRead` chooses
freely what `Stage1` verifies and `Stage2` merges, and the three together are
out of TLC's reach, since the samples of blocks, fragments and root would all be
part of the state. The hash chains of the sort index: the set of places it
finds. In the rip loop, output to stdout and the names of files other than their
track number. In the transports, the layout of commands, the decoding of tables
of contents, speed, and the size of the sg driver's buffer. The device scan is
I/O, and what `data_bigendianp` finds floating point; the headers and progress
display are formatting, the cache test a matter of measured times, the test
drive is not in the program. What stays without a property, and why, is noted
with each hazard in `PROJECT.json`.

## 8. Plan

1. Done: output buffering, drive cache, block reading, the read loop, table of
   contents and rip loop, transports; the proofs of section 5.
2. Done: stage 2 at the level of samples, with rift analysis.
3. Done: stage 1 at the level of samples, with drift while it iterates; the
   opening of a drive.
4. Done: the proofs of `ReadBlock`, `Stage1`, `Stage2`, `DriveSetup`, `Toc` and
   `RipLoop`.
5. Done: `RootIsDisc` and `RootIsWhole` for every disc and every delivery.
6. The size of the root over long reads with displaced fragments.
