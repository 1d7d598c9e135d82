----------------------------- MODULE MCRipLoop -----------------------------
(* The discs and command lines that TLC tries RipLoop on.                  *)
EXTENDS RipLoop

Entries(seq) == [i \in 0..(Len(seq) - 1) |-> seq[i + 1]]
Disc(starts, audio, second) ==
  [toc |-> [tracks |-> Len(starts) - 1, start |-> Entries(starts), audio |-> Entries(audio)],
   lba |-> second]

T == TRUE
F == FALSE
Plain    == Disc(<<0, 3, 6, 8>>, <<T, T, T, T>>, 0)
Pregap   == Disc(<<1, 3, 5, 7>>, <<T, T, T, T>>, 0)
Wild     == Disc(<<2, 6, 4, 7>>, <<T, T, T, T>>, 0)
Negative == Disc(<<-4, 2, 5, 7>>, <<T, T, T, T>>, 0)
Refused  == Disc(<<0, 6, 4, 7>>, <<T, T, T, T>>, 0)
Extra    == Disc(<<0, 3, 8, 9>>, <<T, T, F, F>>, 11405)
ExtraFar == Disc(<<0, 3, 8, 9>>, <<T, T, F, F>>, 11402)

Place(n, s) == [track |-> n, sector |-> s]
Track(n)  == Place(n, -1)
Command(sample, shift, bias, batch, abort, shown, span) ==
  [sample |-> sample, toc |-> shift, bias |-> bias, batch |-> batch,
   abort |-> abort, shown |-> shown, span |-> span]

AllDiscs == {Plain, Pregap, Wild, Negative, Refused, Extra, ExtraFar}
PlainDisc == {Plain}

(* Aborts end before the last track; whole sectors of -O are not combined  *)
(* with -T, which forgets them.                                            *)
AllLines ==
  {Command(s, 0, F, T, F, T, <<>>) : s \in {0, 1, 3, -1}}
  \cup {Command(s, 0, F, T, T, T, <<Track(1), Track(2)>>) : s \in {0, 1}}
  \cup {Command(s, 1, F, F, T, T, <<Place(1, 1), Track(2)>>) : s \in {0, 1}}
  \cup {Command(1, 0, T, T, F, F, <<>>),
        Command(1, 0, F, T, F, F, <<Track(1), Place(2, 0)>>),
        Command(1, 0, F, T, F, F, <<Place(1, 1), Place(2, 1)>>),
        Command(0, 1, F, F, F, F, <<Track(2)>>),
        Command(0, 0, F, F, T, F, <<Track(-1), Place(-1, 3)>>),
        Command(0, 0, F, T, F, T, <<Place(-1, 2), Track(-1)>>),
        Command(0, 0, F, T, F, T, <<Track(9)>>),
        Command(1, 0, F, F, F, F, <<>>),
        Command(0, 0, F, T, F, T, <<Track(-1), Track(-1)>>)}

LastAborts == {Command(0, 0, F, T, T, T, <<>>)}
Shifting   == {Command(1, 0, F, F, F, T, <<Track(1), Track(-1)>>)}
=============================================================================
