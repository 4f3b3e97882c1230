------------------------------- MODULE MCTape -------------------------------
(* Instances of Tape for TLC. *)
EXTENDS TapeInv, SequencesExt

\* IInv of TapeInv, with what its quantifiers ask for: the data of the streams
\* and the marks that the lengths in the header stream make.
Data(s) == [x \in Streams |-> FlattenSeq(s[x])]
Marked(x) ==
  LET Mark(m, i) == Append(m, [s \in Streams |-> Last(m)[s] + i.left[s] + Skipped(s)])
  IN  FoldLeft(Mark, << Lengths(0, 0, 0) >>, SelectSeq(x["h"], LAMBDA i : i.unit = 0))

InCookie == [x \in Streams |-> IF x = "h" THEN AllOf(e.hs)
                               ELSE IF x = "c" THEN e.cs ELSE AllOf(e.ts)]
WriterChecked == LET x == Data(InCookie) IN Writing(Marked(x), x)
OutChecked == LET x == Data(out.s) IN IsTape(out, Marked(x), x)
ReaderChecked ==
  LET x == Data(tape.s)
      m == Marked(x)
  IN  \E k \in 0 .. Len(m) - 1 : Reading(m, x, k)

IInvChecked ==
  /\ TypeOK /\ Modes /\ Kinds /\ Backlog /\ RoundTrip /\ warning = ""
  /\ WriterChecked /\ OutChecked /\ ReaderChecked
=============================================================================
