------------------------------ MODULE TapeInv -------------------------------
(***************************************************************************)
(* The inductive invariant behind RoundTrip, NoFault and WholeRead of      *)
(* module Tape: the layout of an archive as the writer makes it, and where *)
(* in it a reader is.                                                      *)
(***************************************************************************)
EXTENDS Tape

Item == [unit : Nat, left : [Streams -> Nat]]
ChunkSeqs == Seq(Seq(Item))

-----------------------------------------------------------------------------
(* Layouts. *)

\* How much data precedes chunk j; x is the data of the chunks ch.
Start(ch, j) == Length(ch, 1, j - 1)
Flat(ch, x) ==
  /\ ch \in ChunkSeqs /\ x \in Seq(Item)
  /\ Len(x) = Start(ch, Len(ch) + 1)
  /\ \A j \in 1 .. Len(ch) : \A i \in 1 .. Len(ch[j]) :
       ch[j][i] = x[Start(ch, j) + i]

\* m says how much of each stream precedes entry k.  In the header stream an
\* entry begins with its header.
Skipped(s) == IF s = "h" THEN 1 ELSE 0
Size(m, k, s) == m[k + 1][s] - m[k][s] - Skipped(s)
Units(m, k) == m[k]["h"] - (k - 1) + m[k]["c"] + m[k]["t"]
First(m, k, s) ==
  Units(m, k) + (IF s = "h" THEN 0 ELSE Size(m, k, "h"))
              + (IF s = "t" THEN Size(m, k, "c") ELSE 0)

Marks(m) ==
  /\ m \in Seq([Streams -> Nat]) /\ Len(m) >= 1 /\ m[1] = Lengths(0, 0, 0)
  /\ \A k \in 1 .. Len(m) : k - 1 <= m[k]["h"]

\* Entry k of the streams x: lengths, then units in the order of their numbers.
HasEntry(m, x, k) ==
  /\ x["h"][m[k]["h"] + 1] =
       EntryHeader(Size(m, k, "h"), Size(m, k, "c"), Size(m, k, "t"))
  /\ \A s \in Streams :
       /\ Size(m, k, s) >= 0 /\ m[k + 1][s] <= Len(x[s])
       /\ \A i \in 1 .. Size(m, k, s) :
            x[s][m[k][s] + Skipped(s) + i] = Unit(First(m, k, s) + i)

\* Entries do not begin or end within a chunk of the chunk stream.
Aligned(m, ch) ==
  \A k \in 1 .. Len(m) : \E j \in 1 .. Len(ch) + 1 : Start(ch, j) = m[k]["c"]

Layout(m, x) ==
  /\ Marks(m) /\ x \in [Streams -> Seq(Item)]
  /\ \A k \in 1 .. Len(m) - 1 : HasEntry(m, x, k)

IsTape(t, m, x) ==
  /\ Layout(m, x) /\ Aligned(m, t.s["c"])
  /\ \A s \in Streams : Flat(t.s[s], x[s]) /\ m[Len(m)][s] = Len(x[s])
  /\ t.n = Units(m, Len(m))

-----------------------------------------------------------------------------
(* The writer. *)

Stream == [chunks : ChunkSeqs, held : Seq(Item)]
AllOf(s) == Append(s.chunks, s.held)
Entries == [hs : Stream, cs : ChunkSeqs, ts : Stream, clen : Nat, tlen : Nat]

\* Streams x are those of y with entries m, and the entry under way: header hb,
\* then what is in the streams already, then the data cf of the file; total
\* units in all.
Under(y, m, s) == IF s = "c" THEN y.clen ELSE IF s = "t" THEN y.tlen ELSE 0
Writes(y, hb, cf, total, m, x) ==
  LET u == Units(m, Len(m)) + Len(hb)
  IN  /\ y \in Entries /\ hb \in Seq(Item) /\ cf \in Seq(Item)
      /\ Layout(m, x) /\ Aligned(m, y.cs)
      /\ Flat(AllOf(y.hs), x["h"]) /\ Flat(y.cs, x["c"]) /\ Flat(AllOf(y.ts), x["t"])
      /\ \A s \in Streams : Len(x[s]) = m[Len(m)][s] + Under(y, m, s)
      /\ \A i \in 1 .. Len(hb) : hb[i] = Unit(Units(m, Len(m)) + i)
      /\ \A i \in 1 .. y.clen : x["c"][m[Len(m)]["c"] + i] = Unit(u + i)
      /\ \A i \in 1 .. y.tlen : x["t"][m[Len(m)]["t"] + i] = Unit(u + y.clen + i)
      /\ \A i \in 1 .. Len(cf) : cf[i] = Unit(u + y.clen + y.tlen + i)
      /\ total = u + y.clen + y.tlen + Len(cf)

\* Units of the chunk stream are not beyond b.
DataUpTo(x, b) == \A i \in 1 .. Len(x["c"]) : x["c"][i].unit <= b

\* Only in mode 1 does an entry have data already, and never a trailer.
Modes ==
  /\ e.tlen = 0
  /\ mode # 1 => cfile = <<>> /\ e.clen = 0
  /\ mode = 2 => hbuf = <<>>

Writing(m, x) ==
  /\ Writes(e, hbuf, cfile, n, m, x)
  /\ DataUpTo(x, IF mode = 3 THEN n - 1 ELSE n)
WriterInPlace == \E m, x : Writing(m, x)
OutWhole == \E m, x : IsTape(out, m, x)

-----------------------------------------------------------------------------
(* The reader. *)

Readers == [cur : Nat, len : Nat, pos : Nat, skip : Nat, next : Nat,
            valid : BOOLEAN]

\* Reader s of the chunks ch has p before it.
StreamAt(s, ch, p) ==
  /\ s \in Readers /\ s.pos <= s.len /\ s.next <= Len(ch)
  /\ s.pos < s.len => /\ ~s.valid /\ s.cur = s.next /\ s.cur >= 1
                      /\ s.len = Len(ch[s.cur])
  /\ s.valid => s.pos = s.len /\ s.next >= 1
  /\ p = s.skip + (IF s.valid THEN Start(ch, s.next)
                   ELSE Start(ch, s.next + 1) - (s.len - s.pos))

\* How much of stream s, and of the archive, reader r has had in entry k.
HadOf(r, m, k, s) == m[k + 1][s] - r.left[s]
Had(r, m, k) == Units(m, k + 1) - r.left["h"] - r.left["c"] - r.left["t"]

\* Reader r of the archive t with entries m is in entry k (0 before the first)
\* and has had p units; a chunk of the chunk stream is always read to its end.
AtPlace(r, t, m, k, p) ==
  /\ k \in 0 .. Len(m) - 1 /\ r.bad \in {"", "eof"}
  /\ r = [s |-> r.s, left |-> r.left, bad |-> r.bad]
  /\ r.s \in [Streams -> Readers] /\ r.left \in [Streams -> Nat]
  /\ \A s \in Streams :
       /\ r.left[s] <= IF k = 0 THEN 0 ELSE Size(m, k, s)
       /\ StreamAt(r.s[s], t.s[s], HadOf(r, m, k, s))
  /\ r.left["h"] > 0 => r.left["c"] = Size(m, k, "c")
  /\ r.left["h"] > 0 \/ r.left["c"] > 0 => r.left["t"] = Size(m, k, "t")
  /\ r.s["c"].pos = r.s["c"].len
  /\ p = Had(r, m, k)
  /\ r.bad = "eof" =>
       k = Len(m) - 1 /\ \A s \in Streams : r.left[s] = 0

Reading(m, x, k) ==
  /\ IsTape(tape, m, x) /\ AtPlace(rd, tape, m, k, pos)
  /\ phase = "copy" => DataUpTo(x, tape.n - 1)
ReaderInPlace == \E m, x, k : Reading(m, x, k)

-----------------------------------------------------------------------------
(* The invariant. *)

TypeOK ==
  /\ phase \in {"write", "copy", "read"} /\ kind \in Seq({"h", "i", "d", "e"})
  /\ {n, pos, ckpts} \subseteq Nat /\ mode \in 0 .. 3 /\ eof \in BOOLEAN
  /\ {hbuf, cfile, backlog, data} \subseteq Seq(Item)

\* The marker is the last unit, and a copy is not beyond it.
Kinds ==
  /\ phase = "write" =>
       /\ Len(kind) = n /\ (mode = 3 => n >= 1)
       /\ \A i \in 1 .. n : kind[i] = "e" <=> i = n /\ mode = 3
  /\ phase = "copy" =>
       /\ Len(kind) = tape.n
       /\ \A i \in 1 .. tape.n : kind[i] = "e" <=> i = tape.n
       /\ IF mode = 3 THEN n = tape.n
          ELSE n = pos - Len(backlog) /\ n < tape.n

Backlog ==
  phase = "copy" /\ mode # 3 =>
    \A i \in 1 .. Len(backlog) : backlog[i] = Unit(pos - Len(backlog) + i)

IInv ==
  /\ TypeOK /\ Modes /\ Kinds /\ Backlog /\ RoundTrip
  /\ WriterInPlace /\ OutWhole /\ ReaderInPlace
  /\ warning = ""
=============================================================================
