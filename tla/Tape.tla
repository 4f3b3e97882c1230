-------------------------------- MODULE Tape --------------------------------
(***************************************************************************)
(* The format of an archive: multitape_write.c, which spreads what the     *)
(* front end writes over three streams of chunks, multitape_read.c, which  *)
(* puts it together again, and archive_multitape_copy, which runs a reader *)
(* and a writer together to copy an archive into a new one.                *)
(*                                                                         *)
(* What the front end writes is a sequence of units numbered in the order  *)
(* of its calls; reading the archive must give units 1, 2, ... back,       *)
(* however they were cut into chunks, wherever checkpoints fell and        *)
(* whatever the reader skips.  A unit stands for a few kB: data in fewer   *)
(* than MinChunk units is a trailer.  An index stream, which lists the     *)
(* chunks of another stream, is taken as the sequence of those chunks.     *)
(***************************************************************************)
EXTENDS Integers, Sequences, FiniteSets, FiniteSetsExt

CONSTANTS
  MinChunk,   \* MINCHUNK: shorter chunks of a file go to the trailer stream
  MinCut,     \* the least length at which the chunkifier ends a chunk
  MaxChunk,   \* MAXCHUNK
  Cuts,       \* bound: after how much data of a write other streams are cut
  MaxUnits,   \* bound: units of an archive
  MaxCkpt     \* bound: checkpoints in an archive

\* chunkify.c ends a chunk of its own accord only after more than a quarter
\* of the mean length, which is 16 kB; MINCHUNK is 4 kB.
ASSUME TapeAssumption ==
  /\ {MinChunk, MinCut, MaxChunk} \subseteq Nat \ {0}
  /\ MinChunk <= MinCut /\ MinCut <= MaxChunk
  /\ {MaxUnits, MaxCkpt} \subseteq Nat

VARIABLES
  phase,      \* "write", "copy", "read"
  kind,       \* history: first ("h") or other ("i") unit of a file's header,
              \* its data ("d"), end of archive marker ("e")
  n,          \* history: units the writer has accepted
  mode, eof,  \* of the write cookie
  hbuf,       \* pending header
  cfile,      \* what c_file holds: c_file_in - c_file_out units
  e,          \* the streams as written, clen and tlen of the entry
  out,        \* the last archive that was stored
  tape,       \* the archive being read
  rd,         \* the read cookie
  backlog,    \* data libarchive has read and not passed on
  pos, data,  \* history: units passed so far, those of the last readtape_read
  warning,    \* a message that only a program error can cause
  ckpts       \* bound

wvars == <<n, mode, eof, hbuf, cfile, e, out, ckpts>>
rvars == <<rd, backlog, pos, data>>
vars  == <<phase, kind, wvars, tape, rvars, warning>>

Min2(a, b) == IF a < b THEN a ELSE b
Streams == {"h", "c", "t"}
Lengths(h, c, t) ==
  [x \in Streams |-> IF x = "h" THEN h ELSE IF x = "c" THEN c ELSE t]

\* What the header and trailer streams are made of.
Unit(i) == [unit |-> i, left |-> Lengths(0, 0, 0)]
EntryHeader(h, c, t) == [unit |-> 0, left |-> Lengths(h, c, t)]

-----------------------------------------------------------------------------
(* Streams as they are written. *)

NoStream == [chunks |-> <<>>, held |-> <<>>]

\* chunkify_end
Ended(s) == IF s.held = <<>> THEN s
            ELSE [chunks |-> Append(s.chunks, s.held), held |-> <<>>]

\* chunkify_write to the header or trailer stream: where a chunk ends
\* depends on the data.
Written(s, items) ==
  {[s EXCEPT !.held = @ \o items]} \cup
  { [Ended([s EXCEPT !.held = @ \o SubSeq(items, 1, k)])
      EXCEPT !.held = SubSeq(items, k + 1, Len(items))] :
    k \in Cuts \cap 1..Len(items) }

\* callback_file, for a chunk of the file: the entries that can result.
PassOut(x, chunk) ==
  IF Len(chunk) < MinChunk
  THEN { [x EXCEPT !.ts = s, !.tlen = Len(chunk)] : s \in Written(x.ts, chunk) }
  ELSE { [x EXCEPT !.cs = Append(@, chunk), !.clen = @ + Len(chunk)] }

TwoTrailers(x, chunk) == chunk # <<>> /\ Len(chunk) < MinChunk /\ x.tlen # 0

\* chunkify_end(c_file)
EndFile(x, chunk) == IF chunk = <<>> THEN {x} ELSE PassOut(x, chunk)

\* endentry: the lengths and the header, which are then forgotten.
EndEntry(x, hb) ==
  { [x EXCEPT !.hs = s, !.clen = 0, !.tlen = 0] :
    s \in Written(x.hs, <<EntryHeader(Len(hb), x.clen, x.tlen)>> \o hb) }

NoEntry == [hs |-> NoStream, cs |-> <<>>, ts |-> NoStream,
            clen |-> 0, tlen |-> 0]
NoTape == [s |-> [x \in Streams |-> <<>>], n |-> 0]

\* flushtape: all chunkifiers are ended and the indexes are stored.
Stored(x) ==
  [s |-> [y \in Streams |-> IF y = "h" THEN Ended(x.hs).chunks
                           ELSE IF y = "c" THEN x.cs ELSE Ended(x.ts).chunks],
   n |-> n]

-----------------------------------------------------------------------------
(* The operations of the write cookie. *)

\* writetape_write in modes 0, 2 and 3
WriteHeader(item) ==
  /\ mode # 1
  /\ mode' = IF mode = 0 THEN 0 ELSE 3
  /\ hbuf' = Append(hbuf, item)
  /\ n' = n + 1
  /\ UNCHANGED <<eof, cfile, e, out, ckpts, warning>>

\* writetape_write in mode 1: the chunkifier may end a chunk, and does at
\* MaxChunk.
WriteData(item) ==
  LET all == Append(cfile, item)
  IN  /\ mode = 1
      /\ \/ Len(all) < MaxChunk /\ cfile' = all /\ UNCHANGED e
         \/ Len(all) >= MinCut /\ cfile' = <<>> /\ e' \in PassOut(e, all)
      /\ n' = n + 1
      /\ UNCHANGED <<mode, eof, hbuf, out, ckpts, warning>>

\* Mutant: data still in the chunkifier does not keep a chunk out.
CanWriteChunkAnyOrder == mode = 1

\* writetape_writechunk: is the tape in a state where a chunk can be written?
CanWriteChunk == mode = 1 /\ cfile = <<>>

WriteChunk(chunk) ==
  /\ CanWriteChunk
  /\ e' = [e EXCEPT !.cs = Append(@, chunk), !.clen = @ + Len(chunk)]
  /\ n' = n + Len(chunk)
  /\ UNCHANGED <<mode, eof, hbuf, cfile, out, ckpts, warning>>

\* What writetape_setmode(2) makes of entry x; nothing if it is in mode 2.
ToDone(x) ==
  IF mode < 2
  THEN UNION { EndEntry(y, hbuf) : y \in EndFile(x, IF mode = 1 THEN cfile ELSE <<>>) }
  ELSE {x}

\* Mutant: an end of archive marker is left in the header buffer.
FlushedNoMarker(x) == IF mode < 2 THEN ToDone(x) ELSE {x}

\* writetape_checkpoint and _close: mode 2, the marker's entry, chunkify_end.
Flushed(x) == IF mode = 3 THEN EndEntry(x, hbuf) ELSE ToDone(x)

\* writetape_setmode to another mode
SetMode(m) ==
  /\ m # mode /\ mode # 3
  /\ e' \in IF m = 2 THEN ToDone(e)
            ELSE EndFile(e, IF mode = 1 THEN cfile ELSE <<>>)
  /\ warning' = IF mode = 1 /\ TwoTrailers(e, cfile) THEN "trailers" ELSE warning
  /\ cfile' = IF mode = 1 THEN <<>> ELSE cfile
  /\ hbuf' = IF m = 2 THEN <<>> ELSE hbuf
  /\ mode' = m
  /\ UNCHANGED <<n, eof, out, ckpts>>

\* writetape_checkpoint: the mode is as it was afterwards, the streams have
\* no data held back.
Checkpoint ==
  /\ ckpts < MaxCkpt /\ ~eof
  /\ \E x \in Flushed(e) :
       /\ out' = Stored(x)
       /\ e' = [x EXCEPT !.hs = Ended(@), !.ts = Ended(@)]
  /\ warning' = IF mode = 1 /\ TwoTrailers(e, cfile) THEN "trailers" ELSE warning
  /\ hbuf' = IF mode = 2 THEN hbuf ELSE <<>>
  /\ cfile' = <<>>
  /\ ckpts' = ckpts + 1
  /\ UNCHANGED <<n, mode, eof>>

Idle ==
  /\ mode' = 2 /\ eof' = FALSE /\ n' = 0 /\ ckpts' = 0
  /\ hbuf' = <<>> /\ cfile' = <<>> /\ e' = NoEntry /\ out' = NoTape

-----------------------------------------------------------------------------
(* The read cookie: for each stream the chunk in its buffer and a chunk    *)
(* header read from its index ahead of the chunk.                          *)

Reader0 == [cur |-> 0, len |-> 0, pos |-> 0, skip |-> 0,
            next |-> 0, valid |-> FALSE]
Opened == [s |-> [x \in Streams |-> Reader0], left |-> [x \in Streams |-> 0],
           bad |-> ""]

\* The sum of the values of w on S; the length of chunks i to j.
SumOver(w, S) == MapThenSumSet(LAMBDA x : w[x], S)
Length(chunks, i, j) ==
  SumOver([k \in DOMAIN chunks |-> Len(chunks[k])], i .. j)

\* The first chunk from i on that is not among the next k units.
NotSkipped(chunks, i, k) ==
  CHOOSE j \in i..(Len(chunks) + 1) :
    /\ Length(chunks, i, j - 1) <= k
    /\ j = Len(chunks) + 1 \/ Length(chunks, i, j) > k

HeaderAt(s, chunks, first, next) ==
  [s EXCEPT !.skip = @ - Length(chunks, first, next - 1),
            !.next = Min2(next, Len(chunks)), !.valid = next <= Len(chunks)]

\* stream_get_chunkheader: chunks to be skipped as a whole are not read.
ChunkHeader(s, chunks) ==
  LET first == IF s.valid THEN s.next ELSE s.next + 1
  IN  HeaderAt(s, chunks, first, NotSkipped(chunks, first, s.skip))

\* The chunk whose header was read, less what is to be skipped of it.
ChunkIn(s, chunks) ==
  IF ~s.valid THEN s
  ELSE [s EXCEPT !.cur = s.next, !.len = Len(chunks[s.next]),
                 !.pos = s.skip, !.skip = 0, !.valid = FALSE]

\* Mutant: the rest of what is to be skipped is taken from no chunk.
ChunkNoSkip(s, chunks) ==
  IF s.pos < s.len THEN s
  ELSE ChunkIn([ChunkHeader(s, chunks) EXCEPT !.skip = 0], chunks)

\* stream_get_chunk: s with data after s.pos, unless the stream has ended.
Chunk(s, chunks) ==
  LET k == Min2(s.len - s.pos, s.skip)
      a == [s EXCEPT !.pos = @ + k, !.skip = @ - k]
  IN  IF a.pos < a.len THEN a ELSE ChunkIn(ChunkHeader(a, chunks), chunks)

AtEntryEnd(r) == r.bad = "" /\ \A x \in Streams : r.left[x] = 0

\* A reader out of step would take a header for lengths.
HeaderIn(r, s) ==
  LET item == tape.s["h"][s.cur][s.pos + 1]
  IN  IF s.pos = s.len THEN [r EXCEPT !.s["h"] = s, !.bad = "eof"]
      ELSE IF item.unit # 0 THEN [r EXCEPT !.bad = "garbage"]
      ELSE [r EXCEPT !.s["h"] = [s EXCEPT !.pos = @ + 1], !.left = item.left]

\* get_entryheader
NextEntry(r) == HeaderIn(r, Chunk(r.s["h"], tape.s["h"]))

\* The loop that looks for an entry with something left in it, as checkpoints
\* leave empty ones; it ends before the entry headers do.
EntryTurn(r) == IF AtEntryEnd(r) THEN NextEntry(r) ELSE r
Turns == Length(tape.s["h"], 1, Len(tape.s["h"])) + 1
Entry(r) ==
  LET after[i \in 0 .. Turns] == IF i = 0 THEN r ELSE EntryTurn(after[i - 1])
  IN  after[Turns]

Part(r) == IF r.left["h"] > 0 THEN "h" ELSE IF r.left["c"] > 0 THEN "c" ELSE "t"

\* The rest of the chunk in s, as far as it belongs to part x of the entry.
PartRead(r, x, s) ==
  LET k == Min2(s.len - s.pos, r.left[x])
  IN  IF k = 0 THEN [r |-> [r EXCEPT !.bad = "premature"], data |-> <<>>]
      ELSE [r |-> [r EXCEPT !.s[x] = [s EXCEPT !.pos = @ + k], !.left[x] = @ - k],
            data |-> SubSeq(tape.s[x][s.cur], s.pos + 1, s.pos + k)]

EntryRead(r) ==
  IF r.bad # "" THEN [r |-> r, data |-> <<>>]
  ELSE PartRead(r, Part(r), Chunk(r.s[Part(r)], tape.s[Part(r)]))

\* readtape_read: the cookie and the data.
ReadTape(r) == EntryRead(Entry(r))

SkipUnit(r) ==
  IF r.bad # "" THEN r
  ELSE [r EXCEPT !.left[Part(r)] = @ - 1, !.s[Part(r)].skip = @ + 1]

\* readtape_skip of k units, one after the other.
SkipTape(r, k) ==
  LET after[i \in 0 .. k] == IF i = 0 THEN r ELSE SkipUnit(Entry(after[i - 1]))
  IN  after[k]

ChunkOf(r) ==
  LET c == r.s["c"]
      s == ChunkHeader(c, tape.s["c"])
      none == [r |-> r, chunk |-> <<>>]
  IN  CASE r.bad # "" \/ r.left["h"] # 0 \/ r.left["c"] = 0 -> none
        [] c.pos # c.len -> [none EXCEPT !.r.bad = "chunkpos"]
        [] OTHER -> [r |-> [r EXCEPT !.s["c"] = s],
                     chunk |-> IF s.valid /\ s.skip = 0 THEN tape.s["c"][s.next]
                               ELSE <<>>]

\* readtape_readchunk: the cookie, and a chunk that can be had whole.
ReadChunk(r) == ChunkOf(IF AtEntryEnd(r) THEN NextEntry(r) ELSE r)

-----------------------------------------------------------------------------
(* The front end writes an archive: write.c. *)

Room(k) == phase = "write" /\ ~eof /\ n + k <= MaxUnits
Note(k, ty) == kind' = kind \o [i \in 1..k |-> ty]

PutMode(m) ==
  /\ Room(0)
  /\ \/ m = 0 /\ mode = 2
     \/ m \in {1, 2} /\ mode < m /\ (mode = 0 => hbuf # <<>>)
  /\ SetMode(m)
  /\ UNCHANGED <<phase, kind, tape, rvars>>

PutHeader ==
  /\ Room(1) /\ mode = 0
  /\ WriteHeader(Unit(n + 1)) /\ Note(1, IF hbuf = <<>> THEN "h" ELSE "i")
  /\ UNCHANGED <<phase, tape, rvars>>

PutData ==
  /\ Room(1)
  /\ WriteData(Unit(n + 1)) /\ Note(1, "d")
  /\ UNCHANGED <<phase, tape, rvars>>

\* A chunk of a file the chunkification cache knows.
PutChunk ==
  \E k \in MinChunk..MaxChunk :
    /\ Room(k)
    /\ WriteChunk([i \in 1..k |-> Unit(n + i)]) /\ Note(k, "d")
    /\ UNCHANGED <<phase, tape, rvars>>

PutMarker ==
  /\ phase = "write" /\ ~eof /\ mode = 2
  /\ WriteHeader(Unit(n + 1)) /\ Note(1, "e")
  /\ UNCHANGED <<phase, tape, rvars>>

\* checkpoint_archive: between files, or after a block of a file's data
PutCheckpoint ==
  /\ phase = "write" /\ mode # 0
  /\ Checkpoint
  /\ UNCHANGED <<phase, kind, tape, rvars>>

\* truncate_archive
Truncate ==
  /\ phase = "write" /\ ~eof /\ mode \in {1, 2}
  /\ eof' = TRUE
  /\ UNCHANGED <<phase, kind, n, mode, hbuf, cfile, e, out, ckpts, tape, rvars,
                 warning>>

OpenTape(t) == tape' = t /\ rd' = Opened /\ backlog' = <<>> /\ pos' = 0 /\ data' = <<>>

\* writetape_close, after an end marker unless the archive was truncated;
\* the archive is then read, or copied if it is whole.
Close ==
  /\ phase = "write" /\ (mode = 3 \/ eof)
  /\ \E x \in Flushed(e) : OpenTape(Stored(x))
  /\ warning' = IF mode = 1 /\ TwoTrailers(e, cfile) THEN "trailers" ELSE warning
  /\ \/ phase' = "read" /\ kind' = <<>>
     \/ ~eof /\ phase' = "copy" /\ UNCHANGED kind
  /\ Idle

\* The program ends before; the last checkpoint is what there is to read.
Abandon ==
  /\ phase \in {"write", "copy"} /\ out # NoTape
  /\ OpenTape(out) /\ phase' = "read" /\ kind' = <<>> /\ Idle
  /\ UNCHANGED warning

-----------------------------------------------------------------------------
(* append_archive and archive_multitape_copy: entry by entry from the read *)
(* cookie to the write cookie.                                             *)

Next1 == kind[pos - Len(backlog) + 1]

CopyMode(m) ==
  /\ phase = "copy" /\ rd.bad = ""
  /\ \/ m = 0 /\ mode = 2 /\ Next1 = "h"
     \/ m = 1 /\ mode = 0 /\ hbuf # <<>> /\ Next1 # "i"
     \/ m = 2 /\ mode = 1 /\ Next1 # "d"
  /\ SetMode(m)
  /\ UNCHANGED <<phase, kind, tape, rvars>>

Wanted == \/ mode = 0 /\ (Next1 = IF hbuf = <<>> THEN "h" ELSE "i")
          \/ mode = 1 /\ Next1 = "d"

Got(x) == rd' = x.r /\ data' = x.data /\ pos' = pos + Len(x.data)

\* The fast path failed, or this is a header: libarchive reads a block.
CopyRead ==
  /\ phase = "copy" /\ rd.bad = "" /\ Wanted /\ backlog = <<>>
  /\ LET c == ReadChunk(rd)
         r == IF mode = 1 THEN c.r ELSE rd
     IN  /\ mode = 1 => ~(c.chunk # <<>> /\ CanWriteChunk)
         /\ Got(ReadTape(r)) /\ backlog' = data'
  /\ UNCHANGED <<phase, kind, wvars, tape, warning>>

\* Data buffered by libarchive goes first.
CopyDrain ==
  /\ phase = "copy" /\ rd.bad = "" /\ Wanted /\ backlog # <<>>
  /\ backlog' = Tail(backlog)
  /\ IF mode = 0 THEN WriteHeader(Head(backlog)) ELSE WriteData(Head(backlog))
  /\ UNCHANGED <<phase, kind, tape, rd, pos, data, warning>>

\* The fast path: the chunk is referenced by the new archive and skipped.
CopyChunk ==
  /\ phase = "copy" /\ rd.bad = "" /\ Wanted /\ backlog = <<>> /\ mode = 1
  /\ LET c == ReadChunk(rd)
     IN  /\ c.chunk # <<>>
         /\ WriteChunk(c.chunk)
         /\ rd' = SkipTape(c.r, Len(c.chunk))
         /\ data' = c.chunk /\ pos' = pos + Len(c.chunk)
  /\ UNCHANGED <<phase, kind, tape, backlog>>

\* checkpoint_archive between the entries
CopyCheckpoint ==
  /\ phase = "copy" /\ mode = 2
  /\ Checkpoint
  /\ UNCHANGED <<phase, kind, tape, rvars>>

\* The marker of the old archive ends the copy; the new one gets its own.
CopyEnd ==
  /\ phase = "copy" /\ rd.bad = "" /\ mode = 2 /\ Next1 = "e"
  /\ WriteHeader(Unit(n + 1))
  /\ UNCHANGED <<phase, kind, tape, rvars>>

CopyClose ==
  /\ phase = "copy" /\ mode = 3
  /\ \E x \in Flushed(e) : OpenTape(Stored(x))
  /\ phase' = "read" /\ kind' = <<>> /\ Idle
  /\ UNCHANGED warning

-----------------------------------------------------------------------------
(* Reading: --list, --extract, and libarchive's skipping of file data. *)

Read ==
  /\ phase = "read" /\ rd.bad = ""
  /\ Got(ReadTape(rd))
  /\ UNCHANGED <<phase, kind, wvars, tape, backlog, warning>>

\* Not beyond the end of the archive: the length is that of an entry's data.
Skip(k) ==
  /\ phase = "read" /\ rd.bad = "" /\ pos + k <= tape.n
  /\ rd' = SkipTape(rd, k)
  /\ data' = <<>> /\ pos' = pos + k
  /\ UNCHANGED <<phase, kind, wvars, tape, backlog, warning>>

\* A chunk is asked for and not taken.
Peek ==
  /\ phase = "read" /\ rd.bad = ""
  /\ rd' = ReadChunk(rd).r /\ data' = <<>>
  /\ pos' = pos
  /\ UNCHANGED <<phase, kind, wvars, tape, backlog, warning>>

Init ==
  /\ phase = "write" /\ kind = <<>>
  /\ n = 0 /\ mode = 2 /\ eof = FALSE /\ hbuf = <<>> /\ cfile = <<>>
  /\ e = NoEntry /\ out = NoTape /\ ckpts = 0
  /\ tape = NoTape /\ rd = Opened /\ backlog = <<>> /\ pos = 0 /\ data = <<>>
  /\ warning = ""

Next ==
  \/ \E m \in 0..2 : PutMode(m) \/ CopyMode(m)
  \/ PutHeader \/ PutData \/ PutChunk \/ PutMarker \/ PutCheckpoint
  \/ Truncate \/ Close \/ Abandon
  \/ CopyRead \/ CopyDrain \/ CopyChunk \/ CopyCheckpoint \/ CopyEnd \/ CopyClose
  \/ Read \/ Peek \/ \E k \in 1..MaxChunk : Skip(k)

Spec == Init /\ [][Next]_vars

-----------------------------------------------------------------------------
(* Properties. *)

\* What readtape_read and readtape_readchunk give is what was written at that
\* place: nothing is lost, repeated or out of order, in an archive, in a
\* checkpoint of one, in a truncated one and in a copy.
RoundTrip == \A i \in DOMAIN data : data[i] = Unit(pos - Len(data) + i)

\* None of the errors that only a damaged archive or a program error can cause
\* is ever reported: "Premature EOF", "c.chunkpos != c.chunklen", an entry
\* header that is none, "Archive entry has two trailers?".
NoFault == rd.bad \in {"", "eof"} /\ warning = ""

\* The end of an archive is reported after everything it was stored with, and
\* a copy was stored with as much as its original.
WholeRead ==
  /\ rd.bad = "eof" => pos = tape.n
  /\ phase = "copy" /\ mode = 3 => n = Len(kind)
=============================================================================
