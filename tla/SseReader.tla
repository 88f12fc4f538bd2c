------------------------------ MODULE SseReader ------------------------------
(***************************************************************************)
(* The page's reader of a streamed answer (lib/sse.ts): what it makes of   *)
(* the bytes received so far.  A line is one symbol, its end is CR LF.     *)
(***************************************************************************)
EXTENDS Naturals, Sequences, SequencesExt, FiniteSetsExt

CONSTANTS CR, LF, EventLine, PingLine

\* The symbols that are no event's.
Syntax == {CR, LF, EventLine, PingLine}

ASSUME SyntaxAssumption == CR # LF /\ {CR, LF} \cap {EventLine, PingLine} = {}

\* The elements of s that are in S, in their order.
Only(s, S) ==
  LET upTo[i \in 0..Len(s)] ==
        IF i = 0 THEN <<>>
        ELSE IF s[i] \in S THEN Append(upTo[i - 1], s[i]) ELSE upTo[i - 1]
  IN  upTo[Len(s)]

\* What sse_starlette writes: an event's data line is the event itself.
Frame(e) == <<EventLine, CR, LF, e, CR, LF, CR, LF>>
Ping == <<PingLine, CR, LF, CR, LF>>

\* The length of \r?\n at i, and of \r?\n\r?\n; 0 where there is none.
LineEnd(s, i) ==
  CASE i <= Len(s) /\ s[i] = LF -> 1
    [] i < Len(s) /\ s[i] = CR /\ s[i + 1] = LF -> 2
    [] OTHER -> 0

FrameEnd(s, i) ==
  LET n == LineEnd(s, i)
      m == LineEnd(s, i + n)
  IN  IF n > 0 /\ m > 0 THEN n + m ELSE 0

\* buffer.split(/\r?\n\r?\n/): the frames, and what follows the last of them.
\* rest[i] is what is split off from position i on.
Split(s) ==
  LET ends == {i \in 1..Len(s) : FrameEnd(s, i) > 0}
      rest[i \in 1..Len(s) + 1] ==
        IF ends \cap i..Len(s) = {} THEN <<SubSeq(s, i, Len(s))>>
        ELSE LET first == Min(ends \cap i..Len(s))
             IN  <<SubSeq(s, i, first - 1)>> \o rest[first + FrameEnd(s, first)]
  IN  rest[1]

Complete(s) == Front(Split(s))
Incomplete(s) == Last(Split(s))

\* A frame yields its first data line; a ping has none.
DataAt(frame) == {i \in DOMAIN frame : frame[i] \notin Syntax}
WithData(frames) == Only(frames, {f \in Range(frames) : DataAt(f) # {}})

Events(s) ==
  LET frames == WithData(Complete(s))
  IN  [k \in DOMAIN frames |-> frames[k][Min(DataAt(frames[k]))]]

\* Where the frames on the wire end.
FrameStops(s) == {i \in 1..Len(s) : i = Len(s) \/ s[i + 1] \in {EventLine, PingLine}}
=============================================================================
