---------------------------- MODULE BufferedSource ---------------------------
(***************************************************************************)
(* BufferedReadAt (buffered.rs): random access over a sequential reader,   *)
(* as operators on a record.  A window keeps the last cap bytes it read, a *)
(* spool all of them up to cap.  buf starts at offset start; mark is what  *)
(* the reader has given.                                                   *)
(*                                                                         *)
(* The reader gives at most chunk bytes a call.  It serves `calls` calls   *)
(* of an operation and fails the next; Plenty calls never run out, as each *)
(* moves the mark or is the last.                                          *)
(***************************************************************************)
EXTENDS InputWindow

CONSTANT Length   \* bytes of the source

Source(from, to) == [i \in 1..(to - from) |-> from + i - 1]

NewSource(policy, cap, chunk) ==
  [policy |-> policy, cap |-> cap, chunk |-> chunk,
   buf |-> <<>>, start |-> 0, mark |-> 0, eof |-> FALSE, exceeded |-> FALSE]

Plenty == Length + 2

LastOf(s, n) == SubSeq(s, Greater(Len(s) - n, 0) + 1, Len(s))

Remember(s, bytes) ==
  LET mark == s.mark + Len(bytes)
      kept == IF s.policy = "window" THEN LastOf(s.buf \o bytes, s.cap) ELSE s.buf \o bytes
  IN  [s EXCEPT !.buf = kept, !.mark = mark,
                !.start = IF s.policy = "window" THEN mark - Len(kept) ELSE @]

(***************************************************************************)
(* read_more, on the progress of an operation: its source, the calls the   *)
(* reader still serves, what the operation has, and how the latest call    *)
(* ended.  A full spool asks for one byte more, to tell the end of the     *)
(* source from an excess that it cannot keep.                              *)
(***************************************************************************)
ReadMore(op, want) ==
  LET s    == op.src
      full == s.policy = "spool" /\ Len(s.buf) = s.cap
      room == IF s.policy = "spool" /\ ~full THEN s.cap - Len(s.buf) ELSE want
      n    == Min({want, room, s.chunk, Length - s.mark})
      got  == Source(s.mark, s.mark + n)
      next == [op EXCEPT !.calls = @ - 1]
      fails == s.exceeded \/ (~s.eof /\ op.calls = 0)
  IN  CASE fails            -> [op EXCEPT !.r = "failed"]
        [] ~fails /\ s.eof  -> [op EXCEPT !.r = "end"]
        [] ~fails /\ ~s.eof /\ s.mark = Length ->
                               [next EXCEPT !.r = "end", !.src.eof = TRUE]
        [] ~fails /\ full /\ s.mark < Length ->
                               [next EXCEPT !.r = "failed", !.src.exceeded = TRUE,
                                            !.src.mark = @ + 1]
        [] OTHER            -> [next EXCEPT !.src = Remember(s, got), !.has = @ \o got]

Repeat(op, Step(_)) == FoldLeft(LAMBDA o, i : Step(o), op, [i \in 1..Plenty |-> i])

\* What passes is remembered, and not part of the answer.
AdvanceTo(op, offset) ==
  Repeat(op, LAMBDA o :
    IF o.r = "more" /\ o.src.mark < offset
    THEN [ReadMore(o, offset - o.src.mark) EXCEPT !.has = <<>>] ELSE o)

Fill(op, n) ==
  Repeat(op, LAMBDA o :
    IF o.r = "more" /\ Len(o.has) < n THEN ReadMore(o, n - Len(o.has)) ELSE o)

Begun(s, calls) == [src |-> s, calls |-> calls, has |-> <<>>, r |-> "more"]
Refused(s)      == [src |-> s, ok |-> FALSE, bytes |-> <<>>, calls |-> 0]
Answered(op)    == [src |-> op.src, ok |-> op.r # "failed", bytes |-> op.has,
                    calls |-> op.calls]

ReadAt(s, offset, n, calls) ==
  LET op   == AdvanceTo(Begun(s, calls), offset)
      at   == offset - op.src.start
      kept == SubSeq(op.src.buf, at + 1, Lesser(at + n, Len(op.src.buf)))
  IN  IF n = 0 THEN Answered(Begun(s, calls))
      ELSE IF s.exceeded \/ offset < s.start THEN Refused(s)
      ELSE IF op.r = "failed" THEN Refused(op.src)
      ELSE IF offset > op.src.mark THEN Answered(op)
      ELSE Answered(Fill([op EXCEPT !.has = kept, !.r = "more"], n))

\* A read that could never fit the spool is refused before it reads.
ReadExactAt(s, offset, n, calls) ==
  LET o == ReadAt(s, offset, n, calls)
  IN  IF n > 0 /\ ~s.exceeded /\ s.policy = "spool" /\ offset + n > s.cap
      THEN Refused(s)
      ELSE [o EXCEPT !.ok = @ /\ Len(o.bytes) = n]

\* Ranges in the order of the stream; the first failure ends it.
ReadManyAt(s, ranges, calls) ==
  FoldLeft(LAMBDA o, r :
             IF ~o.ok THEN o
             ELSE LET next == ReadExactAt(o.src, r.off, r.len, o.calls)
                  IN  [next EXCEPT !.bytes = Append(o.bytes, @)],
           Answered(Begun(s, calls)), ranges)

\* len reads to the end.
LenOf(s, calls) ==
  LET op == Repeat(Begun(s, calls),
                   LAMBDA o : IF o.r = "more" THEN ReadMore(o, Plenty) ELSE o)
  IN  [src |-> op.src, ok |-> op.r # "failed", total |-> op.src.mark]
==============================================================================
