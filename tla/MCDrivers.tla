------------------------------ MODULE MCDrivers ------------------------------
(***************************************************************************)
(* Five bytes of source, four of payload, a stream window of three and     *)
(* reads of two: a request may be too long for either, ranges leave room   *)
(* for one more or for none, and the longest needs two reads.  A stage may *)
(* name a second choice, skip ahead, go back, or ask for nothing.  A       *)
(* reader gives two bytes a call or all that is asked.                     *)
(***************************************************************************)
EXTENDS Drivers

LOCAL Least(offset, n)    == [kind |-> "least", off |-> offset, len |-> n]
LOCAL Span(offset, n)     == [kind |-> "range", off |-> offset, len |-> n]
LOCAL TotalLen            == [kind |-> "len", off |-> 0, len |-> 0]

InSource ==
  {<<Least(o, n)>> : o \in {0, 3}, n \in {1, 3}}
    \cup {<<Span(0, 1)>>, <<Span(2, 1)>>, <<Span(2, 3)>>}
    \cup {<<>>, <<TotalLen>>, <<Span(4, 0)>>, <<Span(0, 5)>>,
          <<Span(0, 5), Least(2, 1)>>, <<Span(0, 1), Span(3, 2)>>,
          <<Span(3, 1), Span(1, 2), Span(0, 2)>>}

\* A window of one byte, and a spool that just fits.
Sources == {NewSource("window", 1, 5), NewSource("spool", 5, 5)}

\* A damaged file may name bytes its source does not have.
AndPastTheEnd ==
  InSource \cup {<<Least(6, 1)>>, <<Least(6, 3)>>, <<Span(4, 3)>>}
==============================================================================
