--------------------------------- MODULE Http ---------------------------------
(***************************************************************************)
(* What the HTTP layer makes of the bytes in a connection's buffer.        *)
(*                                                                         *)
(* Bytes are taken by lines: a line of two words or more, which begins a   *)
(* request or is one of its fields; a Content-Length field; a line of one  *)
(* word, which begins none; and the empty line that ends a head.  A body   *)
(* is made of the same lines.  One line is one unit of length.             *)
(***************************************************************************)
EXTENDS Integers, Sequences

CONSTANT SizeModulus    \* sums of size_t are taken modulo this

ASSUME SizeAssumption == SizeModulus \in Nat \ {0}

\* what tells apart the requests that begin with a line.
Line(what) == [is |-> "line", what |-> what, length |-> 0]
ContentLength(n) == [is |-> "length", what |-> "none", length |-> n]
Word == [is |-> "word", what |-> "none", length |-> 0]
EmptyLine == [is |-> "empty", what |-> "none", length |-> 0]

\* Only a ContentLength has a length, and what a line is only a "line".
Unit == [is : {"line", "length", "word", "empty"}, what : STRING \cup {"none"}, length : Nat]

\* A request as its client means it: a first line, the values of its
\* Content-Length fields, and a body.
Request == [what : STRING, lengths : Seq(Nat), body : Seq(Unit)]
Units(r) == <<Line(r.what)>> \o [i \in DOMAIN r.lengths |-> ContentLength(r.lengths[i])]
              \o <<EmptyLine>> \o r.body

\* Its body has the length it declares, none if it declares none, and the
\* length of all of it is a size_t.
WellFormed(r) ==
  /\ Len(r.body) = IF r.lengths = <<>> THEN 0 ELSE r.lengths[Len(r.lengths)]
  /\ Len(Units(r)) < SizeModulus
-----------------------------------------------------------------------------
(* tryParseHttpRequest *)

HeadEnds(data) == {i \in DOMAIN data : data[i].is = "empty"}
HeadEnd(data) == CHOOSE i \in HeadEnds(data) : \A j \in HeadEnds(data) : i =< j

\* The fields of a head are kept in a map: the last of a name stays.
LengthFields(data) == {i \in 2 .. HeadEnd(data) : data[i].is = "length"}
BodyLength(data) ==
  IF LengthFields(data) = {} THEN 0
  ELSE data[CHOOSE i \in LengthFields(data) : \A j \in LengthFields(data) : j =< i].length

\* bodyStart + contentLength, in size_t.
Consumed(data) == (HeadEnd(data) + BodyLength(data)) % SizeModulus

\* Mutant of Complete: a request ends with its head, whatever Content-Length says.
CompleteHead(data) == HeadEnds(data) # {} /\ HeadEnd(data) > 1 /\ data[1].is # "word"

\* A whole request is in the buffer: its head has ended, begins with a method
\* and a target, and the body has come.
Complete(data) ==
  /\ HeadEnds(data) # {} /\ HeadEnd(data) > 1
  /\ data[1].is # "word"
  /\ Len(data) >= Consumed(data)

\* substr() stops at the end of the data.
Body(data) ==
  LET last == HeadEnd(data) + BodyLength(data)
  IN  SubSeq(data, HeadEnd(data) + 1, IF last < Len(data) THEN last ELSE Len(data))

Parsed(data) == [what |-> data[1].what, body |-> Body(data)]
=============================================================================
