---------------------------- MODULE ReactorProofs ----------------------------
(***************************************************************************)
(* Proofs about Http and Reactor, for requests of any length and any       *)
(* number of clients, descriptors and requests, however TCP cuts what the  *)
(* clients send and whatever the kernel takes of a response at once.       *)
(***************************************************************************)
EXTENDS Reactor, SequenceTheorems, WellFoundedInduction, TLAPS

(* The parser: a request is framed as its client meant it, wherever its bytes are cut. *)

\* Where the head of r ends.
HeadLength(r) == Len(r.lengths) + 2

\* The data begin with the head of r.
StartsWith(data, r) ==
  /\ data \in Seq(Unit) /\ Len(data) >= HeadLength(r)
  /\ data[1] = Line(r.what)
  /\ \A i \in 2 .. HeadLength(r) - 1 : data[i] = ContentLength(r.lengths[i - 1])
  /\ data[HeadLength(r)] = EmptyLine

\* What a line is.
LEMMA UnitFacts ==
  /\ EmptyLine \in Unit /\ EmptyLine.is = "empty"
  /\ \A w \in STRING : Line(w) \in Unit /\ Line(w).is = "line" /\ Line(w).what = w
  /\ \A n \in Nat : ContentLength(n) \in Unit /\ ContentLength(n).is = "length"
                    /\ ContentLength(n).length = n
<1>1. EmptyLine \in Unit /\ EmptyLine.is = "empty"
  BY DEF Unit, EmptyLine
<1>2. ASSUME NEW w \in STRING PROVE Line(w) \in Unit /\ Line(w).is = "line" /\ Line(w).what = w
  BY DEF Unit, Line
<1>3. ASSUME NEW n \in Nat
      PROVE  ContentLength(n) \in Unit /\ ContentLength(n).is = "length" /\ ContentLength(n).length = n
  BY DEF Unit, ContentLength
<1> QED BY <1>1, <1>2, <1>3

LEMMA RequestFacts ==
  ASSUME NEW r \in Request
  PROVE  /\ r.what \in STRING /\ r.lengths \in Seq(Nat) /\ r.body \in Seq(Unit)
         /\ Len(r.lengths) \in Nat /\ Len(r.body) \in Nat
         /\ HeadLength(r) = Len(r.lengths) + 2 /\ HeadLength(r) \in Nat /\ HeadLength(r) >= 2
         /\ DOMAIN r.lengths = 1 .. Len(r.lengths)
         /\ \A i \in 1 .. Len(r.lengths) : r.lengths[i] \in Nat
<1>1. r.what \in STRING /\ r.lengths \in Seq(Nat) /\ r.body \in Seq(Unit)
  BY DEF Request
<1>2. /\ Len(r.lengths) \in Nat /\ Len(r.body) \in Nat
      /\ DOMAIN r.lengths = 1 .. Len(r.lengths)
      /\ \A i \in 1 .. Len(r.lengths) : r.lengths[i] \in Nat
  BY <1>1, LenProperties, ElementOfSeq
<1> QED BY <1>1, <1>2 DEF HeadLength

\* A request has a first line, its length fields, an empty line, and its body.
LEMMA UnitsType ==
  ASSUME NEW r \in Request
  PROVE  /\ Units(r) \in Seq(Unit) /\ Len(Units(r)) = HeadLength(r) + Len(r.body)
         /\ Units(r)[1] = Line(r.what)
         /\ \A i \in 2 .. HeadLength(r) - 1 : Units(r)[i] = ContentLength(r.lengths[i - 1])
         /\ Units(r)[HeadLength(r)] = EmptyLine
         /\ \A i \in 1 .. Len(r.body) : Units(r)[HeadLength(r) + i] = r.body[i]
<1> DEFINE fields == [i \in DOMAIN r.lengths |-> ContentLength(r.lengths[i])]
           first == <<Line(r.what)>>
           end == <<EmptyLine>>
           n == Len(r.lengths)
<1>1. n \in Nat /\ fields = [i \in 1 .. n |-> ContentLength(r.lengths[i])]
  BY RequestFacts
<1>2. fields \in Seq(Unit) /\ Len(fields) = n
  <2>1. fields \in [1 .. n -> Unit]
    BY <1>1, RequestFacts, UnitFacts
  <2> HIDE DEF fields, n
  <2>2. fields \in Seq(Unit)
    BY <1>1, <2>1, SeqDef
  <2>3. DOMAIN fields = 1 .. n /\ DOMAIN fields = 1 .. Len(fields) /\ Len(fields) \in Nat
    BY <2>1, <2>2, LenProperties
  <2> QED BY <1>1, <2>2, <2>3
<1>3. \A i \in 1 .. n : fields[i] = ContentLength(r.lengths[i])
  BY <1>1
<1>4. first \in Seq(Unit) /\ Len(first) = 1 /\ first[1] = Line(r.what)
  <2>1. Line(r.what) \in Unit
    BY RequestFacts, UnitFacts
  <2> QED BY <2>1
<1>5. end \in Seq(Unit) /\ Len(end) = 1 /\ end[1] = EmptyLine
  BY UnitFacts
<1>6. Units(r) = ((first \o fields) \o end) \o r.body
  BY DEF Units
<1> DEFINE two == first \o fields
           three == two \o end
<1>7. r.body \in Seq(Unit) /\ Len(r.body) \in Nat /\ HeadLength(r) = n + 2
  BY RequestFacts
<1> DEFINE b == Len(r.body)
<1>a. n \in Nat /\ b \in Nat
  BY <1>1, <1>7
<1> HIDE DEF fields, first, end, n, b
<1>8. /\ two \in Seq(Unit) /\ Len(two) = n + 1 /\ two[1] = Line(r.what)
      /\ \A i \in 2 .. n + 1 : two[i] = ContentLength(r.lengths[i - 1])
  <2>0. two \in Seq(Unit) /\ Len(two) = Len(first) + Len(fields)
        /\ \A i \in 1 .. Len(first) + Len(fields) :
              two[i] = IF i <= Len(first) THEN first[i] ELSE fields[i - Len(first)]
    BY <1>2, <1>4, ConcatProperties
  <2>1. two \in Seq(Unit) /\ Len(two) = 1 + n
        /\ \A i \in 1 .. 1 + n : two[i] = IF i <= 1 THEN first[i] ELSE fields[i - 1]
    BY <1>2, <1>4, <2>0
  <2> HIDE DEF two
  <2>2. two[1] = Line(r.what)
    BY <1>1, <1>4, <2>1
  <2>3. ASSUME NEW i \in 2 .. n + 1 PROVE two[i] = ContentLength(r.lengths[i - 1])
    <3>1. i \in 1 .. 1 + n /\ i - 1 \in 1 .. n /\ ~(i =< 1)
      BY <1>a
    <3>2. two[i] = fields[i - 1]
      BY <2>1, <3>1
    <3> QED BY <1>3, <3>1, <3>2
  <2> QED BY <1>1, <2>1, <2>2, <2>3
<1> HIDE DEF two
<1>9. /\ three \in Seq(Unit) /\ Len(three) = n + 2 /\ three[n + 2] = EmptyLine
      /\ \A i \in 1 .. n + 1 : three[i] = two[i]
  <2>0. three \in Seq(Unit) /\ Len(three) = Len(two) + Len(end)
        /\ \A i \in 1 .. Len(two) + Len(end) :
              three[i] = IF i <= Len(two) THEN two[i] ELSE end[i - Len(two)]
    BY <1>5, <1>8, ConcatProperties
  <2>1. three \in Seq(Unit) /\ Len(three) = n + 1 + 1
        /\ \A i \in 1 .. n + 1 + 1 : three[i] = IF i <= n + 1 THEN two[i] ELSE end[i - (n + 1)]
    BY <1>5, <1>8, <2>0
  <2> HIDE DEF three
  <2> DEFINE k == n + 2
  <2>2. k \in 1 .. n + 1 + 1 /\ ~(k <= n + 1) /\ k - (n + 1) = 1
    BY <1>a
  <2> HIDE DEF k
  <2>3. three[k] = end[k - (n + 1)]
    BY <2>1, <2>2
  <2>4. \A i \in 1 .. n + 1 : i \in 1 .. n + 1 + 1 /\ i =< n + 1
    BY <1>a
  <2>5. \A i \in 1 .. n + 1 : three[i] = two[i]
    BY <2>1, <2>4
  <2>6. three[n + 2] = EmptyLine
    BY <1>5, <2>2, <2>3 DEF k
  <2>7. Len(three) = n + 2
    BY <1>a, <2>1
  <2> QED BY <2>1, <2>5, <2>6, <2>7
<1> HIDE DEF three
<1>10. /\ Units(r) \in Seq(Unit) /\ Len(Units(r)) = n + 2 + b
       /\ \A i \in 1 .. n + 2 + b :
             Units(r)[i] = IF i <= n + 2 THEN three[i] ELSE r.body[i - (n + 2)]
  <2>1. Units(r) = three \o r.body
    BY <1>6 DEF three, two
  <2> DEFINE body == r.body
             all == three \o body
  <2>2. body \in Seq(Unit) /\ three \in Seq(Unit) /\ b = Len(body) /\ Len(three) = n + 2
    BY <1>7, <1>9 DEF b
  <2>3. /\ all \in Seq(Unit) /\ Len(all) = Len(three) + Len(body)
        /\ \A i \in 1 .. Len(three) + Len(body) :
              all[i] = IF i <= Len(three) THEN three[i] ELSE body[i - Len(three)]
    <3> HIDE DEF body
    <3> QED BY <2>2, ConcatProperties
  <2> HIDE DEF all, body
  <2>4. /\ all \in Seq(Unit) /\ Len(all) = n + 2 + b
        /\ \A i \in 1 .. n + 2 + b : all[i] = IF i <= n + 2 THEN three[i] ELSE body[i - (n + 2)]
    BY <2>2, <2>3
  <2> QED BY <2>1, <2>4 DEF all, body
<1>11. \A i \in 1 .. n + 2 : Units(r)[i] = three[i]
  <2>1. \A i \in 1 .. n + 2 : i \in 1 .. n + 2 + b /\ i =< n + 2
    BY <1>a
  <2> QED BY <1>10, <2>1
<1>12. ASSUME NEW i \in 1 .. b PROVE Units(r)[HeadLength(r) + i] = r.body[i]
  <2> DEFINE k == n + 2 + i
  <2>1. k \in 1 .. n + 2 + b /\ ~(k <= n + 2) /\ k - (n + 2) = i
    BY <1>a
  <2>2. HeadLength(r) + i = k
    BY <1>7
  <2> HIDE DEF k
  <2>3. Units(r)[k] = r.body[k - (n + 2)]
    BY <1>10, <2>1
  <2> QED BY <2>1, <2>2, <2>3
<1>13. Units(r)[1] = Line(r.what)
  <2>1. 1 \in 1 .. n + 1 /\ 1 \in 1 .. n + 2
    BY <1>a
  <2> QED BY <1>8, <1>9, <1>11, <2>1
<1>14. ASSUME NEW i \in 2 .. HeadLength(r) - 1 PROVE Units(r)[i] = ContentLength(r.lengths[i - 1])
  <2>1. i \in 2 .. n + 1 /\ i \in 1 .. n + 1 /\ i \in 1 .. n + 2
    BY <1>a, <1>7
  <2> QED BY <1>8, <1>9, <1>11, <2>1
<1>15. Units(r)[HeadLength(r)] = EmptyLine
  <2>1. n + 2 \in 1 .. n + 2
    BY <1>a
  <2> QED BY <1>7, <1>9, <1>11, <2>1
<1> QED BY <1>7, <1>10, <1>12, <1>13, <1>14, <1>15 DEF b

\* Of data that begin with the head of a request the parser finds that head.
LEMMA HeadIsFound ==
  ASSUME NEW r \in Request, NEW data, StartsWith(data, r)
  PROVE  /\ HeadEnds(data) # {} /\ HeadEnd(data) = HeadLength(r)
         /\ BodyLength(data) = IF r.lengths = <<>> THEN 0 ELSE r.lengths[Len(r.lengths)]
<1> DEFINE h == HeadLength(r)
           n == Len(r.lengths)
<1>1. h \in Nat /\ h >= 2 /\ n \in Nat /\ h = n + 2
  BY RequestFacts
<1>2. DOMAIN data = 1 .. Len(data) /\ Len(data) \in Nat /\ Len(data) >= h
  BY LenProperties DEF StartsWith
<1>3. /\ data[1] = Line(r.what) /\ data[h] = EmptyLine
      /\ \A i \in 2 .. h - 1 : data[i] = ContentLength(r.lengths[i - 1])
  BY DEF StartsWith
<1>4. \A i \in 2 .. h - 1 : data[i].is = "length"
  <2> TAKE i \in 2 .. h - 1
  <2>1. i - 1 \in 1 .. n
    BY <1>1
  <2>2. r.lengths[i - 1] \in Nat
    BY <2>1, RequestFacts
  <2> QED BY <1>3, <2>2, UnitFacts
<1>5. data[1].is = "line" /\ data[h].is = "empty"
  <2>1. r.what \in STRING
    BY RequestFacts
  <2>2. Line(r.what).is = "line" /\ EmptyLine.is = "empty"
    BY <2>1, UnitFacts
  <2> QED BY <1>3, <2>2
<1> HIDE DEF h, n
<1>6. h \in HeadEnds(data)
  <2>1. h \in 1 .. Len(data)
    BY <1>1, <1>2
  <2> QED BY <1>2, <1>5, <2>1 DEF HeadEnds
<1>7. \A i \in HeadEnds(data) : i \in Nat /\ h =< i
  <2> TAKE i \in HeadEnds(data)
  <2>1. i \in 1 .. Len(data) /\ data[i].is = "empty"
    BY <1>2 DEF HeadEnds
  <2>2. i # 1 /\ i \notin 2 .. h - 1
    BY <1>4, <1>5, <2>1
  <2> QED BY <1>1, <1>2, <2>1, <2>2
<1>8. HeadEnd(data) = h
  <2> DEFINE P(i) == \A j \in HeadEnds(data) : i =< j
  <2>1. \A i \in HeadEnds(data) : P(i) => i = h
    BY <1>1, <1>6, <1>7
  <2>2. P(h)
    BY <1>7
  <2>3. HeadEnd(data) = CHOOSE i \in HeadEnds(data) : P(i)
    BY DEF HeadEnd
  <2> HIDE DEF P
  <2> QED BY <1>6, <2>1, <2>2, <2>3
<1>9. LengthFields(data) = 2 .. h - 1
  <2>1. LengthFields(data) = {i \in 2 .. h : data[i].is = "length"}
    BY <1>8 DEF LengthFields
  <2>2. data[h].is # "length"
    BY <1>5
  <2>3. 2 .. h = (2 .. h - 1) \cup {h}
    BY <1>1
  <2> QED BY <1>4, <2>1, <2>2, <2>3
<1>10. CASE r.lengths = <<>>
  <2>1. n = 0
    BY <1>10 DEF n
  <2>2. LengthFields(data) = {}
    BY <1>1, <1>9, <2>1
  <2> QED BY <1>6, <1>8, <1>10, <2>2 DEF BodyLength, h
<1>11. CASE r.lengths # <<>>
  <2>1. n >= 1
    BY <1>1, <1>11, RequestFacts, EmptySeq DEF n
  <2> DEFINE P(i) == \A j \in LengthFields(data) : j =< i
             last == CHOOSE i \in LengthFields(data) : P(i)
  <2>2. n + 1 \in LengthFields(data) /\ \A j \in LengthFields(data) : j \in Nat /\ j =< n + 1
    BY <1>1, <1>9, <2>1
  <2>3. \A i \in LengthFields(data) : P(i) => i = n + 1
    BY <1>1, <2>2
  <2>4. P(n + 1)
    BY <2>2
  <2> HIDE DEF P
  <2>5. last = n + 1
    BY <2>2, <2>3, <2>4
  <2>6. LengthFields(data) # {}
    BY <2>2
  <2>7. BodyLength(data) = data[last].length
    BY <2>6 DEF BodyLength, P
  <2>8. n + 1 \in 2 .. h - 1 /\ n + 1 - 1 = n /\ n \in 1 .. n
    BY <1>1, <2>1
  <2>9. data[n + 1] = ContentLength(r.lengths[n])
    BY <1>3, <2>8 DEF h, n
  <2>10. r.lengths[n] \in Nat
    BY <2>8, RequestFacts DEF n
  <2>11. BodyLength(data) = r.lengths[n]
    <3>1. ContentLength(r.lengths[n]).length = r.lengths[n]
      BY <2>10, UnitFacts
    <3> HIDE DEF last
    <3> QED BY <2>5, <2>7, <2>9, <3>1
  <2> QED BY <1>6, <1>8, <1>11, <2>11 DEF h, n
<1> QED BY <1>10, <1>11

\* A well-formed request is complete once all of it is there, is taken off
\* the buffer to its last byte, and is what its client meant, whatever comes
\* behind it: tryParseHttpRequest frames pipelined requests.
THEOREM RequestIsFramed ==
  ASSUME NEW r \in Request, WellFormed(r), NEW rest \in Seq(Unit)
  PROVE  LET data == Units(r) \o rest IN
         /\ Complete(data) /\ Consumed(data) = Len(Units(r))
         /\ Parsed(data) = [what |-> r.what, body |-> r.body]
<1> DEFINE units == Units(r)
           data == units \o rest
           h == HeadLength(r)
           b == Len(r.body)
<1>1. /\ h \in Nat /\ h >= 2 /\ b \in Nat /\ r.what \in STRING /\ r.body \in Seq(Unit)
  BY RequestFacts
<1>2. units \in Seq(Unit) /\ Len(units) = h + b
  BY UnitsType
<1> HIDE DEF units
<1>3. /\ data \in Seq(Unit) /\ Len(data) = Len(units) + Len(rest)
      /\ \A i \in 1 .. Len(units) + Len(rest) :
            data[i] = IF i <= Len(units) THEN units[i] ELSE rest[i - Len(units)]
  BY <1>2, ConcatProperties
<1> HIDE DEF data, h, b
<1>4. Len(rest) \in Nat
  BY LenProperties
<1>5. Len(data) \in Nat /\ Len(data) >= h + b /\ \A i \in 1 .. h + b : data[i] = units[i]
  <2>1. \A i \in 1 .. h + b : i \in 1 .. Len(units) + Len(rest) /\ i <= Len(units)
    BY <1>1, <1>2, <1>4
  <2> QED BY <1>1, <1>2, <1>3, <1>4, <2>1
<1>6. StartsWith(data, r)
  <2>1. /\ 1 \in 1 .. h + b /\ h \in 1 .. h + b /\ Len(data) >= h
        /\ \A i \in 2 .. h - 1 : i \in 1 .. h + b
    BY <1>1, <1>5
  <2>2. /\ units[1] = Line(r.what) /\ units[h] = EmptyLine
        /\ \A i \in 2 .. h - 1 : units[i] = ContentLength(r.lengths[i - 1])
    BY UnitsType DEF units, h
  <2>3. /\ data[1] = Line(r.what) /\ data[h] = EmptyLine
        /\ \A i \in 2 .. h - 1 : data[i] = ContentLength(r.lengths[i - 1])
    BY <1>5, <2>1, <2>2
  <2> QED BY <1>3, <2>1, <2>3 DEF StartsWith, h
<1>7. HeadEnds(data) # {} /\ HeadEnd(data) = h /\ BodyLength(data) = b
  BY <1>6, HeadIsFound DEF WellFormed, h, b
<1>8. Consumed(data) = h + b
  <2>1. h + b < SizeModulus /\ SizeModulus \in Nat
    BY <1>2, SizeAssumption DEF WellFormed, units
  <2>2. (h + b) % SizeModulus = h + b
    BY <1>1, <2>1
  <2> QED BY <1>7, <2>2 DEF Consumed
<1>9. data[1].is = "line" /\ data[1].what = r.what
  <2>1. Line(r.what).is = "line" /\ Line(r.what).what = r.what
    BY <1>1, UnitFacts
  <2> QED BY <1>6, <2>1 DEF StartsWith
<1>10. Complete(data)
  <2>1. HeadEnd(data) > 1 /\ Len(data) >= Consumed(data)
    BY <1>1, <1>5, <1>7, <1>8
  <2> QED BY <1>7, <1>9, <2>1 DEF Complete
<1>11. Body(data) = r.body
  <2> DEFINE low == h + 1
             high == h + b
  <2>1. (IF high < Len(data) THEN high ELSE Len(data)) = high
    <3>1. high < Len(data) \/ Len(data) = high
      BY <1>1, <1>5
    <3> HIDE DEF high
    <3> QED BY <3>1
  <2>2. Body(data) = SubSeq(data, low, high)
    BY <1>7, <2>1 DEF Body
  <2> DEFINE part == SubSeq(data, low, high)
  <2>3. \A i \in h + 1 .. h + b : data[i] \in Unit
    <3>1. \A i \in h + 1 .. h + b : i \in 1 .. Len(data)
      BY <1>1, <1>5
    <3> QED BY <1>3, <3>1, ElementOfSeq
  <2>4. /\ part \in Seq(Unit) /\ Len(part) = IF low <= high THEN high - low + 1 ELSE 0
        /\ \A i \in 1 .. high - low + 1 : part[i] = data[low + i - 1]
    <3>1. low \in Int /\ high \in Int /\ \A i \in low .. high : data[i] \in Unit
      BY <1>1, <2>3
    <3> HIDE DEF low, high
    <3> QED BY <3>1, SubSeqProperties
  <2> HIDE DEF part
  <2>5. Len(part) = b
    BY <1>1, <2>4
  <2>6. ASSUME NEW i \in 1 .. b PROVE part[i] = r.body[i]
    <3>1. i \in 1 .. high - low + 1 /\ low + i - 1 = h + i /\ h + i \in 1 .. h + b
      BY <1>1
    <3>2. part[i] = data[h + i]
      BY <2>4, <3>1
    <3>3. data[h + i] = units[h + i]
      BY <1>5, <3>1
    <3>4. units[h + i] = r.body[i]
      BY UnitsType DEF units, h, b
    <3> QED BY <3>2, <3>3, <3>4
  <2>7. part = r.body
    <3> DEFINE body == r.body
    <3>1. /\ body \in Seq(Unit) /\ part \in Seq(Unit) /\ Len(part) = Len(body)
          /\ \A i \in 1 .. Len(part) : part[i] = body[i]
      BY <1>1, <2>4, <2>5, <2>6 DEF b
    <3> HIDE DEF body
    <3>2. part = body
      BY <3>1, SeqEqual
    <3> QED BY <3>2 DEF body
  <2> QED BY <2>2, <2>7 DEF part
<1>12. Parsed(data) = [what |-> r.what, body |-> r.body]
  BY <1>9, <1>11 DEF Parsed
<1> QED BY <1>2, <1>8, <1>10, <1>12 DEF data, units

\* As long as a part of a well-formed request is missing the parser waits: no
\* request is run of fewer bytes than its client sends.
THEOREM PartIsNoRequest ==
  ASSUME NEW r \in Request, WellFormed(r), NEW n \in 0 .. Len(Units(r)) - 1
  PROVE  ~Complete(SubSeq(Units(r), 1, n))
<1> DEFINE units == Units(r)
           data == SubSeq(units, 1, n)
           h == HeadLength(r)
           b == Len(r.body)
<1>1. h \in Nat /\ h >= 2 /\ b \in Nat /\ r.what \in STRING
  BY RequestFacts
<1>2. units \in Seq(Unit) /\ Len(units) = h + b
  BY UnitsType
<1>3. n \in 0 .. h + b - 1 /\ n \in Nat /\ n < h + b
  BY <1>1, <1>2
<1>u. /\ units[1] = Line(r.what) /\ units[h] = EmptyLine
      /\ \A i \in 2 .. h - 1 : units[i] = ContentLength(r.lengths[i - 1])
  BY UnitsType
<1> HIDE DEF units, h, b
<1>4. /\ data \in Seq(Unit) /\ Len(data) = n /\ DOMAIN data = 1 .. n
      /\ \A i \in 1 .. n : data[i] = units[i]
  <2>1. \A i \in 1 .. n : i \in 1 .. Len(units)
    BY <1>1, <1>2, <1>3
  <2>2. \A i \in 1 .. n : units[i] \in Unit
    BY <1>2, <2>1, ElementOfSeq
  <2>3. /\ data \in Seq(Unit) /\ Len(data) = IF 1 <= n THEN n - 1 + 1 ELSE 0
        /\ \A i \in 1 .. n - 1 + 1 : data[i] = units[1 + i - 1]
    <3>1. 1 \in Int /\ n \in Int
      BY <1>3
    <3> QED BY <2>2, <3>1, SubSeqProperties
  <2> HIDE DEF data
  <2>4. Len(data) = n
    BY <1>3, <2>3
  <2>5. ASSUME NEW i \in 1 .. n PROVE data[i] = units[i]
    <3>1. i \in 1 .. n - 1 + 1 /\ 1 + i - 1 = i
      BY <1>3
    <3> QED BY <2>3, <3>1
  <2> QED BY <2>3, <2>4, <2>5, LenProperties
<1> HIDE DEF data
<1>5. CASE n < h
  <2>1. ASSUME NEW i \in 1 .. n PROVE data[i].is # "empty"
    <3>1. i = 1 \/ i \in 2 .. h - 1
      BY <1>1, <1>3, <1>5
    <3>2. CASE i = 1
      <4>1. data[i] = Line(r.what)
        BY <1>4, <1>u, <3>2
      <4> QED BY <1>1, <4>1, UnitFacts
    <3>3. CASE i \in 2 .. h - 1
      <4>1. data[i] = ContentLength(r.lengths[i - 1])
        BY <1>4, <1>u, <3>3
      <4>2. i - 1 \in 1 .. Len(r.lengths)
        BY <1>1, <3>3, RequestFacts DEF h
      <4>3. r.lengths[i - 1] \in Nat
        BY <4>2, RequestFacts
      <4> QED BY <4>1, <4>3, UnitFacts
    <3> QED BY <3>1, <3>2, <3>3
  <2>2. HeadEnds(data) = {}
    BY <1>4, <2>1 DEF HeadEnds
  <2> QED BY <2>2 DEF Complete, data, units
<1>6. CASE n >= h
  <2>1. StartsWith(data, r)
    <3>1. /\ 1 \in 1 .. n /\ h \in 1 .. n /\ \A i \in 2 .. h - 1 : i \in 1 .. n
      BY <1>1, <1>3, <1>6
    <3>2. /\ data[1] = Line(r.what) /\ data[h] = EmptyLine
          /\ \A i \in 2 .. h - 1 : data[i] = ContentLength(r.lengths[i - 1])
      BY <1>4, <1>u, <3>1
    <3> QED BY <1>4, <1>6, <3>2 DEF StartsWith, h
  <2>2. HeadEnd(data) = h /\ BodyLength(data) = b
    BY <2>1, HeadIsFound DEF WellFormed, h, b
  <2>3. h + b < SizeModulus /\ SizeModulus \in Nat
    BY <1>2, SizeAssumption DEF WellFormed, units
  <2>4. (h + b) % SizeModulus = h + b
    BY <1>1, <2>3
  <2>5. Consumed(data) = h + b
    BY <2>2, <2>4 DEF Consumed
  <2>6. ~(Len(data) >= Consumed(data))
    BY <1>1, <1>3, <1>4, <2>5
  <2> QED BY <2>6 DEF Complete, data, units
<1> QED BY <1>1, <1>3, <1>5, <1>6
-----------------------------------------------------------------------------
(* What the clients send. *)

LEMMA LeastNumber ==
  ASSUME NEW S, S \subseteq Nat, S # {}
  PROVE  \E i \in S : \A j \in S : i =< j
<1> DEFINE Less == OpToRel(<, Nat)
<1>1. PICK i \in S : \A j \in S : ~(<<j, i>> \in Less)
  <2>1. IsWellFoundedOn(Less, Nat)
    BY NatLessThanWellFounded
  <2> HIDE DEF Less
  <2> QED BY <2>1, WFMin
<1>2. \A j \in Nat : j < i => <<j, i>> \in Less
  BY DEF OpToRel
<1> HIDE DEF Less
<1>3. \A j \in S : i =< j
  <2> TAKE j \in S
  <2>1. i \in Nat /\ j \in Nat /\ ~(j < i)
    BY <1>1, <1>2
  <2> QED BY <2>1
<1> QED BY <1>3

\* Induction over an interval, for a set in place of a predicate.
LEMMA Induct ==
  ASSUME NEW n \in Nat, NEW S, 0 \in S, \A k \in 0 .. n - 1 : k \in S => k + 1 \in S
  PROVE  \A k \in 0 .. n : k \in S
<1> DEFINE T == {k \in 0 .. n : k \notin S}
<1> SUFFICES ASSUME T # {} PROVE FALSE
  OBVIOUS
<1>1. PICK k \in T : \A j \in T : k =< j
  <2>1. T \subseteq Nat
    OBVIOUS
  <2> HIDE DEF T
  <2> QED BY <2>1, LeastNumber
<1>2. k # 0 /\ k \in 0 .. n /\ k \notin S
  OBVIOUS
<1>3. k - 1 \in 0 .. n - 1 /\ k - 1 \in 0 .. n /\ k - 1 + 1 = k /\ ~(k =< k - 1)
  BY <1>2
<1>4. k - 1 \in S
  BY <1>1, <1>3
<1> QED BY <1>2, <1>3, <1>4

\* The recursion of Joined has a solution, so Joined is it.
LEMMA JoinedDef ==
  ASSUME NEW rs \in Seq(Request)
  PROVE  Joined(rs) = [k \in 0 .. Len(rs) |->
                         IF k = 0 THEN <<>> ELSE Joined(rs)[k - 1] \o Units(rs[k])]
<1> DEFINE n == Len(rs)
           F(g, m) == [k \in 0 .. m |-> IF k = 0 THEN <<>> ELSE g[k - 1] \o Units(rs[k])]
           S == {m \in 0 .. n : \E g : g = F(g, m)}
<1>1. n \in Nat
  BY LenProperties
<1>2. 0 \in S
  <2> DEFINE g == [k \in 0 .. 0 |-> <<>>]
  <2>1. g = F(g, 0)
    OBVIOUS
  <2> HIDE DEF F
  <2> QED BY <1>1, <2>1
<1>3. ASSUME NEW m \in 0 .. n - 1, m \in S PROVE m + 1 \in S
  <2>1. PICK g : g = F(g, m)
    BY <1>3
  <2> DEFINE h == [k \in 0 .. m + 1 |-> IF k =< m THEN g[k] ELSE g[m] \o Units(rs[m + 1])]
  <2>2. ASSUME NEW k \in 0 .. m + 1 PROVE h[k] = F(h, m + 1)[k]
    <3>1. CASE k = 0
      BY <1>1, <2>1, <3>1
    <3>2. CASE k \in 1 .. m
      <4>0. k \in 0 .. m + 1 /\ k - 1 \in 0 .. m + 1 /\ k =< m /\ k - 1 =< m /\ k # 0
        BY <1>1, <3>2
      <4>1. h[k] = g[k] /\ h[k - 1] = g[k - 1]
        BY <4>0
      <4>2. g[k] = g[k - 1] \o Units(rs[k])
        <5>1. k \in 0 .. m /\ k # 0
          BY <1>1, <3>2
        <5>2. F(g, m)[k] = g[k - 1] \o Units(rs[k])
          BY <5>1
        <5> HIDE DEF F
        <5> QED BY <2>1, <5>2
      <4>3. F(h, m + 1)[k] = h[k - 1] \o Units(rs[k])
        <5> HIDE DEF h
        <5> QED BY <4>0
      <4>4. h[k] = h[k - 1] \o Units(rs[k])
        <5> HIDE DEF h
        <5> QED BY <4>1, <4>2
      <4> HIDE DEF h, F
      <4> QED BY <4>3, <4>4
    <3>3. CASE k = m + 1
      <4>0. k \in 0 .. m + 1 /\ k - 1 \in 0 .. m + 1 /\ ~(k =< m) /\ k - 1 = m /\ m =< m /\ k # 0
        BY <1>1, <3>3
      <4>1. h[k] = g[m] \o Units(rs[m + 1]) /\ h[k - 1] = g[m]
        BY <4>0
      <4>2. F(h, m + 1)[k] = h[k - 1] \o Units(rs[k])
        <5> HIDE DEF h
        <5> QED BY <4>0
      <4> QED BY <3>3, <4>1, <4>2
    <3> QED BY <1>1, <3>1, <3>2, <3>3
  <2>3. h = F(h, m + 1)
    <3>1. DOMAIN h = 0 .. m + 1 /\ DOMAIN F(h, m + 1) = 0 .. m + 1
      OBVIOUS
    <3>2. h = [k \in 0 .. m + 1 |-> h[k]] /\ F(h, m + 1) = [k \in 0 .. m + 1 |-> F(h, m + 1)[k]]
      OBVIOUS
    <3> HIDE DEF h, F
    <3> QED BY <2>2, <3>2
  <2>4. m + 1 \in 0 .. n
    BY <1>1
  <2> HIDE DEF h, F
  <2> QED BY <2>3, <2>4
<1>4. n \in S
  <2>1. n \in 0 .. n
    BY <1>1
  <2> HIDE DEF S
  <2> QED BY <1>1, <1>2, <1>3, <2>1, Induct
<1>5. \E g : g = F(g, n)
  BY <1>4
<1>6. Joined(rs) = CHOOSE g : g = F(g, n)
  BY DEF Joined
<1> HIDE DEF F
<1>7. Joined(rs) = F(Joined(rs), n)
  BY <1>5, <1>6
<1> QED BY <1>7 DEF F

LEMMA JoinedStep ==
  ASSUME NEW rs \in Seq(Request)
  PROVE  /\ Joined(rs)[0] = <<>>
         /\ \A k \in 1 .. Len(rs) : Joined(rs)[k] = Joined(rs)[k - 1] \o Units(rs[k])
<1> DEFINE J == Joined(rs)
           n == Len(rs)
<1>1. n \in Nat
  BY LenProperties
<1>2. J = [k \in 0 .. n |-> IF k = 0 THEN <<>> ELSE J[k - 1] \o Units(rs[k])]
  BY JoinedDef
<1> HIDE DEF J, n
<1>3. J[0] = <<>>
  BY <1>1, <1>2
<1>4. ASSUME NEW k \in 1 .. n PROVE J[k] = J[k - 1] \o Units(rs[k])
  <2>1. k \in 0 .. n /\ k # 0
    BY <1>1
  <2> QED BY <1>2, <2>1
<1> QED BY <1>3, <1>4 DEF J, n

LEMMA JoinedType ==
  ASSUME NEW rs \in Seq(Request)
  PROVE  \A k \in 0 .. Len(rs) : Joined(rs)[k] \in Seq(Unit)
<1> DEFINE J == Joined(rs)
           n == Len(rs)
           S == {k \in 0 .. n : J[k] \in Seq(Unit)}
<1>0. J[0] = <<>> /\ \A k \in 1 .. n : J[k] = J[k - 1] \o Units(rs[k])
  BY JoinedStep
<1>1. n \in Nat
  BY LenProperties
<1> HIDE DEF J, n
<1>2. 0 \in S
  <2>1. <<>> \in Seq(Unit)
    BY EmptySeq
  <2>2. 0 \in 0 .. n
    BY <1>1
  <2> QED BY <1>0, <2>1, <2>2
<1>3. ASSUME NEW k \in 0 .. n - 1, k \in S PROVE k + 1 \in S
  <2>1. k + 1 \in 1 .. n /\ k + 1 \in 0 .. n /\ k + 1 - 1 = k
    BY <1>1
  <2>2. rs[k + 1] \in Request
    BY <2>1, ElementOfSeq DEF n
  <2>3. Units(rs[k + 1]) \in Seq(Unit)
    BY <2>2, UnitsType
  <2>4. J[k + 1] = J[k] \o Units(rs[k + 1])
    <3> DEFINE j == k + 1
    <3>1. j \in 1 .. n /\ j - 1 = k
      BY <2>1
    <3> HIDE DEF j
    <3>2. J[j] = J[j - 1] \o Units(rs[j])
      BY <1>0, <3>1
    <3>3. J[j] = J[k] \o Units(rs[j])
      BY <3>1, <3>2
    <3> QED BY <3>3 DEF j
  <2>5. J[k + 1] \in Seq(Unit)
    BY <1>3, <2>3, <2>4, ConcatProperties
  <2> QED BY <2>1, <2>5
<1> HIDE DEF S
<1>4. \A k \in 0 .. n : k \in S
  BY <1>1, <1>2, <1>3, Induct
<1> QED BY <1>4 DEF S, J, n

\* What the first requests are made of begins what more of them are made of.
LEMMA JoinedPrefix ==
  ASSUME NEW rs \in Seq(Request), NEW m \in 0 .. Len(rs), NEW p \in m .. Len(rs)
  PROVE  /\ Len(Joined(rs)[m]) =< Len(Joined(rs)[p])
         /\ \A i \in 1 .. Len(Joined(rs)[m]) : Joined(rs)[p][i] = Joined(rs)[m][i]
<1> DEFINE J == Joined(rs)
           n == Len(rs)
           Begins(s, t) == Len(s) =< Len(t) /\ \A i \in 1 .. Len(s) : t[i] = s[i]
           S == {k \in 0 .. n : m =< k => Begins(J[m], J[k])}
<1>0. /\ \A k \in 1 .. n : J[k] = J[k - 1] \o Units(rs[k])
      /\ \A k \in 0 .. n : J[k] \in Seq(Unit)
  BY JoinedStep, JoinedType
<1>1. n \in Nat
  BY LenProperties
<1> HIDE DEF J, n
<1>m. m \in 0 .. n /\ p \in 0 .. n /\ m =< p /\ m \in Int
  BY <1>1 DEF n
<1>2. ASSUME NEW s \in Seq(Unit) PROVE Begins(s, s) /\ Len(s) \in Nat
  BY LenProperties
<1>3. ASSUME NEW r \in Seq(Unit), NEW s \in Seq(Unit), NEW t \in Seq(Unit), Begins(r, s)
      PROVE  Begins(r, s \o t)
  <2>1. /\ Len(s \o t) = Len(s) + Len(t)
        /\ \A i \in 1 .. Len(s) + Len(t) : (s \o t)[i] = IF i <= Len(s) THEN s[i] ELSE t[i - Len(s)]
    BY ConcatProperties
  <2>2. Len(r) \in Nat /\ Len(s) \in Nat /\ Len(t) \in Nat /\ Len(r) =< Len(s)
    BY <1>3, LenProperties
  <2>3. ASSUME NEW i \in 1 .. Len(r) PROVE (s \o t)[i] = r[i]
    <3>1. i \in 1 .. Len(s) + Len(t) /\ i <= Len(s)
      BY <2>2
    <3>2. (s \o t)[i] = s[i]
      BY <2>1, <3>1
    <3> QED BY <1>3, <3>2
  <2>4. Len(r) =< Len(s \o t)
    BY <2>1, <2>2
  <2> QED BY <2>3, <2>4
<1> HIDE DEF Begins
<1>4. 0 \in S
  <2>1. 0 \in 0 .. n
    BY <1>1
  <2>2. m =< 0 => m = 0
    BY <1>m
  <2>3. Begins(J[0], J[0])
    BY <1>0, <1>2, <2>1
  <2> QED BY <2>1, <2>2, <2>3
<1>5. ASSUME NEW k \in 0 .. n - 1, k \in S PROVE k + 1 \in S
  <2> DEFINE j == k + 1
  <2>1. j \in 1 .. n /\ j \in 0 .. n /\ j - 1 = k /\ k \in 0 .. n
    BY <1>1
  <2>2. m =< j => m =< k \/ m = j
    BY <1>m, <2>1
  <2> HIDE DEF j
  <2>3. rs[j] \in Request
    BY <2>1, ElementOfSeq DEF n
  <2>4. Units(rs[j]) \in Seq(Unit) /\ J[j] \in Seq(Unit) /\ J[k] \in Seq(Unit) /\ J[m] \in Seq(Unit)
    BY <1>0, <1>m, <2>1, <2>3, UnitsType
  <2>5. J[j] = J[k] \o Units(rs[j])
    BY <1>0, <2>1
  <2>6. CASE m =< k
    <3>1. Begins(J[m], J[k])
      BY <1>5, <2>6
    <3>2. Begins(J[m], J[k] \o Units(rs[j]))
      BY <1>3, <2>4, <3>1
    <3> QED BY <2>1, <2>5, <3>2 DEF j
  <2>7. CASE m = j
    BY <1>2, <2>1, <2>4, <2>7 DEF j
  <2>8. CASE ~(m =< j)
    BY <2>1, <2>8 DEF j
  <2> QED BY <2>2, <2>6, <2>7, <2>8
<1> HIDE DEF S
<1>6. \A k \in 0 .. n : k \in S
  BY <1>1, <1>4, <1>5, Induct
<1>7. Begins(J[m], J[p])
  BY <1>6, <1>m DEF S
<1> QED BY <1>7 DEF Begins, J

\* The units of a stream between two places.
LEMMA PartOfSeq ==
  ASSUME NEW s \in Seq(Unit), NEW e \in Nat, NEW q \in Nat, e =< q, q =< Len(s)
  PROVE  /\ SubSeq(s, e + 1, q) \in Seq(Unit) /\ Len(SubSeq(s, e + 1, q)) = q - e
         /\ \A i \in 1 .. q - e : SubSeq(s, e + 1, q)[i] = s[e + i]
<1> DEFINE low == e + 1
           part == SubSeq(s, low, q)
<1>0. Len(s) \in Nat
  BY LenProperties
<1>1. low \in Int /\ q \in Int /\ \A i \in low .. q : i \in 1 .. Len(s)
  BY <1>0
<1>2. \A i \in low .. q : s[i] \in Unit
  BY <1>1, ElementOfSeq
<1> HIDE DEF low
<1>3. /\ part \in Seq(Unit) /\ Len(part) = IF low <= q THEN q - low + 1 ELSE 0
      /\ \A i \in 1 .. q - low + 1 : part[i] = s[low + i - 1]
  BY <1>1, <1>2, SubSeqProperties
<1> HIDE DEF part
<1>4. Len(part) = q - e
  BY <1>3 DEF low
<1>5. ASSUME NEW i \in 1 .. q - e PROVE part[i] = s[e + i]
  <2>1. i \in 1 .. q - low + 1 /\ low + i - 1 = e + i
    BY DEF low
  <2> QED BY <1>3, <2>1
<1> QED BY <1>3, <1>4, <1>5 DEF part, low

\* Of a stream that was run up to the end of a request, the next request that
\* is read is the one that follows, if that is well-formed: with what comes
\* behind it, it is framed as its client meant it, and a part of it is none.
LEMMA NextRequest ==
  ASSUME NEW rs \in Seq(Request), NEW m \in 1 .. Len(rs), WellFormed(rs[m]),
         NEW q \in Nat, Len(Joined(rs)[m - 1]) =< q, q =< Len(Joined(rs)[Len(rs)]),
         Complete(SubSeq(Joined(rs)[Len(rs)], Len(Joined(rs)[m - 1]) + 1, q))
  PROVE  LET data == SubSeq(Joined(rs)[Len(rs)], Len(Joined(rs)[m - 1]) + 1, q) IN
         /\ Parsed(data) = [what |-> rs[m].what, body |-> rs[m].body]
         /\ Consumed(data) = Len(Joined(rs)[m]) - Len(Joined(rs)[m - 1])
<1> DEFINE J == Joined(rs)
           n == Len(rs)
           r == rs[m]
           u == Units(r)
           l == m - 1
           e == Len(J[l])
           data == SubSeq(J[n], e + 1, q)
<1>1. n \in Nat /\ m \in 1 .. n /\ m \in 0 .. n /\ n \in 0 .. n /\ n \in m .. n /\ l \in 0 .. n
      /\ l \in Nat
  BY LenProperties
<1>2. r \in Request
  BY ElementOfSeq
<1>3. u \in Seq(Unit) /\ Len(u) \in Nat
  BY <1>2, UnitsType, LenProperties
<1>4. J[m] \in Seq(Unit) /\ J[l] \in Seq(Unit) /\ J[n] \in Seq(Unit)
  BY <1>1, JoinedType
<1>5. J[m] = J[l] \o u
  BY JoinedStep
<1>6. Len(J[m]) =< Len(J[n]) /\ \A i \in 1 .. Len(J[m]) : J[n][i] = J[m][i]
  BY <1>1, JoinedPrefix
<1>7. e =< q /\ q =< Len(J[n]) /\ Complete(data) /\ WellFormed(r)
  OBVIOUS
<1> HIDE DEF J, n, r, u, l
<1>8. e \in Nat /\ Len(J[n]) \in Nat
  BY <1>4, LenProperties
<1>9. /\ Len(J[m]) = e + Len(u)
      /\ \A i \in 1 .. e + Len(u) : J[m][i] = IF i <= e THEN J[l][i] ELSE u[i - e]
  BY <1>3, <1>4, <1>5, ConcatProperties
<1> HIDE DEF e
<1>10. /\ data \in Seq(Unit) /\ Len(data) = q - e
       /\ \A i \in 1 .. q - e : data[i] = J[n][e + i]
  BY <1>4, <1>7, <1>8, PartOfSeq
<1>11. ASSUME NEW i \in 1 .. q - e, i =< Len(u) PROVE data[i] = u[i]
  <2> DEFINE j == e + i
  <2>1. j \in 1 .. e + Len(u) /\ ~(j <= e) /\ j - e = i
    BY <1>3, <1>8, <1>11
  <2>2. data[i] = J[n][j]
    BY <1>10
  <2> HIDE DEF j, data
  <2>3. J[n][j] = J[m][j]
    BY <1>6, <1>9, <2>1
  <2>4. J[m][j] = u[j - e]
    BY <1>9, <2>1
  <2>5. u[j - e] = u[i]
    BY <2>1
  <2> QED BY <2>2, <2>3, <2>4, <2>5
<1> HIDE DEF data
<1> DEFINE d == q - e
<1>d. d \in Nat
  BY <1>7, <1>8
<1>12. ASSUME d < Len(u) PROVE FALSE
  <2> DEFINE part == SubSeq(u, 1, d)
  <2>1. part \in Seq(Unit) /\ Len(part) = d /\ \A i \in 1 .. d : part[i] = u[i]
    <3>1. /\ SubSeq(u, 0 + 1, d) \in Seq(Unit) /\ Len(SubSeq(u, 0 + 1, d)) = d - 0
          /\ \A i \in 1 .. d - 0 : SubSeq(u, 0 + 1, d)[i] = u[0 + i]
      <4>1. 0 =< d /\ d =< Len(u) /\ 0 \in Nat
        BY <1>3, <1>d, <1>12
      <4> HIDE DEF d
      <4> QED BY <1>3, <1>d, <4>1, PartOfSeq
    <3>2. 0 + 1 = 1 /\ d - 0 = d /\ \A i \in 1 .. d : 0 + i = i
      BY <1>d
    <3> HIDE DEF d
    <3> QED BY <3>1, <3>2
  <2>2. \A i \in 1 .. d : i =< Len(u)
    BY <1>3, <1>d, <1>12
  <2>3. \A i \in 1 .. Len(data) : data[i] = part[i]
    BY <1>10, <1>11, <2>1, <2>2
  <2>4. data = part
    <3> HIDE DEF part
    <3> QED BY <1>10, <2>1, <2>3, SeqEqual
  <2>5. ~Complete(part)
    <3>1. d \in 0 .. Len(u) - 1
      BY <1>3, <1>d, <1>12
    <3> HIDE DEF d
    <3> QED BY <1>2, <1>7, <3>1, PartIsNoRequest DEF u
  <2> QED BY <1>7, <2>4, <2>5
<1>13. ASSUME d >= Len(u)
       PROVE  /\ Parsed(data) = [what |-> r.what, body |-> r.body]
              /\ Consumed(data) = Len(J[m]) - e
  <2> DEFINE rest == SubSeq(data, Len(u) + 1, d)
             whole == u \o rest
  <2>1. /\ rest \in Seq(Unit) /\ Len(rest) = d - Len(u)
        /\ \A i \in 1 .. d - Len(u) : rest[i] = data[Len(u) + i]
    <3>1. Len(u) =< d /\ d =< Len(data)
      BY <1>3, <1>10, <1>d, <1>13
    <3> HIDE DEF d
    <3> QED BY <1>3, <1>10, <1>d, <3>1, PartOfSeq
  <2> HIDE DEF rest
  <2>2. /\ whole \in Seq(Unit) /\ Len(whole) = Len(u) + Len(rest)
        /\ \A i \in 1 .. Len(u) + Len(rest) :
             whole[i] = IF i <= Len(u) THEN u[i] ELSE rest[i - Len(u)]
    BY <1>3, <2>1, ConcatProperties
  <2> HIDE DEF whole
  <2>3. Len(u) + Len(rest) = d /\ Len(data) = d
    BY <1>3, <1>d, <1>10, <2>1
  <2>4. ASSUME NEW i \in 1 .. d PROVE data[i] = whole[i]
    <3>1. CASE i =< Len(u)
      BY <1>11, <2>2, <2>3, <3>1
    <3>2. CASE ~(i =< Len(u))
      <4> DEFINE j == i - Len(u)
      <4>1. j \in 1 .. d - Len(u) /\ Len(u) + j = i
        BY <1>3, <1>d, <3>2
      <4> HIDE DEF j
      <4>2. rest[j] = data[i]
        BY <2>1, <4>1
      <4>3. whole[i] = rest[j]
        BY <2>2, <2>3, <3>2 DEF j
      <4> QED BY <4>2, <4>3
    <3> QED BY <3>1, <3>2
  <2>5. data = whole
    BY <1>10, <2>2, <2>3, <2>4, SeqEqual
  <2>6. /\ Complete(whole) /\ Consumed(whole) = Len(u)
        /\ Parsed(whole) = [what |-> r.what, body |-> r.body]
    BY <1>2, <1>7, <2>1, RequestIsFramed DEF whole, u
  <2>7. Len(u) = Len(J[m]) - e
    BY <1>3, <1>8, <1>9
  <2> QED BY <2>5, <2>6, <2>7
<1>c. d < Len(u) \/ d >= Len(u)
  BY <1>3, <1>d
<1> HIDE DEF d
<1>14. /\ Parsed(data) = [what |-> r.what, body |-> r.body]
       /\ Consumed(data) = Len(J[m]) - e
  BY <1>12, <1>13, <1>c
<1> QED BY <1>14 DEF data, J, n, r, l, e

\* What the parser takes off the buffer is in it, and what it makes of it is a
\* request, however ill-formed.
LEMMA ParsedType ==
  ASSUME NEW data \in Seq(Unit), Complete(data)
  PROVE  /\ Consumed(data) \in 0 .. Len(data)
         /\ Parsed(data) \in [what : STRING \cup {"none"}, body : Seq(Unit)]
<1>1. DOMAIN data = 1 .. Len(data) /\ Len(data) \in Nat /\ \A i \in 1 .. Len(data) : data[i] \in Unit
  BY LenProperties, ElementOfSeq
<1> DEFINE h == HeadEnd(data)
<1>2. h \in HeadEnds(data)
  <2> DEFINE P(i) == \A j \in HeadEnds(data) : i =< j
  <2>1. HeadEnds(data) # {} /\ HeadEnds(data) \subseteq Nat
    BY <1>1 DEF Complete, HeadEnds
  <2>2. \E i \in HeadEnds(data) : P(i)
    BY <2>1, LeastNumber
  <2>3. h = CHOOSE i \in HeadEnds(data) : P(i)
    BY DEF HeadEnd
  <2> HIDE DEF P, h
  <2> QED BY <2>2, <2>3
<1> HIDE DEF h
<1>3. h \in 1 .. Len(data)
  BY <1>1, <1>2 DEF HeadEnds
<1> DEFINE b == BodyLength(data)
           fields == LengthFields(data)
<1>4. b \in Nat
  <2>1. CASE fields = {}
    BY <2>1 DEF BodyLength
  <2>2. CASE fields # {}
    <3> DEFINE P(i) == \A j \in fields : j =< i
               T == {h - i : i \in fields}
               last == CHOOSE i \in fields : P(i)
    <3>1. fields = {i \in 2 .. h : data[i].is = "length"}
      BY DEF LengthFields, h
    <3> HIDE DEF fields
    <3>2. fields \subseteq 2 .. h /\ \A i \in fields : h - i \in Nat
      BY <1>3, <3>1
    <3>3. PICK t \in T : \A u \in T : t =< u
      <4>1. T \subseteq Nat /\ T # {}
        BY <2>2, <3>2
      <4> HIDE DEF T
      <4> QED BY <4>1, LeastNumber
    <3>4. PICK i \in fields : t = h - i
      BY <3>3
    <3>5. P(i)
      <4> SUFFICES ASSUME NEW j \in fields PROVE j =< i
        OBVIOUS
      <4>1. h - j \in T
        OBVIOUS
      <4>2. h - i =< h - j
        BY <3>3, <3>4, <4>1
      <4> QED BY <1>3, <3>2, <4>2
    <3> HIDE DEF P
    <3>6. last \in fields
      BY <3>5
    <3> HIDE DEF last
    <3>7. last \in 1 .. Len(data)
      BY <1>1, <1>3, <3>2, <3>6
    <3>8. data[last].length \in Nat
      BY <1>1, <3>7 DEF Unit
    <3>9. b = data[last].length
      BY <2>2 DEF BodyLength, fields, last, P
    <3> QED BY <3>8, <3>9
  <2> QED BY <2>1, <2>2
<1> HIDE DEF b
<1>5. Consumed(data) \in Nat /\ Consumed(data) =< Len(data)
  <2>1. Consumed(data) = (h + b) % SizeModulus
    BY DEF Consumed, h, b
  <2>2. h + b \in Int /\ SizeModulus \in Nat \ {0}
    BY <1>1, <1>3, <1>4, SizeAssumption
  <2>3. (h + b) % SizeModulus \in Nat
    <3> DEFINE z == h + b
    <3> HIDE DEF z
    <3>1. \A y \in Int, n \in Nat \ {0} : y % n \in Nat
      OBVIOUS
    <3> QED BY <2>2, <3>1 DEF z
  <2>4. Len(data) >= Consumed(data)
    BY DEF Complete
  <2> QED BY <1>1, <2>1, <2>3, <2>4
<1>6. data[1].what \in STRING \cup {"none"}
  <2>1. data[1] \in Unit
    BY <1>1, <1>3
  <2> QED BY <2>1 DEF Unit
<1>7. Body(data) \in Seq(Unit)
  <2> DEFINE l == h + b
             high == IF l < Len(data) THEN l ELSE Len(data)
  <2>1. high \in Nat /\ h =< high /\ high =< Len(data) /\ h \in Nat
    BY <1>1, <1>3, <1>4
  <2>2. Body(data) = SubSeq(data, h + 1, high)
    BY DEF Body, h, b
  <2> HIDE DEF high
  <2>3. SubSeq(data, h + 1, high) \in Seq(Unit)
    BY <2>1, PartOfSeq
  <2> QED BY <2>2, <2>3
<1> QED BY <1>1, <1>5, <1>6, <1>7 DEF Parsed
-----------------------------------------------------------------------------
(* The inductive invariant. *)

\* A client that was not accepted was not served, all that came in was sent,
\* and a connection that is to be closed after its response has run a request.
CountsOf(c) ==
  /\ conn[c].state \in {"none", "backlog"} =>
       /\ conn[c].out = 0 /\ ~conn[c].writing /\ ~conn[c].closeAfterWrite
       /\ executed[c] = <<>> /\ tcp[c].snd = 0 /\ tcp[c].got = 0
  /\ conn[c].in + tcp[c].rcv =< tcp[c].sent /\ tcp[c].sent =< Len(Stream[c])
  /\ conn[c].closeAfterWrite => executed[c] # <<>>

Counts == \A c \in Clients : CountsOf(c)

\* What the loop has still to handle is of open connections, and nothing takes
\* an EPOLLIN back; only the connection that is being handled may be closed.
Handling ==
  /\ at = "out" => cur \in Clients
  /\ at # "crashed" =>
       \A c \in Clients : batch[c] # {} /\ ~(at = "out" /\ c = cur) =>
         Open(c) /\ ("in" \in batch[c] => Readable(c))

\* Every request that ran has its response, as long as nobody gave it up.
AnsweredOf(c) ==
  Open(c) /\ ~Gone(c) =>
    conn[c].out + tcp[c].snd + tcp[c].got = Len(executed[c]) * ResponseUnits

Answered == \A c \in Clients : AnsweredOf(c)

\* Script[c] has k requests, and they are well-formed.
Meant(c, k) == k =< Len(Script[c]) /\ \A j \in 1 .. k : WellFormed(Script[c][j])

\* What was taken off the stream are the requests that ran, to their last unit.
FramingOf(c) ==
  Meant(c, Len(executed[c])) =>
    tcp[c].sent - conn[c].in - tcp[c].rcv = Len(Joined(Script[c])[Len(executed[c])])

Framing == \A c \in Clients : FramingOf(c)

IInv == /\ TypeOK /\ Counts /\ Handling /\ DescriptorsOwned /\ WriteInterest
        /\ Answered /\ AnswersWhole /\ Framing /\ FramedRight

Connection == [state : {"none", "backlog", "open", "closed"}, fd : (UNION FdSets) \cup {-1},
               in : Nat, out : Nat, writing : BOOLEAN, closeAfterWrite : BOOLEAN]
Tcp == [peer : {"open", "shut", "reset", "broken"}, sent : Nat, rcv : Nat,
        snd : 0 .. SendBuffer, got : Nat]
Run == [what : STRING \cup {"none"}, body : Seq(Unit)]

LEMMA Constants ==
  /\ ResponseUnits \in Nat /\ ResponseUnits > 0 /\ SendBuffer \in Nat /\ SendBuffer > 0
  /\ "none" \notin Clients /\ \A F \in FdSets : F \subseteq Nat
BY ReactorAssumption

LEMMA StreamType ==
  ASSUME NEW c \in Clients
  PROVE  /\ Script[c] \in Seq(Request) /\ Len(Script[c]) \in Nat
         /\ Stream[c] = Joined(Script[c])[Len(Script[c])]
         /\ Stream[c] \in Seq(Unit) /\ Len(Stream[c]) \in Nat
<1>1. Script[c] \in Seq(Request)
  BY ReactorAssumption
<1>2. Len(Script[c]) \in Nat /\ Len(Script[c]) \in 0 .. Len(Script[c])
  BY <1>1, LenProperties
<1>3. Stream[c] = Joined(Script[c])[Len(Script[c])]
  BY DEF Stream
<1>4. Stream[c] \in Seq(Unit)
  BY <1>1, <1>2, <1>3, JoinedType
<1> QED BY <1>1, <1>2, <1>3, <1>4, LenProperties

LEMMA Fields ==
  ASSUME TypeOK, NEW c \in Clients
  PROVE  /\ conn[c] \in Connection /\ tcp[c] \in Tcp /\ executed[c] \in Seq(Run)
         /\ batch[c] \subseteq {"in", "out"}
         /\ conn[c].state \in {"none", "backlog", "open", "closed"}
         /\ conn[c].fd \in (UNION FdSets) \cup {-1}
         /\ conn[c].in \in Nat /\ conn[c].out \in Nat
         /\ conn[c].writing \in BOOLEAN /\ conn[c].closeAfterWrite \in BOOLEAN
         /\ tcp[c].peer \in {"open", "shut", "reset", "broken"}
         /\ tcp[c].sent \in Nat /\ tcp[c].rcv \in Nat /\ tcp[c].snd \in 0 .. SendBuffer
         /\ tcp[c].snd \in Nat /\ tcp[c].got \in Nat
         /\ Len(executed[c]) \in Nat
<1>1. conn[c] \in Connection /\ tcp[c] \in Tcp /\ executed[c] \in Seq(Run)
      /\ batch[c] \subseteq {"in", "out"}
  BY DEF TypeOK, Connection, Tcp, Run
<1>2. tcp[c].snd \in 0 .. SendBuffer
  BY <1>1 DEF Tcp
<1>3. tcp[c].snd \in Nat
  BY <1>2, Constants
<1>4. Len(executed[c]) \in Nat
  BY <1>1, LenProperties
<1> QED BY <1>1, <1>2, <1>3, <1>4 DEF Connection, Tcp

\* What is in the buffer of c once all that came is read.
LEMMA DataType ==
  ASSUME TypeOK, Counts, NEW c \in Clients,
         NEW data, data = Data(c, Read(conn[c], tcp[c].rcv))
  PROVE  /\ data \in Seq(Unit) /\ Len(data) = conn[c].in + tcp[c].rcv
         /\ data = SubSeq(Stream[c], tcp[c].sent - conn[c].in - tcp[c].rcv + 1, tcp[c].sent)
<1> DEFINE n == conn[c].in + tcp[c].rcv
           q == tcp[c].sent
           e == q - n
<1>1. conn[c].in \in Nat /\ tcp[c].rcv \in Nat /\ q \in Nat /\ n =< q /\ q =< Len(Stream[c])
  BY Fields DEF Counts, CountsOf
<1>2. Read(conn[c], tcp[c].rcv).in = n
  BY Fields DEF Read, Connection
<1>3. e \in Nat /\ e =< q /\ q - e = n /\ e = tcp[c].sent - conn[c].in - tcp[c].rcv
  BY <1>1
<1>4. data = SubSeq(Stream[c], e + 1, q)
  BY <1>2 DEF Data
<1> HIDE DEF e, n, q
<1>5. data \in Seq(Unit) /\ Len(data) = q - e
  BY <1>1, <1>3, <1>4, StreamType, PartOfSeq
<1> QED BY <1>3, <1>4, <1>5 DEF n, q

\* The room the kernel has, and what one write puts there.
LEMMA Writing ==
  ASSUME TypeOK, NEW c \in Clients, NEW n,
         n = IF conn[c].out < SendBuffer - tcp[c].snd THEN conn[c].out ELSE SendBuffer - tcp[c].snd
  PROVE  /\ n \in Nat /\ n =< conn[c].out /\ tcp[c].snd + n =< SendBuffer
BY Fields, Constants

LEMMA TypeStep ==
  ASSUME TypeOK, Counts, Handling, [Next]_vars
  PROVE  TypeOK'
<1>t. /\ conn \in [Clients -> Connection] /\ tcp \in [Clients -> Tcp]
      /\ executed \in [Clients -> Seq(Run)]
      /\ batch \in [Clients -> SUBSET {"in", "out"}]
      /\ accepting \in BOOLEAN /\ at \in {"loop", "out", "crashed"} /\ cur \in Clients \cup {"none"}
  BY DEF TypeOK, Connection, Tcp, Run
<1>f. PICK F \in FdSets : connections \in [F -> Clients \cup {"none"}]
  BY DEF TypeOK
<1>g. \A c \in Clients : Destroy(c) => /\ conn' \in [Clients -> Connection]
                                        /\ connections' \in [F -> Clients \cup {"none"}]
  <2> TAKE c \in Clients
  <2>1. [conn[c] EXCEPT !.state = "closed"] \in Connection
    BY <1>t DEF Connection
  <2> QED BY <1>t, <1>f, <2>1 DEF Destroy
<1>o. at = "out" => cur \in Clients
  BY DEF Handling
<1>q. /\ conn' \in [Clients -> Connection] /\ connections' \in [F -> Clients \cup {"none"}]
      /\ tcp' \in [Clients -> Tcp]
      /\ executed' \in [Clients -> Seq(Run)]
      /\ batch' \in [Clients -> SUBSET {"in", "out"}]
      /\ accepting' \in BOOLEAN /\ at' \in {"loop", "out", "crashed"}
      /\ cur' \in Clients \cup {"none"}
      => TypeOK'
  BY <1>f DEF TypeOK, Connection, Tcp, Run
<1>1. CASE UNCHANGED vars
  BY <1>1, <1>t, <1>f, <1>q DEF vars
<1>2. CASE Poll
  <2>1. \A c \in Clients : Revents(c) \subseteq {"in", "out"}
    BY DEF Revents
  <2> QED BY <1>2, <1>t, <1>f, <1>q, <2>1 DEF Poll
<1>3. CASE Accept
  <2>1. PICK c \in Backlog, f \in Free :
          /\ conn' = [conn EXCEPT ![c] = [@ EXCEPT !.state = "open", !.fd = f]]
          /\ connections' = [connections EXCEPT ![f] = c]
    BY <1>3 DEF Accept
  <2>2. c \in Clients /\ f \in F
    BY <1>f DEF Backlog, Free
  <2>3. [conn[c] EXCEPT !.state = "open", !.fd = f] \in Connection
    BY <1>t, <2>2 DEF Connection
  <2>4. conn' \in [Clients -> Connection]
    BY <1>t, <2>1, <2>2, <2>3
  <2>5. connections' \in [F -> Clients \cup {"none"}]
    BY <1>f, <2>1, <2>2
  <2> QED BY <1>3, <1>t, <1>q, <2>4, <2>5 DEF Accept
<1>4. CASE AcceptEnds
  BY <1>4, <1>t, <1>f, <1>q DEF AcceptEnds
<1>5. ASSUME NEW c \in Clients, HandleRead(c) PROVE TypeOK'
  <2> DEFINE x == Read(conn[c], tcp[c].rcv)
             data == Data(c, x)
  <2>1. /\ data \in Seq(Unit) /\ Len(data) = conn[c].in + tcp[c].rcv
        /\ conn[c].in \in Nat /\ tcp[c].rcv \in Nat
    BY DataType, Fields
  <2>2. x \in Connection /\ x.in = conn[c].in + tcp[c].rcv /\ x.out \in Nat
    <3>1. conn[c].in + tcp[c].rcv \in Nat
      BY <2>1
    <3> QED BY <1>t, <3>1 DEF Read, Connection
  <2>3. tcp' \in [Clients -> Tcp]
    <3>1. [tcp[c] EXCEPT !.rcv = 0] \in Tcp
      BY <1>t DEF Tcp
    <3> QED BY <1>5, <1>t, <3>1 DEF HandleRead
  <2>4. CASE Complete(data)
    <3> HIDE DEF x, data
    <3>1. Consumed(data) \in 0 .. Len(data) /\ Parsed(data) \in Run
      BY <2>1, <2>4, ParsedType DEF Run
    <3>2. x.in - Consumed(data) \in Nat /\ x.out + ResponseUnits \in Nat
      BY <2>1, <2>2, <3>1, Constants
    <3>3. Respond(x, Consumed(data)) \in Connection
      BY <2>2, <3>2 DEF Respond, Connection
    <3>4. Append(executed[c], Parsed(data)) \in Seq(Run)
      BY <1>t, <3>1, AppendProperties
    <3>5. /\ conn' = [conn EXCEPT ![c] = Respond(x, Consumed(data))]
          /\ executed' = [executed EXCEPT ![c] = Append(executed[c], Parsed(data))]
      BY <1>5, <2>4 DEF HandleRead, x, data
    <3>6. conn' \in [Clients -> Connection] /\ executed' \in [Clients -> Seq(Run)]
      BY <1>t, <3>3, <3>4, <3>5
    <3> QED BY <1>5, <1>t, <1>f, <1>q, <2>3, <3>6 DEF HandleRead, GoesOn
  <2>5. CASE ~Complete(data)
    <3>1. conn' = [conn EXCEPT ![c] = x] /\ executed' = executed
      BY <1>5, <2>5 DEF HandleRead
    <3> HIDE DEF x, data
    <3>2. conn' \in [Clients -> Connection]
      BY <1>t, <2>2, <3>1
    <3> QED BY <1>5, <1>t, <1>f, <1>q, <2>3, <3>1, <3>2 DEF HandleRead, GoesOn
  <2> QED BY <2>4, <2>5
<1>6. ASSUME NEW c \in Clients, HandleEnd(c) PROVE TypeOK'
  <2>1. conn' \in [Clients -> Connection] /\ connections' \in [F -> Clients \cup {"none"}]
    BY <1>6, <1>g DEF HandleEnd
  <2> QED BY <1>6, <1>t, <1>q, <2>1 DEF HandleEnd, GoesOn
<1>7. ASSUME NEW c \in Clients, SkipRead(c) PROVE TypeOK'
  BY <1>7, <1>t, <1>f, <1>q DEF SkipRead, GoesOn
<1>8. CASE SkipWrite
  BY <1>8, <1>t, <1>f, <1>q DEF SkipWrite, Done
<1>9. CASE HandleWrite
  <2> DEFINE n == IF conn[cur].out < SendBuffer - tcp[cur].snd THEN conn[cur].out
                  ELSE SendBuffer - tcp[cur].snd
             x == Written(conn[cur], n)
  <2>1. cur \in Clients
    BY <1>9, <1>o DEF HandleWrite
  <2>2. n \in Nat /\ n =< conn[cur].out /\ tcp[cur].snd + n =< SendBuffer
    BY <2>1, Writing
  <2>3. conn' = [conn EXCEPT ![cur] = x] /\ tcp' = [tcp EXCEPT ![cur].snd = @ + n]
    BY <1>9 DEF HandleWrite
  <2>4. conn[cur].out - n \in Nat /\ tcp[cur].snd + n \in 0 .. SendBuffer
    BY <2>1, <2>2, Fields, Constants
  <2> HIDE DEF n
  <2>5. x \in Connection
    <3>1. conn[cur] \in Connection /\ (conn[cur].out # n) \in BOOLEAN
      BY <1>t, <2>1
    <3>2. x = [conn[cur] EXCEPT !.out = conn[cur].out - n, !.writing = (conn[cur].out # n)]
      BY DEF Written
    <3> QED BY <2>4, <3>1, <3>2 DEF Connection
  <2>6. tcp' \in [Clients -> Tcp]
    <3>1. [tcp[cur] EXCEPT !.snd = @ + n] \in Tcp
      BY <1>t, <2>1, <2>4 DEF Tcp
    <3> QED BY <1>t, <2>1, <2>3, <3>1
  <2> HIDE DEF x
  <2>7. conn' \in [Clients -> Connection]
    BY <1>t, <2>1, <2>3, <2>5
  <2> QED BY <1>9, <1>t, <1>f, <1>q, <2>6, <2>7 DEF HandleWrite, Done
<1>10. CASE HandleLastWrite
  <2> DEFINE n == IF conn[cur].out < SendBuffer - tcp[cur].snd THEN conn[cur].out
                  ELSE SendBuffer - tcp[cur].snd
             x == Written(conn[cur], n)
  <2>1. cur \in Clients
    BY <1>10, <1>o DEF HandleLastWrite
  <2>2. n \in Nat /\ n =< conn[cur].out /\ tcp[cur].snd + n =< SendBuffer
    BY <2>1, Writing
  <2>3. /\ conn' = [conn EXCEPT ![cur] = [x EXCEPT !.state = "closed"]]
        /\ connections' = [connections EXCEPT ![x.fd] = "none"]
    BY <1>10 DEF HandleLastWrite
  <2>4. PICK lost \in {0, tcp[cur].snd + n} : tcp' = [tcp EXCEPT ![cur].snd = @ + n - lost]
    BY <1>10 DEF HandleLastWrite
  <2>5. conn[cur].out - n \in Nat /\ tcp[cur].snd + n - lost \in 0 .. SendBuffer
    <3>1. tcp[cur].snd \in Nat /\ conn[cur].out \in Nat
      BY <2>1, Fields
    <3> HIDE DEF n
    <3>2. lost = 0 \/ lost = tcp[cur].snd + n
      BY <2>4
    <3> QED BY <2>2, <3>1, <3>2, Constants
  <2> HIDE DEF n
  <2>6. x \in Connection
    <3>1. conn[cur] \in Connection /\ (conn[cur].out # n) \in BOOLEAN
      BY <1>t, <2>1
    <3>2. x = [conn[cur] EXCEPT !.out = conn[cur].out - n, !.writing = (conn[cur].out # n)]
      BY DEF Written
    <3> QED BY <2>5, <3>1, <3>2 DEF Connection
  <2>7. tcp' \in [Clients -> Tcp]
    <3>1. [tcp[cur] EXCEPT !.snd = @ + n - lost] \in Tcp
      BY <1>t, <2>1, <2>5 DEF Tcp
    <3> QED BY <1>t, <2>1, <2>4, <3>1
  <2> HIDE DEF x
  <2>8. [x EXCEPT !.state = "closed"] \in Connection
    BY <2>6 DEF Connection
  <2>9. conn' \in [Clients -> Connection] /\ connections' \in [F -> Clients \cup {"none"}]
    BY <1>t, <1>f, <2>1, <2>3, <2>8
  <2> QED BY <1>10, <1>t, <1>q, <2>7, <2>9 DEF HandleLastWrite, Done
<1>11. CASE WriteFails
  <2>1. conn' \in [Clients -> Connection] /\ connections' \in [F -> Clients \cup {"none"}]
    BY <1>11, <1>g, <1>o DEF WriteFails
  <2> QED BY <1>11, <1>t, <1>q, <2>1 DEF WriteFails, Done
<1>12. CASE WriteKills \/ CallFreed
  BY <1>12, <1>t, <1>f, <1>q DEF WriteKills, CallFreed
<1>13. CASE TestFreed
  BY <1>13, <1>t, <1>f, <1>q DEF TestFreed, Done
<1>14. ASSUME NEW c \in Clients, Connect(c) PROVE TypeOK'
  <2>1. conn' \in [Clients -> Connection]
    <3>1. [conn[c] EXCEPT !.state = "backlog"] \in Connection
      BY <1>t DEF Connection
    <3> QED BY <1>14, <1>t, <3>1 DEF Connect
  <2> QED BY <1>14, <1>t, <1>f, <1>q, <2>1 DEF Connect, server
<1>15. ASSUME NEW c \in Clients, Send(c) PROVE TypeOK'
  <2>1. tcp' \in [Clients -> Tcp]
    <3> DEFINE sent == tcp[c].sent + 1
               rcv == tcp[c].rcv + 1
    <3>1. tcp' = [tcp EXCEPT ![c].sent = sent, ![c].rcv = rcv]
      BY <1>15 DEF Send
    <3>2. tcp[c] \in Tcp /\ sent \in Nat /\ rcv \in Nat
      BY <1>t DEF Tcp
    <3> HIDE DEF sent, rcv
    <3>3. [tcp[c] EXCEPT !.sent = sent, !.rcv = rcv] \in Tcp
      BY <3>2 DEF Tcp
    <3> QED BY <1>t, <3>1, <3>3
  <2> QED BY <1>15, <1>t, <1>f, <1>q, <2>1 DEF Send, server
<1>16. ASSUME NEW c \in Clients, Shut(c) PROVE TypeOK'
  <2>1. tcp' \in [Clients -> Tcp]
    <3>1. [tcp[c] EXCEPT !.peer = "shut"] \in Tcp
      BY <1>t DEF Tcp
    <3> QED BY <1>16, <1>t, <3>1 DEF Shut
  <2> QED BY <1>16, <1>t, <1>f, <1>q, <2>1 DEF Shut, server
<1>17. ASSUME NEW c \in Clients, Reset(c) PROVE TypeOK'
  <2>1. tcp' \in [Clients -> Tcp]
    <3> DEFINE end == IF tcp[c].peer = "shut" THEN "broken" ELSE "reset"
    <3>1. tcp[c] \in Tcp /\ 0 \in 0 .. SendBuffer /\ end \in {"open", "shut", "reset", "broken"}
      BY <1>t, Constants
    <3>2. tcp' = [tcp EXCEPT ![c].snd = 0, ![c].peer = end]
      BY <1>17 DEF Reset
    <3> HIDE DEF end
    <3>3. [tcp[c] EXCEPT !.snd = 0, !.peer = end] \in Tcp
      BY <3>1 DEF Tcp
    <3> QED BY <1>t, <3>2, <3>3
  <2> QED BY <1>17, <1>t, <1>f, <1>q, <2>1 DEF Reset, server
<1>18. ASSUME NEW c \in Clients, Receive(c) PROVE TypeOK'
  <2>1. tcp[c].snd - 1 \in 0 .. SendBuffer /\ tcp[c].got + 1 \in Nat
    BY <1>18, Fields, Constants DEF Receive
  <2>2. tcp' \in [Clients -> Tcp]
    <3> DEFINE left == tcp[c].snd - 1
               got == tcp[c].got + 1
    <3>1. tcp' = [tcp EXCEPT ![c].snd = left, ![c].got = got]
      BY <1>18 DEF Receive
    <3> HIDE DEF left, got
    <3>2. [tcp[c] EXCEPT !.snd = left, !.got = got] \in Tcp
      BY <1>t, <2>1 DEF Tcp, left, got
    <3> QED BY <1>t, <3>1, <3>2
  <2> QED BY <1>18, <1>t, <1>f, <1>q, <2>2 DEF Receive, server
<1> QED BY <1>1, <1>2, <1>3, <1>4, <1>5, <1>6, <1>7, <1>8, <1>9, <1>10, <1>11, <1>12, <1>13,
           <1>14, <1>15, <1>16, <1>17, <1>18 DEF Next, Loop
-----------------------------------------------------------------------------
(* What the actions do to the connections, field by field. *)

Same(d) == conn'[d] = conn[d] /\ tcp'[d] = tcp[d] /\ executed'[d] = executed[d]
Others(c) == \A d \in Clients \ {c} : Same(d)

\* c and d are alike but for the state and what is in the buffers.
Keeps(x, y) == /\ y.fd = x.fd /\ y.in = x.in /\ y.out = x.out
               /\ y.writing = x.writing /\ y.closeAfterWrite = x.closeAfterWrite

LEMMA AcceptEffect ==
  ASSUME TypeOK, Accept
  PROVE  \E c \in Clients, f \in Free :
           /\ conn[c].state = "backlog" /\ Others(c)
           /\ conn'[c].state = "open" /\ conn'[c].fd = f /\ conn'[c].in = conn[c].in
           /\ conn'[c].out = conn[c].out /\ conn'[c].writing = conn[c].writing
           /\ conn'[c].closeAfterWrite = conn[c].closeAfterWrite
           /\ tcp'[c] = tcp[c] /\ executed'[c] = executed[c]
           /\ connections' = [connections EXCEPT ![f] = c]
<1>1. PICK c \in Backlog, f \in Free :
          /\ conn' = [conn EXCEPT ![c] = [@ EXCEPT !.state = "open", !.fd = f]]
          /\ connections' = [connections EXCEPT ![f] = c]
  BY DEF Accept
<1>2. c \in Clients /\ conn[c].state = "backlog" /\ tcp' = tcp /\ executed' = executed
  BY DEF Accept, Backlog
<1>3. conn \in [Clients -> Connection] /\ conn[c] \in Connection
  BY <1>2, Fields DEF TypeOK, Connection
<1>4. conn'[c] = [conn[c] EXCEPT !.state = "open", !.fd = f]
  BY <1>1, <1>2, <1>3
<1>5. Others(c)
  BY <1>1, <1>2, <1>3 DEF Others, Same
<1> HIDE DEF Others
<1>6. /\ conn'[c].state = "open" /\ conn'[c].fd = f /\ conn'[c].in = conn[c].in
      /\ conn'[c].out = conn[c].out /\ conn'[c].writing = conn[c].writing
      /\ conn'[c].closeAfterWrite = conn[c].closeAfterWrite
  BY <1>3, <1>4 DEF Connection
<1> QED BY <1>1, <1>2, <1>5, <1>6

LEMMA ReadEffect ==
  ASSUME TypeOK, Counts, Handling, NEW c \in Clients, HandleRead(c),
         NEW data, data = Data(c, Read(conn[c], tcp[c].rcv))
  PROVE  /\ Others(c) /\ Open(c) /\ conn'[c].state = "open" /\ conn'[c].fd = conn[c].fd
         /\ tcp'[c].sent = tcp[c].sent /\ tcp'[c].snd = tcp[c].snd /\ tcp'[c].rcv = 0
         /\ tcp'[c].got = tcp[c].got /\ tcp'[c].peer = tcp[c].peer
         /\ ~Complete(data) =>
              /\ conn'[c].in = conn[c].in + tcp[c].rcv /\ executed'[c] = executed[c]
              /\ conn'[c].out = conn[c].out /\ conn'[c].writing = conn[c].writing
              /\ conn'[c].closeAfterWrite = conn[c].closeAfterWrite
         /\ Complete(data) =>
              /\ conn'[c].in = conn[c].in + tcp[c].rcv - Consumed(data)
              /\ Consumed(data) \in 0 .. conn[c].in + tcp[c].rcv
              /\ executed'[c] = Append(executed[c], Parsed(data))
              /\ executed'[c] # <<>> /\ Len(executed'[c]) = Len(executed[c]) + 1
              /\ conn'[c].out = conn[c].out + ResponseUnits
              /\ conn'[c].writing = TRUE /\ conn'[c].closeAfterWrite = TRUE
<1> DEFINE x == Read(conn[c], tcp[c].rcv)
<1>1. /\ conn \in [Clients -> Connection] /\ tcp \in [Clients -> Tcp]
      /\ executed \in [Clients -> Seq(Run)]
  BY DEF TypeOK, Connection, Tcp, Run
<1>2. conn[c] \in Connection /\ tcp[c] \in Tcp /\ Open(c)
  BY <1>1 DEF HandleRead, Handling
<1>3. /\ x.state = "open" /\ x.fd = conn[c].fd /\ x.in = conn[c].in + tcp[c].rcv
      /\ x.out = conn[c].out /\ x.writing = conn[c].writing
      /\ x.closeAfterWrite = conn[c].closeAfterWrite
      /\ x \in Connection
  <2>1. conn[c].in + tcp[c].rcv \in Nat
    BY Fields
  <2> QED BY <1>2, <2>1 DEF Read, Connection, Open
<1>4. tcp' = [tcp EXCEPT ![c].rcv = 0]
  BY DEF HandleRead
<1>5. /\ tcp'[c].sent = tcp[c].sent /\ tcp'[c].snd = tcp[c].snd /\ tcp'[c].rcv = 0
      /\ tcp'[c].got = tcp[c].got /\ tcp'[c].peer = tcp[c].peer
      /\ \A d \in Clients \ {c} : tcp'[d] = tcp[d]
  BY <1>1, <1>2, <1>4 DEF Tcp
<1>6. CASE ~Complete(data)
  <2>1. conn' = [conn EXCEPT ![c] = x] /\ executed' = executed
    BY <1>6 DEF HandleRead
  <2> HIDE DEF x
  <2>2. conn'[c] = x /\ \A d \in Clients \ {c} : conn'[d] = conn[d]
    BY <1>1, <2>1
  <2> QED BY <1>2, <1>3, <1>5, <1>6, <2>1, <2>2 DEF Others, Same
<1>7. CASE Complete(data)
  <2> DEFINE n == Consumed(data)
             p == Parsed(data)
             y == Respond(x, n)
  <2>1. conn' = [conn EXCEPT ![c] = y] /\ executed' = [executed EXCEPT ![c] = Append(@, p)]
    BY <1>7 DEF HandleRead
  <2>2. n \in 0 .. conn[c].in + tcp[c].rcv /\ p \in Run
    <3>1. data \in Seq(Unit) /\ Len(data) = conn[c].in + tcp[c].rcv
      BY DataType
    <3> QED BY <1>7, <3>1, ParsedType DEF Run
  <2> HIDE DEF x, n, p
  <2>3. /\ y.state = "open" /\ y.fd = conn[c].fd /\ y.in = conn[c].in + tcp[c].rcv - n
        /\ y.out = conn[c].out + ResponseUnits /\ y.writing = TRUE /\ y.closeAfterWrite = TRUE
    <3> DEFINE in == x.in - n
               out == x.out + ResponseUnits
    <3>1. y = [x EXCEPT !.in = in, !.out = out, !.writing = TRUE, !.closeAfterWrite = TRUE]
      BY DEF Respond
    <3> HIDE DEF in, out
    <3>2. y.state = "open" /\ y.fd = conn[c].fd /\ y.in = in /\ y.out = out
          /\ y.writing = TRUE /\ y.closeAfterWrite = TRUE
      BY <1>3, <3>1 DEF Connection
    <3>3. in = conn[c].in + tcp[c].rcv - n
      <4>1. x.in = conn[c].in + tcp[c].rcv
        BY <1>3
      <4>2. conn[c].in \in Nat /\ tcp[c].rcv \in Nat /\ n \in Int
        BY <2>2, Fields
      <4> QED BY <4>1, <4>2 DEF in
    <3>4. out = conn[c].out + ResponseUnits
      BY <1>3 DEF out
    <3> QED BY <3>2, <3>3, <3>4
  <2> HIDE DEF y
  <2>4. conn'[c] = y /\ \A d \in Clients \ {c} : conn'[d] = conn[d]
    BY <1>1, <2>1
  <2>5. executed'[c] = Append(executed[c], p) /\ \A d \in Clients \ {c} : executed'[d] = executed[d]
    BY <1>1, <2>1
  <2>6. executed'[c] # <<>> /\ Len(executed'[c]) = Len(executed[c]) + 1
    <3>1. executed[c] \in Seq(Run)
      BY <1>1
    <3>2. Append(executed[c], p) \in Seq(Run) /\ Append(executed[c], p) # <<>>
          /\ Len(Append(executed[c], p)) = Len(executed[c]) + 1
      BY <2>2, <3>1, AppendProperties
    <3> QED BY <2>5, <3>2
  <2> QED BY <1>2, <1>5, <1>7, <2>2, <2>3, <2>4, <2>5, <2>6 DEF Others, Same, n, p
<1> QED BY <1>6, <1>7

LEMMA EndEffect ==
  ASSUME TypeOK, NEW c \in Clients, Destroy(c), UNCHANGED <<tcp, executed>>
  PROVE  /\ Others(c) /\ conn'[c].state = "closed" /\ Keeps(conn[c], conn'[c])
         /\ tcp'[c] = tcp[c] /\ executed'[c] = executed[c]
         /\ connections' = [connections EXCEPT ![conn[c].fd] = "none"]
<1>1. conn \in [Clients -> Connection] /\ conn[c] \in Connection
  BY Fields DEF TypeOK, Connection
<1>2. conn'[c] = [conn[c] EXCEPT !.state = "closed"] /\ \A d \in Clients \ {c} : conn'[d] = conn[d]
  BY <1>1 DEF Destroy
<1>3. conn'[c].state = "closed" /\ Keeps(conn[c], conn'[c])
  BY <1>1, <1>2 DEF Keeps, Connection
<1> QED BY <1>2, <1>3 DEF Others, Same, Destroy

\* One write of n units.
Wrote(n) ==
  /\ cur \in Clients /\ Open(cur) /\ ~Gone(cur) /\ Others(cur)
  /\ n \in Nat /\ n =< conn[cur].out
  /\ conn'[cur].fd = conn[cur].fd /\ conn'[cur].in = conn[cur].in
  /\ conn'[cur].out = conn[cur].out - n
  /\ conn'[cur].closeAfterWrite = conn[cur].closeAfterWrite
  /\ tcp'[cur].sent = tcp[cur].sent /\ tcp'[cur].rcv = tcp[cur].rcv
  /\ tcp'[cur].got = tcp[cur].got /\ tcp'[cur].peer = tcp[cur].peer
  /\ executed'[cur] = executed[cur]

LEMMA WriteEffect ==
  ASSUME TypeOK, Handling, HandleWrite
  PROVE  \E n : /\ Wrote(n) /\ conn'[cur].state = "open" /\ conn'[cur].out # 0
                /\ conn'[cur].writing = TRUE /\ tcp'[cur].snd = tcp[cur].snd + n
<1> DEFINE n == IF conn[cur].out < SendBuffer - tcp[cur].snd THEN conn[cur].out
                ELSE SendBuffer - tcp[cur].snd
           x == Written(conn[cur], n)
           out == conn[cur].out - n
           snd == tcp[cur].snd + n
<1>1. /\ conn \in [Clients -> Connection] /\ tcp \in [Clients -> Tcp] /\ cur \in Clients
  BY DEF TypeOK, Connection, Tcp, HandleWrite, Handling
<1>2. n \in Nat /\ n =< conn[cur].out
  BY <1>1, Writing
<1>3. /\ conn' = [conn EXCEPT ![cur] = x] /\ tcp' = [tcp EXCEPT ![cur].snd = snd]
      /\ executed' = executed /\ x.writing /\ Open(cur) /\ ~Gone(cur)
  BY DEF HandleWrite
<1> HIDE DEF n
<1>4. x = [conn[cur] EXCEPT !.out = out, !.writing = (conn[cur].out # n)]
  BY DEF Written
<1>5. conn[cur] \in Connection /\ tcp[cur] \in Tcp
  BY <1>1
<1> HIDE DEF x, snd
<1>6. /\ tcp'[cur].snd = snd /\ tcp'[cur].sent = tcp[cur].sent /\ tcp'[cur].rcv = tcp[cur].rcv
      /\ tcp'[cur].got = tcp[cur].got /\ tcp'[cur].peer = tcp[cur].peer
      /\ \A d \in Clients \ {cur} : tcp'[d] = tcp[d]
  BY <1>1, <1>3, <1>5 DEF Tcp
<1>7. conn'[cur] = x /\ \A d \in Clients \ {cur} : conn'[d] = conn[d]
  BY <1>1, <1>3
<1> HIDE DEF out
<1>8. /\ x.state = conn[cur].state /\ x.fd = conn[cur].fd /\ x.in = conn[cur].in /\ x.out = out
      /\ x.writing = (conn[cur].out # n) /\ x.closeAfterWrite = conn[cur].closeAfterWrite
  BY <1>4, <1>5 DEF Connection
<1>9. conn[cur].out # n /\ out # 0
  <2>1. conn[cur].out \in Nat
    BY <1>1, Fields
  <2>2. conn[cur].out # n
    BY <1>3, <1>8
  <2> QED BY <1>2, <2>1, <2>2 DEF out
<1>10. x.writing = TRUE
  BY <1>8, <1>9
<1>11. Wrote(n)
  BY <1>1, <1>2, <1>3, <1>6, <1>7, <1>8 DEF Wrote, Others, Same, out
<1>12. conn'[cur].state = "open" /\ conn'[cur].out # 0 /\ conn'[cur].writing = TRUE
  BY <1>3, <1>7, <1>8, <1>9, <1>10 DEF Open
<1>13. tcp'[cur].snd = tcp[cur].snd + n
  BY <1>6 DEF snd
<1> QED BY <1>11, <1>12, <1>13

LEMMA LastEffect ==
  ASSUME TypeOK, Handling, HandleLastWrite
  PROVE  \E n : /\ Wrote(n) /\ conn'[cur].state = "closed" /\ conn'[cur].out = 0
                /\ conn[cur].closeAfterWrite
                /\ tcp[cur].rcv = 0 => tcp'[cur].snd = tcp[cur].snd + n
                /\ connections' = [connections EXCEPT ![conn[cur].fd] = "none"]
<1> DEFINE n == IF conn[cur].out < SendBuffer - tcp[cur].snd THEN conn[cur].out
                ELSE SendBuffer - tcp[cur].snd
           x == Written(conn[cur], n)
           out == conn[cur].out - n
<1>1. /\ conn \in [Clients -> Connection] /\ tcp \in [Clients -> Tcp] /\ cur \in Clients
  BY DEF TypeOK, Connection, Tcp, HandleLastWrite, Handling
<1>2. n \in Nat /\ n =< conn[cur].out
  BY <1>1, Writing
<1>3. /\ conn' = [conn EXCEPT ![cur] = [x EXCEPT !.state = "closed"]]
      /\ connections' = [connections EXCEPT ![x.fd] = "none"]
      /\ executed' = executed /\ ~x.writing /\ x.closeAfterWrite /\ Open(cur) /\ ~Gone(cur)
  BY DEF HandleLastWrite
<1>l. PICK lost \in IF tcp[cur].rcv > 0 THEN {0, tcp[cur].snd + n} ELSE {0} :
        tcp' = [tcp EXCEPT ![cur].snd = @ + n - lost]
  BY DEF HandleLastWrite
<1> DEFINE snd == tcp[cur].snd + n - lost
<1>m. tcp' = [tcp EXCEPT ![cur].snd = snd]
  BY <1>l
<1>n. tcp[cur].rcv = 0 => snd = tcp[cur].snd + n
  <2> HIDE DEF n
  <2>1. tcp[cur].rcv = 0 => lost = 0
    BY <1>l
  <2> QED BY <1>1, <1>2, <2>1, Fields
<1> HIDE DEF n, snd
<1>4. x = [conn[cur] EXCEPT !.out = out, !.writing = (conn[cur].out # n)]
  BY DEF Written
<1>5. conn[cur] \in Connection /\ tcp[cur] \in Tcp
  BY <1>1
<1>6. /\ tcp'[cur].snd = snd /\ tcp'[cur].sent = tcp[cur].sent /\ tcp'[cur].rcv = tcp[cur].rcv
      /\ tcp'[cur].got = tcp[cur].got /\ tcp'[cur].peer = tcp[cur].peer
      /\ \A d \in Clients \ {cur} : tcp'[d] = tcp[d]
  BY <1>1, <1>m, <1>5 DEF Tcp
<1> HIDE DEF out, x
<1>7. conn'[cur] = [x EXCEPT !.state = "closed"] /\ \A d \in Clients \ {cur} : conn'[d] = conn[d]
  BY <1>1, <1>3
<1>8. /\ DOMAIN x = DOMAIN conn[cur] /\ x.fd = conn[cur].fd /\ x.in = conn[cur].in /\ x.out = out
      /\ x.writing = (conn[cur].out # n) /\ x.closeAfterWrite = conn[cur].closeAfterWrite
  BY <1>4, <1>5 DEF Connection
<1>9. /\ conn'[cur].state = "closed" /\ conn'[cur].fd = x.fd /\ conn'[cur].in = x.in
      /\ conn'[cur].out = x.out /\ conn'[cur].closeAfterWrite = x.closeAfterWrite
  BY <1>5, <1>7, <1>8 DEF Connection
<1>10. conn[cur].out = n /\ out = 0
  <2>1. conn[cur].out \in Nat
    BY <1>1, Fields
  <2>2. conn[cur].out = n
    BY <1>3, <1>8
  <2> QED BY <1>2, <2>1, <2>2 DEF out
<1>11. Wrote(n)
  BY <1>1, <1>2, <1>3, <1>6, <1>7, <1>8, <1>9 DEF Wrote, Others, Same, out
<1> QED BY <1>3, <1>6, <1>n, <1>8, <1>9, <1>10, <1>11
-----------------------------------------------------------------------------
(* The steps preserve the parts of the invariant. *)

\* The server's steps, each with what it does to the connection it handles.
Steps ==
  \/ UNCHANGED <<conn, connections, tcp, executed>>
  \/ Accept
  \/ \E c \in Clients : HandleRead(c)
  \/ \E c \in Clients : HandleEnd(c)
  \/ HandleWrite \/ HandleLastWrite \/ WriteFails
  \/ \E c \in Clients : Connect(c) \/ Send(c) \/ Shut(c) \/ Reset(c) \/ Receive(c)

LEMMA StepsOfNext == [Next]_vars => Steps
<1>1. [Next]_vars => Next \/ UNCHANGED vars
  OBVIOUS
<1>2. UNCHANGED vars => UNCHANGED <<conn, connections, tcp, executed>>
  BY DEF vars
<1>3. Poll \/ AcceptEnds \/ (\E c \in Clients : SkipRead(c)) \/ SkipWrite \/ WriteKills
      \/ TestFreed \/ CallFreed => UNCHANGED <<conn, connections, tcp, executed>>
  BY DEF Poll, AcceptEnds, SkipRead, SkipWrite, WriteKills, TestFreed, CallFreed
<1> QED BY <1>1, <1>2, <1>3 DEF Next, Loop, Steps

\* What the clients and their kernels do, field by field.
LEMMA ClientEffect ==
  ASSUME TypeOK, NEW c \in Clients, Connect(c) \/ Send(c) \/ Shut(c) \/ Reset(c) \/ Receive(c)
  PROVE  /\ Others(c) /\ executed' = executed
         /\ Keeps(conn[c], conn'[c])
         /\ \/ conn[c].state = "none" /\ conn'[c].state = "backlog" /\ tcp' = tcp
            \/ /\ conn' = conn /\ (Open(c) \/ conn[c].state = "backlog")
               /\ tcp[c].peer = "open" /\ tcp'[c].peer \in {"open", "shut"}
               /\ tcp'[c].snd = tcp[c].snd /\ tcp'[c].got = tcp[c].got
               /\ \/ /\ tcp'[c].sent = tcp[c].sent + 1 /\ tcp'[c].rcv = tcp[c].rcv + 1
                     /\ tcp'[c].peer = "open" /\ tcp[c].sent < Len(Stream[c])
                  \/ /\ tcp'[c].sent = tcp[c].sent /\ tcp'[c].rcv = tcp[c].rcv
                     /\ tcp'[c].peer = "shut"
            \/ /\ conn' = conn /\ (Open(c) \/ conn[c].state = "backlog")
               /\ tcp'[c].peer \in {"reset", "broken"} /\ tcp'[c].snd = 0
               /\ tcp'[c].sent = tcp[c].sent /\ tcp'[c].rcv = tcp[c].rcv
               /\ tcp'[c].got = tcp[c].got
            \/ /\ conn' = conn /\ tcp[c].snd > 0
               /\ tcp'[c].peer = tcp[c].peer /\ tcp'[c].snd = tcp[c].snd - 1
               /\ tcp'[c].got = tcp[c].got + 1
               /\ tcp'[c].sent = tcp[c].sent /\ tcp'[c].rcv = tcp[c].rcv
<1>1. /\ conn \in [Clients -> Connection] /\ tcp \in [Clients -> Tcp]
      /\ conn[c] \in Connection /\ tcp[c] \in Tcp
  BY Fields DEF TypeOK, Connection, Tcp
<1>2. Keeps(conn[c], conn[c])
  BY DEF Keeps
<1>3. CASE Connect(c)
  <2>1. conn' = [conn EXCEPT ![c].state = "backlog"] /\ conn[c].state = "none"
        /\ tcp' = tcp /\ executed' = executed
    BY <1>3 DEF Connect, server
  <2>2. conn'[c] = [conn[c] EXCEPT !.state = "backlog"]
        /\ \A d \in Clients \ {c} : conn'[d] = conn[d]
    BY <1>1, <2>1
  <2>3. conn'[c].state = "backlog" /\ Keeps(conn[c], conn'[c])
    BY <1>1, <2>2 DEF Connection, Keeps
  <2> QED BY <2>1, <2>2, <2>3 DEF Others, Same
<1>4. CASE Send(c)
  <2> DEFINE sent == tcp[c].sent + 1
             rcv == tcp[c].rcv + 1
  <2>1. /\ conn' = conn /\ executed' = executed /\ (Open(c) \/ conn[c].state = "backlog")
        /\ tcp[c].peer = "open" /\ tcp[c].sent < Len(Stream[c])
        /\ tcp' = [tcp EXCEPT ![c].sent = sent, ![c].rcv = rcv]
    BY <1>4 DEF Send, server, Open
  <2> HIDE DEF sent, rcv
  <2>2. \A d \in Clients \ {c} : tcp'[d] = tcp[d]
    BY <1>1, <2>1
  <2>3. /\ tcp'[c].sent = sent /\ tcp'[c].rcv = rcv /\ tcp'[c].peer = "open"
        /\ tcp'[c].snd = tcp[c].snd /\ tcp'[c].got = tcp[c].got
    BY <1>1, <2>1 DEF Tcp
  <2>4. Others(c) /\ Keeps(conn[c], conn'[c])
    BY <1>2, <2>1, <2>2 DEF Others, Same
  <2> QED BY <2>1, <2>3, <2>4 DEF sent, rcv
<1>5. CASE Shut(c)
  <2>1. /\ conn' = conn /\ executed' = executed /\ (Open(c) \/ conn[c].state = "backlog")
        /\ tcp[c].peer = "open"
        /\ tcp' = [tcp EXCEPT ![c].peer = "shut"]
    BY <1>5 DEF Shut, server, Open
  <2>2. \A d \in Clients \ {c} : tcp'[d] = tcp[d]
    BY <1>1, <2>1
  <2>3. /\ tcp'[c].sent = tcp[c].sent /\ tcp'[c].rcv = tcp[c].rcv /\ tcp'[c].peer = "shut"
        /\ tcp'[c].snd = tcp[c].snd /\ tcp'[c].got = tcp[c].got
    BY <1>1, <2>1 DEF Tcp
  <2>4. Others(c) /\ Keeps(conn[c], conn'[c])
    BY <1>2, <2>1, <2>2 DEF Others, Same
  <2> QED BY <2>1, <2>3, <2>4
<1>6. CASE Reset(c)
  <2> DEFINE end == IF tcp[c].peer = "shut" THEN "broken" ELSE "reset"
  <2>1. /\ conn' = conn /\ executed' = executed /\ (Open(c) \/ conn[c].state = "backlog")
        /\ tcp' = [tcp EXCEPT ![c].snd = 0, ![c].peer = end]
    BY <1>6 DEF Reset, server, Open
  <2>2. end \in {"reset", "broken"}
    OBVIOUS
  <2> HIDE DEF end
  <2>3. \A d \in Clients \ {c} : tcp'[d] = tcp[d]
    BY <1>1, <2>1
  <2>4. /\ tcp'[c].sent = tcp[c].sent /\ tcp'[c].rcv = tcp[c].rcv /\ tcp'[c].peer = end
        /\ tcp'[c].snd = 0 /\ tcp'[c].got = tcp[c].got
    BY <1>1, <2>1 DEF Tcp
  <2>5. Others(c) /\ Keeps(conn[c], conn'[c])
    BY <1>2, <2>1, <2>3 DEF Others, Same
  <2> QED BY <2>1, <2>2, <2>4, <2>5
<1>7. CASE Receive(c)
  <2> DEFINE snd == tcp[c].snd - 1
             got == tcp[c].got + 1
  <2>1. /\ conn' = conn /\ executed' = executed /\ tcp[c].snd > 0
        /\ tcp' = [tcp EXCEPT ![c].snd = snd, ![c].got = got]
    BY <1>7 DEF Receive, server
  <2> HIDE DEF snd, got
  <2>2. \A d \in Clients \ {c} : tcp'[d] = tcp[d]
    BY <1>1, <2>1
  <2>3. /\ tcp'[c].sent = tcp[c].sent /\ tcp'[c].rcv = tcp[c].rcv /\ tcp'[c].peer = tcp[c].peer
        /\ tcp'[c].snd = snd /\ tcp'[c].got = got
    BY <1>1, <2>1 DEF Tcp
  <2>4. Others(c) /\ Keeps(conn[c], conn'[c])
    BY <1>2, <2>1, <2>2 DEF Others, Same
  <2> QED BY <2>1, <2>3, <2>4 DEF snd, got
<1> QED BY <1>3, <1>4, <1>5, <1>6, <1>7

\* A step that leaves the others alone has only its own connection to account
\* for.
LEMMA CountsStep ==
  ASSUME IInv, [Next]_vars
  PROVE  Counts'
<1>t. TypeOK /\ Counts /\ Handling
  BY DEF IInv
<1>s. \A d \in Clients : Same(d) => CountsOf(d)'
  BY <1>t DEF Same, Counts, CountsOf
<1>o. \A c \in Clients : Others(c) /\ CountsOf(c)' => Counts'
  BY <1>s DEF Others, Counts
<1>u. \A c \in Clients : CountsOf(c)
  BY <1>t DEF Counts
<1>1. CASE UNCHANGED <<conn, connections, tcp, executed>>
  BY <1>1, <1>s DEF Counts, Same
<1>2. CASE Accept
  BY <1>2, <1>t, <1>o, <1>u, AcceptEffect DEF CountsOf
<1>3. ASSUME NEW c \in Clients, HandleRead(c) PROVE Counts'
  <2> DEFINE data == Data(c, Read(conn[c], tcp[c].rcv))
  <2>1. CountsOf(c)'
    <3>1. conn[c].in \in Nat /\ tcp[c].rcv \in Nat /\ CountsOf(c)
      BY <1>t, <1>u, Fields
    <3> HIDE DEF data
    <3>2. CASE Complete(data)
      <4>1. /\ conn'[c].state = "open" /\ executed'[c] # <<>>
            /\ tcp'[c].sent = tcp[c].sent /\ tcp'[c].rcv = 0
            /\ conn'[c].in = conn[c].in + tcp[c].rcv - Consumed(data)
            /\ Consumed(data) \in 0 .. conn[c].in + tcp[c].rcv
        BY <1>3, <1>t, <3>2, ReadEffect DEF data
      <4>2. tcp[c].sent \in Nat /\ conn[c].in + tcp[c].rcv =< tcp[c].sent
            /\ tcp[c].sent =< Len(Stream[c])
        BY <1>t, <3>1, Fields DEF CountsOf
      <4> DEFINE n == Consumed(data)
      <4> HIDE DEF n
      <4>3. conn'[c].in + tcp'[c].rcv =< tcp'[c].sent
        BY <3>1, <4>1, <4>2 DEF n
      <4> QED BY <4>1, <4>2, <4>3 DEF CountsOf
    <3>3. CASE ~Complete(data)
      <4>1. /\ conn'[c].state = "open" /\ executed'[c] = executed[c]
            /\ tcp'[c].sent = tcp[c].sent /\ tcp'[c].rcv = 0
            /\ conn'[c].in = conn[c].in + tcp[c].rcv
            /\ conn'[c].closeAfterWrite = conn[c].closeAfterWrite
        BY <1>3, <1>t, <3>3, ReadEffect DEF data
      <4> QED BY <3>1, <4>1 DEF CountsOf
    <3> QED BY <3>2, <3>3
  <2> QED BY <1>3, <1>t, <1>o, <2>1, ReadEffect
<1>4. ASSUME NEW c \in Clients, Destroy(c), UNCHANGED <<tcp, executed>> PROVE Counts'
  BY <1>4, <1>t, <1>o, <1>u, EndEffect DEF CountsOf, Keeps
<1>5. CASE HandleWrite \/ HandleLastWrite
  <2>1. PICK n : Wrote(n) /\ conn'[cur].state \in {"open", "closed"}
    BY <1>5, <1>t, WriteEffect, LastEffect
  <2> QED BY <1>o, <1>u, <2>1 DEF CountsOf, Wrote
<1>6. ASSUME NEW c \in Clients, Connect(c) \/ Send(c) \/ Shut(c) \/ Reset(c) \/ Receive(c)
      PROVE  Counts'
  <2>1. tcp[c].sent \in Nat /\ tcp[c].rcv \in Nat /\ conn[c].in \in Nat /\ Len(Stream[c]) \in Nat
    BY <1>t, Fields, StreamType
  <2>2. CountsOf(c)
    BY <1>u
  <2>3. CountsOf(c)'
    BY <1>6, <1>t, <2>1, <2>2, ClientEffect DEF CountsOf, Keeps, Open
  <2> QED BY <1>6, <1>t, <1>o, <2>3, ClientEffect
<1>7. CASE WriteFails
  <2>1. cur \in Clients /\ Destroy(cur) /\ UNCHANGED <<tcp, executed>>
    BY <1>7, <1>t DEF WriteFails, Handling
  <2> QED BY <1>4, <2>1
<1>8. \A c \in Clients : HandleEnd(c) => Destroy(c) /\ UNCHANGED <<tcp, executed>>
  BY DEF HandleEnd
<1> QED BY <1>1, <1>2, <1>3, <1>4, <1>5, <1>6, <1>7, <1>8, StepsOfNext DEF Steps

LEMMA HandlingStep ==
  ASSUME IInv, [Next]_vars
  PROVE  Handling'
<1> DEFINE H(d) == batch[d] # {} /\ ~(at = "out" /\ d = cur) =>
                     Open(d) /\ ("in" \in batch[d] => Readable(d))
<1>t. TypeOK /\ Counts /\ Handling
  BY DEF IInv
<1>h. /\ at # "crashed" => \A d \in Clients : H(d)
      /\ at = "out" => cur \in Clients
  BY <1>t DEF Handling
<1>b. \A d \in Clients : batch[d] \subseteq {"in", "out"}
  BY <1>t, Fields
<1>k. \A d \in Clients : Same(d) /\ batch' = batch /\ at' = at /\ cur' = cur /\ H(d) => H(d)'
  BY DEF Same, Open, Readable
<1>1. CASE UNCHANGED vars
  BY <1>1, <1>h DEF vars, Handling, Open, Readable
<1>2. CASE Poll
  <2>1. batch' = [c \in Clients |-> Revents(c)] /\ conn' = conn /\ tcp' = tcp /\ at' = "loop"
    BY <1>2 DEF Poll, Handled
  <2> QED BY <2>1 DEF Handling, Revents, Open, Readable
<1>3. CASE Accept
  <2>1. batch' = batch /\ at = "loop" /\ at' = at /\ cur' = cur
    BY <1>3 DEF Accept
  <2>2. PICK c \in Clients : conn[c].state = "backlog" /\ Others(c)
    BY <1>3, <1>t, AcceptEffect
  <2>3. H(c)'
    <3>1. batch[c] = {}
      BY <1>h, <2>1, <2>2 DEF Open
    <3> QED BY <2>1, <3>1
  <2>4. \A d \in Clients \ {c} : H(d)'
    BY <1>k, <1>h, <2>1, <2>2 DEF Others
  <2> QED BY <2>1, <2>3, <2>4 DEF Handling
<1>4. CASE AcceptEnds
  BY <1>4, <1>h DEF AcceptEnds, Handling, Open, Readable
<1>5. ASSUME NEW c \in Clients, at = "loop", at' = "out", cur' = c, Others(c), batch' = batch
      PROVE  Handling'
  BY <1>5, <1>h DEF Handling, Others, Same, Open, Readable
<1>6. ASSUME NEW c \in Clients, HandleRead(c) \/ HandleEnd(c) \/ SkipRead(c) PROVE Handling'
  <2>1. at = "loop" /\ at' = "out" /\ cur' = c /\ batch' = batch
    BY <1>6 DEF HandleRead, HandleEnd, SkipRead, GoesOn
  <2>2. Others(c)
    <3>1. HandleEnd(c) => Destroy(c) /\ UNCHANGED <<tcp, executed>>
      BY DEF HandleEnd
    <3>2. SkipRead(c) => Others(c)
      BY DEF SkipRead, Others, Same
    <3> QED BY <1>6, <1>t, <3>1, <3>2, ReadEffect, EndEffect
  <2> QED BY <1>5, <2>1, <2>2
<1>7. ASSUME at = "out", Done, Others(cur) PROVE Handling'
  <2>1. cur \in Clients /\ at' = "loop" /\ batch' = [batch EXCEPT ![cur] = {}]
    BY <1>7, <1>h DEF Done
  <2>2. batch \in [Clients -> SUBSET {"in", "out"}]
    BY <1>t DEF TypeOK
  <2>3. batch'[cur] = {} /\ \A d \in Clients \ {cur} : batch'[d] = batch[d]
    BY <2>1, <2>2
  <2>4. ASSUME NEW d \in Clients \ {cur} PROVE H(d)'
    BY <1>7, <1>h, <2>3 DEF Others, Same, Open, Readable
  <2> QED BY <2>1, <2>3, <2>4 DEF Handling
<1>8. CASE SkipWrite \/ HandleWrite \/ HandleLastWrite \/ WriteFails \/ TestFreed
  <2>1. at = "out" /\ Done
    BY <1>8 DEF SkipWrite, HandleWrite, HandleLastWrite, WriteFails, TestFreed
  <2>2. WriteFails => Destroy(cur) /\ UNCHANGED <<tcp, executed>>
    BY DEF WriteFails
  <2>3. SkipWrite \/ TestFreed => Others(cur)
    BY DEF SkipWrite, TestFreed, Others, Same
  <2>4. HandleWrite \/ HandleLastWrite => Others(cur)
    BY <1>t, WriteEffect, LastEffect DEF Wrote
  <2> QED BY <1>7, <1>8, <1>h, <1>t, <2>1, <2>2, <2>3, <2>4, EndEffect
<1>9. CASE WriteKills \/ CallFreed
  BY <1>9 DEF WriteKills, CallFreed, Handling
<1>10. ASSUME NEW c \in Clients, Connect(c) \/ Send(c) \/ Shut(c) \/ Reset(c) \/ Receive(c)
       PROVE  Handling'
  <2>1. batch' = batch /\ at' = at /\ cur' = cur
    BY <1>10 DEF Connect, Send, Shut, Reset, Receive, server
  <2>2. Others(c)
    BY <1>10, <1>t, ClientEffect
  <2>3. Open(c) => Open(c)'
    BY <1>10, <1>t, ClientEffect DEF Open
  <2>4. Readable(c) => Readable(c)'
    <3>1. tcp[c].rcv \in Nat
      BY <1>t, Fields
    <3> QED BY <1>10, <1>t, <3>1, ClientEffect DEF Readable
  <2>5. at # "crashed" => \A d \in Clients : H(d)'
    <3>1. ASSUME at # "crashed" PROVE H(c)'
      BY <1>h, <2>1, <2>3, <2>4, <3>1
    <3>2. ASSUME at # "crashed", NEW d \in Clients \ {c} PROVE H(d)'
      BY <1>h, <1>k, <2>1, <2>2, <3>2 DEF Others
    <3> QED BY <3>1, <3>2
  <2> QED BY <1>h, <2>1, <2>5 DEF Handling
<1> QED BY <1>1, <1>2, <1>3, <1>4, <1>6, <1>8, <1>9, <1>10 DEF Next, Loop

LEMMA OwnedStep ==
  ASSUME IInv, [Next]_vars
  PROVE  DescriptorsOwned'
<1>t. TypeOK /\ Counts /\ Handling /\ DescriptorsOwned
  BY DEF IInv
<1>f. PICK F \in FdSets : connections \in [F -> Clients \cup {"none"}]
  BY <1>t DEF TypeOK
<1>n. "none" \notin Clients /\ DOMAIN connections = F
  BY <1>f, Constants
<1>k. ASSUME connections' = connections,
             \A d \in Clients : (Open(d)' <=> Open(d)) /\ conn'[d].fd = conn[d].fd
      PROVE  DescriptorsOwned'
  <2>1. \A f \in F : connections[f] # "none" => connections[f] \in Clients
    BY <1>f
  <2> QED BY <1>k, <1>t, <1>n, <2>1 DEF DescriptorsOwned, Open
<1>s. ASSUME NEW c \in Clients, Others(c), Open(c)' <=> Open(c), conn'[c].fd = conn[c].fd,
             connections' = connections
      PROVE  DescriptorsOwned'
  BY <1>s, <1>k DEF Others, Same, Open
<1>d. ASSUME NEW c \in Clients, Others(c), Open(c), conn'[c].state = "closed",
             connections' = [connections EXCEPT ![conn[c].fd] = "none"]
      PROVE  DescriptorsOwned'
  <2> DEFINE fd == conn[c].fd
  <2>1. fd \in F /\ connections[fd] = c
    BY <1>d, <1>t, <1>n DEF DescriptorsOwned
  <2>2. ~Open(c)' /\ \A d \in Clients \ {c} : (Open(d)' <=> Open(d)) /\ conn'[d].fd = conn[d].fd
    BY <1>d DEF Others, Same, Open
  <2> HIDE DEF fd
  <2>3. DOMAIN connections' = F /\ connections'[fd] = "none"
        /\ \A f \in F \ {fd} : connections'[f] = connections[f]
    BY <1>d, <1>f, <2>1 DEF fd
  <2>4. ASSUME NEW d \in Clients, Open(d)'
        PROVE  conn'[d].fd \in F /\ connections'[conn'[d].fd] = d
    <3>1. d # c /\ Open(d) /\ conn'[d].fd = conn[d].fd
      BY <2>2, <2>4
    <3>2. conn[d].fd \in F /\ connections[conn[d].fd] = d
      BY <1>t, <1>n, <3>1 DEF DescriptorsOwned
    <3>3. conn[d].fd # fd
      BY <2>1, <3>1, <3>2
    <3> QED BY <2>3, <3>1, <3>2, <3>3
  <2>5. ASSUME NEW f \in F, connections'[f] # "none"
        PROVE  conn'[connections'[f]].state = "open" /\ conn'[connections'[f]].fd = f
    <3>1. f # fd /\ connections'[f] = connections[f]
      BY <2>3, <2>5
    <3>2. connections[f] \in Clients /\ Open(connections[f]) /\ conn[connections[f]].fd = f
      BY <1>f, <1>n, <1>t, <2>5, <3>1 DEF DescriptorsOwned
    <3>3. connections[f] # c
      BY <3>1, <3>2 DEF fd
    <3> QED BY <2>2, <3>1, <3>2, <3>3 DEF Open
  <2> QED BY <2>3, <2>4, <2>5 DEF DescriptorsOwned, Open
<1>1. CASE UNCHANGED <<conn, connections, tcp, executed>>
  BY <1>1, <1>k DEF Open
<1>2. CASE Accept
  <2>1. PICK c \in Clients, f \in Free :
          /\ conn[c].state = "backlog" /\ Others(c) /\ conn'[c].state = "open"
          /\ conn'[c].fd = f /\ connections' = [connections EXCEPT ![f] = c]
    BY <1>2, <1>t, AcceptEffect
  <2>2. f \in F /\ connections[f] = "none" /\ ~Open(c) /\ c # "none"
    BY <1>n, <2>1 DEF Free, Open
  <2>3. DOMAIN connections' = F /\ connections'[f] = c
        /\ \A g \in F \ {f} : connections'[g] = connections[g]
    BY <1>f, <2>1, <2>2
  <2>4. Open(c)' /\ \A d \in Clients \ {c} : (Open(d)' <=> Open(d)) /\ conn'[d].fd = conn[d].fd
    BY <2>1 DEF Others, Same, Open
  <2>5. ASSUME NEW d \in Clients, Open(d)'
        PROVE  conn'[d].fd \in F /\ connections'[conn'[d].fd] = d
    <3>1. CASE d = c
      BY <2>1, <2>2, <2>3, <3>1
    <3>2. CASE d # c
      <4>1. Open(d) /\ conn'[d].fd = conn[d].fd
        BY <2>4, <2>5, <3>2
      <4>2. conn[d].fd \in F /\ connections[conn[d].fd] = d
        BY <1>t, <1>n, <4>1 DEF DescriptorsOwned
      <4>3. conn[d].fd # f
        BY <1>n, <2>2, <4>2
      <4> QED BY <2>3, <4>1, <4>2, <4>3
    <3> QED BY <3>1, <3>2
  <2>6. ASSUME NEW g \in F, connections'[g] # "none"
        PROVE  conn'[connections'[g]].state = "open" /\ conn'[connections'[g]].fd = g
    <3>1. CASE g = f
      BY <2>1, <2>3, <2>4, <3>1 DEF Open
    <3>2. CASE g # f
      <4>1. connections'[g] = connections[g]
        BY <2>3, <3>2
      <4>2. connections[g] \in Clients /\ Open(connections[g]) /\ conn[connections[g]].fd = g
        BY <1>f, <1>n, <1>t, <2>6, <4>1 DEF DescriptorsOwned
      <4>3. connections[g] # c
        BY <2>2, <4>2
      <4> QED BY <2>4, <4>1, <4>2, <4>3 DEF Open
    <3> QED BY <3>1, <3>2
  <2> QED BY <2>3, <2>5, <2>6 DEF DescriptorsOwned, Open
<1>3. ASSUME NEW c \in Clients, HandleRead(c) PROVE DescriptorsOwned'
  <2>1. Others(c) /\ Open(c) /\ conn'[c].state = "open" /\ conn'[c].fd = conn[c].fd
    BY <1>3, <1>t, ReadEffect
  <2>2. connections' = connections
    BY <1>3 DEF HandleRead
  <2> QED BY <1>s, <2>1, <2>2 DEF Open
<1>4. ASSUME NEW c \in Clients, Open(c), Destroy(c), UNCHANGED <<tcp, executed>>
      PROVE  DescriptorsOwned'
  BY <1>4, <1>t, <1>d, EndEffect
<1>5. ASSUME NEW c \in Clients, HandleEnd(c) PROVE DescriptorsOwned'
  <2>1. Open(c) /\ Destroy(c) /\ UNCHANGED <<tcp, executed>>
    BY <1>5, <1>t DEF HandleEnd, Handling
  <2> QED BY <1>4, <2>1
<1>6. CASE WriteFails
  <2>1. cur \in Clients /\ Open(cur) /\ Destroy(cur) /\ UNCHANGED <<tcp, executed>>
    BY <1>6, <1>t DEF WriteFails, Handling
  <2> QED BY <1>4, <2>1
<1>7. CASE HandleWrite
  <2>1. cur \in Clients /\ Others(cur) /\ Open(cur) /\ conn'[cur].state = "open"
        /\ conn'[cur].fd = conn[cur].fd
    BY <1>7, <1>t, WriteEffect DEF Wrote
  <2>2. connections' = connections
    BY <1>7 DEF HandleWrite
  <2> QED BY <1>s, <2>1, <2>2 DEF Open
<1>8. CASE HandleLastWrite
  <2>1. cur \in Clients /\ Others(cur) /\ Open(cur) /\ conn'[cur].state = "closed"
        /\ connections' = [connections EXCEPT ![conn[cur].fd] = "none"]
    BY <1>8, <1>t, LastEffect DEF Wrote
  <2> QED BY <1>d, <2>1
<1>9. ASSUME NEW c \in Clients, Connect(c) \/ Send(c) \/ Shut(c) \/ Reset(c) \/ Receive(c)
      PROVE  DescriptorsOwned'
  <2>1. connections' = connections
    BY <1>9 DEF Connect, Send, Shut, Reset, Receive, server
  <2>2. Others(c) /\ (Open(c)' <=> Open(c)) /\ conn'[c].fd = conn[c].fd
    BY <1>9, <1>t, ClientEffect DEF Open, Keeps
  <2> QED BY <1>s, <2>1, <2>2
<1> QED BY <1>1, <1>2, <1>3, <1>5, <1>6, <1>7, <1>8, <1>9, StepsOfNext DEF Steps

WritingOf(c) == Open(c) => (conn[c].writing <=> conn[c].out > 0)

LEMMA WriteInterestStep ==
  ASSUME IInv, [Next]_vars
  PROVE  WriteInterest'
<1>t. TypeOK /\ Counts /\ Handling /\ \A c \in Clients : WritingOf(c) /\ CountsOf(c)
  BY DEF IInv, WriteInterest, WritingOf, Counts
<1>s. \A d \in Clients : Same(d) => WritingOf(d)'
  BY <1>t DEF Same, WritingOf, Open
<1>o. \A c \in Clients : Others(c) /\ WritingOf(c)' => WriteInterest'
  BY <1>s DEF Others, WriteInterest, WritingOf
<1>1. CASE UNCHANGED <<conn, connections, tcp, executed>>
  BY <1>1, <1>s DEF WriteInterest, WritingOf, Same
<1>2. CASE Accept
  <2>1. PICK c \in Clients : /\ conn[c].state = "backlog" /\ Others(c)
                             /\ conn'[c].out = conn[c].out /\ conn'[c].writing = conn[c].writing
    BY <1>2, <1>t, AcceptEffect
  <2>2. conn[c].out = 0 /\ ~conn[c].writing
    BY <1>t, <2>1 DEF CountsOf
  <2> QED BY <1>o, <2>1, <2>2 DEF WritingOf
<1>3. ASSUME NEW c \in Clients, HandleRead(c) PROVE WriteInterest'
  <2> DEFINE data == Data(c, Read(conn[c], tcp[c].rcv))
  <2>1. conn[c].out \in Nat /\ WritingOf(c)
    BY <1>t, Fields
  <2> HIDE DEF data
  <2>2. CASE Complete(data)
    <3>1. Others(c) /\ conn'[c].out = conn[c].out + ResponseUnits /\ conn'[c].writing = TRUE
      BY <1>3, <1>t, <2>2, ReadEffect DEF data
    <3>2. conn'[c].out > 0
      BY <2>1, <3>1, Constants
    <3> QED BY <1>o, <3>1, <3>2 DEF WritingOf
  <2>3. CASE ~Complete(data)
    <3>1. Others(c) /\ Open(c) /\ conn'[c].out = conn[c].out /\ conn'[c].writing = conn[c].writing
      BY <1>3, <1>t, <2>3, ReadEffect DEF data
    <3> QED BY <1>o, <2>1, <3>1 DEF WritingOf
  <2> QED BY <2>2, <2>3
<1>4. ASSUME NEW c \in Clients, Others(c), conn'[c].state = "closed" PROVE WriteInterest'
  BY <1>4, <1>o DEF WritingOf, Open
<1>5. ASSUME NEW c \in Clients, HandleEnd(c) PROVE WriteInterest'
  BY <1>5, <1>4, <1>t, EndEffect DEF HandleEnd
<1>6. CASE WriteFails
  BY <1>6, <1>4, <1>t, EndEffect DEF WriteFails, Handling
<1>7. CASE HandleWrite
  <2>1. PICK n : Wrote(n) /\ conn'[cur].out # 0 /\ conn'[cur].writing = TRUE
    BY <1>7, <1>t, WriteEffect
  <2>2. cur \in Clients /\ Others(cur) /\ n \in Nat /\ n =< conn[cur].out
        /\ conn'[cur].out = conn[cur].out - n
    BY <2>1 DEF Wrote
  <2>3. conn[cur].out \in Nat
    BY <1>t, <2>2, Fields
  <2>4. conn'[cur].out > 0
    BY <2>1, <2>2, <2>3
  <2> QED BY <1>o, <2>1, <2>2, <2>4 DEF WritingOf
<1>8. CASE HandleLastWrite
  BY <1>8, <1>4, <1>t, LastEffect DEF Wrote
<1>9. ASSUME NEW c \in Clients, Connect(c) \/ Send(c) \/ Shut(c) \/ Reset(c) \/ Receive(c)
      PROVE  WriteInterest'
  <2>1. Others(c) /\ (Open(c)' <=> Open(c)) /\ Keeps(conn[c], conn'[c])
    BY <1>9, <1>t, ClientEffect DEF Open
  <2> QED BY <1>o, <1>t, <2>1 DEF WritingOf, Keeps
<1> QED BY <1>1, <1>2, <1>3, <1>5, <1>6, <1>7, <1>8, <1>9, StepsOfNext DEF Steps

WholeOf(c) ==
  conn[c].state = "closed" /\ tcp[c].peer = "open" =>
    /\ conn[c].out = 0 /\ executed[c] # <<>>
    /\ tcp[c].rcv = 0 => tcp[c].got + tcp[c].snd = Len(executed[c]) * ResponseUnits

LEMMA AnswersStep ==
  ASSUME IInv, [Next]_vars
  PROVE  Answered' /\ AnswersWhole'
<1> DEFINE A(c) == AnsweredOf(c) /\ WholeOf(c)
<1>t. TypeOK /\ Counts /\ Handling /\ \A c \in Clients : A(c) /\ CountsOf(c)
  BY DEF IInv, Answered, AnswersWhole, WholeOf, Counts
<1>n. \A c \in Clients : /\ conn[c].out \in Nat /\ tcp[c].snd \in Nat /\ tcp[c].got \in Nat
                         /\ Len(executed[c]) \in Nat /\ executed[c] \in Seq(Run)
  BY <1>t, Fields
<1>s. \A d \in Clients : Same(d) => A(d)'
  BY <1>t DEF Same, AnsweredOf, WholeOf, Open, Gone
<1>o. \A c \in Clients : Others(c) /\ A(c)' => Answered' /\ AnswersWhole'
  BY <1>s DEF Others, Answered, AnswersWhole, WholeOf
<1>1. CASE UNCHANGED <<conn, connections, tcp, executed>>
  <2>1. \A d \in Clients : A(d)'
    BY <1>1, <1>s DEF Same
  <2> QED BY <2>1 DEF Answered, AnswersWhole, WholeOf
<1>2. CASE Accept
  <2>1. PICK c \in Clients : /\ conn[c].state = "backlog" /\ Others(c) /\ conn'[c].state = "open"
                             /\ conn'[c].out = conn[c].out /\ tcp'[c] = tcp[c]
                             /\ executed'[c] = executed[c]
    BY <1>2, <1>t, AcceptEffect
  <2>2. conn[c].out = 0 /\ tcp[c].snd = 0 /\ tcp[c].got = 0 /\ executed[c] = <<>>
    BY <1>t, <2>1 DEF CountsOf
  <2>3. Len(executed[c]) = 0
    BY <2>2
  <2>4. 0 + 0 + 0 = 0 * ResponseUnits
    BY Constants
  <2>5. A(c)'
    BY <2>1, <2>2, <2>3, <2>4 DEF AnsweredOf, WholeOf
  <2> QED BY <1>o, <2>1, <2>5
<1>3. ASSUME NEW c \in Clients, HandleRead(c) PROVE Answered' /\ AnswersWhole'
  <2> DEFINE data == Data(c, Read(conn[c], tcp[c].rcv))
  <2> HIDE DEF data
  <2>1. /\ Others(c) /\ Open(c) /\ conn'[c].state = "open" /\ tcp'[c].snd = tcp[c].snd
        /\ tcp'[c].got = tcp[c].got /\ tcp'[c].peer = tcp[c].peer
    BY <1>3, <1>t, ReadEffect DEF data
  <2>2. AnsweredOf(c)
    BY <1>t
  <2>3. CASE Complete(data)
    <3>1. /\ Len(executed'[c]) = Len(executed[c]) + 1
          /\ conn'[c].out = conn[c].out + ResponseUnits
      BY <1>3, <1>t, <2>3, ReadEffect DEF data
    <3>2. ASSUME NEW l \in Nat, NEW k \in Nat PROVE (l + 1) * k = l * k + k /\ l * k \in Nat
      OBVIOUS
    <3> DEFINE old == Len(executed[c]) * ResponseUnits
    <3>3. Len(executed'[c]) * ResponseUnits = old + ResponseUnits /\ old \in Nat
      BY <1>n, <3>1, <3>2, Constants
    <3>4. ASSUME ~Gone(c) PROVE conn[c].out + tcp[c].snd + tcp[c].got = old
      BY <2>1, <2>2, <3>4 DEF AnsweredOf
    <3> HIDE DEF old
    <3>5. ASSUME ~Gone(c)
          PROVE  conn'[c].out + tcp'[c].snd + tcp'[c].got = Len(executed'[c]) * ResponseUnits
      <4>1. (conn[c].out + ResponseUnits) + tcp[c].snd + tcp[c].got = old + ResponseUnits
        BY <1>n, <3>3, <3>4, <3>5, Constants
      <4> QED BY <2>1, <3>1, <3>3, <4>1
    <3>6. A(c)'
      BY <2>1, <3>5 DEF AnsweredOf, WholeOf, Open, Gone
    <3> QED BY <1>o, <2>1, <3>6
  <2>4. CASE ~Complete(data)
    <3>1. executed'[c] = executed[c] /\ conn'[c].out = conn[c].out
      BY <1>3, <1>t, <2>4, ReadEffect DEF data
    <3>2. A(c)'
      BY <2>1, <2>2, <3>1 DEF AnsweredOf, WholeOf, Open, Gone
    <3> QED BY <1>o, <2>1, <3>2
  <2> QED BY <2>3, <2>4
<1>4. ASSUME NEW c \in Clients, Destroy(c), UNCHANGED <<tcp, executed>>, tcp[c].peer # "open"
      PROVE  Answered' /\ AnswersWhole'
  <2>1. Others(c) /\ conn'[c].state = "closed" /\ tcp'[c] = tcp[c]
    BY <1>4, <1>t, EndEffect
  <2>2. A(c)'
    BY <1>4, <2>1 DEF AnsweredOf, WholeOf, Open
  <2> QED BY <1>o, <2>1, <2>2
<1>5. ASSUME NEW c \in Clients, HandleEnd(c) PROVE Answered' /\ AnswersWhole'
  <2>1. tcp[c].rcv = 0 /\ Readable(c) /\ Destroy(c) /\ UNCHANGED <<tcp, executed>>
    BY <1>5, <1>t DEF HandleEnd, Handling
  <2>2. tcp[c].peer # "open"
    BY <2>1 DEF Readable
  <2> QED BY <1>4, <2>1, <2>2
<1>6. CASE WriteFails
  <2>1. /\ cur \in Clients /\ Destroy(cur) /\ UNCHANGED <<tcp, executed>>
        /\ tcp[cur].peer # "open"
    BY <1>6, <1>t DEF WriteFails, Handling
  <2> QED BY <1>4, <2>1
<1>7. CASE HandleWrite
  <2>1. PICK n : Wrote(n) /\ conn'[cur].state = "open" /\ tcp'[cur].snd = tcp[cur].snd + n
    BY <1>7, <1>t, WriteEffect
  <2>2. /\ cur \in Clients /\ Others(cur) /\ n \in Nat /\ Open(cur)
        /\ conn'[cur].out = conn[cur].out - n /\ tcp'[cur].got = tcp[cur].got
        /\ tcp'[cur].peer = tcp[cur].peer /\ executed'[cur] = executed[cur]
    BY <2>1 DEF Wrote
  <2>3. conn'[cur].out + tcp'[cur].snd + tcp'[cur].got = conn[cur].out + tcp[cur].snd + tcp[cur].got
    BY <1>n, <2>1, <2>2
  <2>4. AnsweredOf(cur)
    BY <1>t, <2>2
  <2>5. PICK c \in Clients : c = cur
    BY <2>2
  <2>6. A(c)'
    BY <2>1, <2>2, <2>3, <2>4, <2>5 DEF AnsweredOf, WholeOf, Open, Gone
  <2> QED BY <1>o, <2>2, <2>5, <2>6
<1>8. CASE HandleLastWrite
  <2>1. PICK n : /\ Wrote(n) /\ conn'[cur].state = "closed" /\ conn'[cur].out = 0
                 /\ conn[cur].closeAfterWrite
                 /\ tcp[cur].rcv = 0 => tcp'[cur].snd = tcp[cur].snd + n
    BY <1>8, <1>t, LastEffect
  <2>2. /\ cur \in Clients /\ Others(cur) /\ n \in Nat /\ Open(cur) /\ ~Gone(cur)
        /\ conn'[cur].out = conn[cur].out - n /\ tcp'[cur].got = tcp[cur].got
        /\ tcp'[cur].rcv = tcp[cur].rcv /\ executed'[cur] = executed[cur]
    BY <2>1 DEF Wrote
  <2>3. AnsweredOf(cur) /\ CountsOf(cur)
    BY <1>t, <2>2
  <2>4. /\ conn[cur].out + tcp[cur].snd + tcp[cur].got = Len(executed[cur]) * ResponseUnits
        /\ executed[cur] # <<>>
    BY <2>1, <2>2, <2>3 DEF AnsweredOf, CountsOf
  <2>5. tcp[cur].rcv = 0 => tcp'[cur].got + tcp'[cur].snd = conn[cur].out + tcp[cur].snd + tcp[cur].got
    BY <1>n, <2>1, <2>2
  <2>6. PICK c \in Clients : c = cur
    BY <2>2
  <2>7. A(c)'
    BY <2>1, <2>2, <2>4, <2>5, <2>6 DEF AnsweredOf, WholeOf, Open
  <2> QED BY <1>o, <2>2, <2>6, <2>7
<1>9. ASSUME NEW c \in Clients, Connect(c) \/ Send(c) \/ Shut(c) \/ Reset(c) \/ Receive(c)
      PROVE  Answered' /\ AnswersWhole'
  <2>1. Others(c) /\ executed' = executed /\ conn'[c].out = conn[c].out
    BY <1>9, <1>t, ClientEffect DEF Keeps
  <2>2. A(c) /\ conn[c].out \in Nat /\ tcp[c].snd \in Nat /\ tcp[c].got \in Nat
    BY <1>t, <1>n
  <2>3. \/ conn'[c].state = "backlog"
        \/ conn'[c].state \in {"open", "backlog"} /\ Gone(c)'
        \/ /\ conn'[c].state = conn[c].state /\ conn[c].state \in {"open", "backlog"}
           /\ Gone(c)' <=> Gone(c)
           /\ tcp'[c].snd = tcp[c].snd /\ tcp'[c].got = tcp[c].got
        \/ /\ conn'[c].state = conn[c].state /\ tcp'[c].peer = tcp[c].peer
           /\ tcp'[c].rcv = tcp[c].rcv
           /\ tcp'[c].snd = tcp[c].snd - 1 /\ tcp'[c].got = tcp[c].got + 1
    BY <1>9, <1>t, ClientEffect DEF Open, Gone
  <2>4. A(c)'
    <3>1. CASE conn'[c].state \in {"open", "backlog"} /\ (conn'[c].state = "backlog" \/ Gone(c)')
      BY <3>1 DEF AnsweredOf, WholeOf, Open
    <3>2. CASE /\ conn'[c].state = conn[c].state /\ conn[c].state \in {"open", "backlog"}
               /\ Gone(c)' <=> Gone(c)
               /\ tcp'[c].snd = tcp[c].snd /\ tcp'[c].got = tcp[c].got
      BY <2>1, <2>2, <3>2 DEF AnsweredOf, WholeOf, Open
    <3>3. CASE /\ conn'[c].state = conn[c].state /\ tcp'[c].peer = tcp[c].peer
               /\ tcp'[c].rcv = tcp[c].rcv
               /\ tcp'[c].snd = tcp[c].snd - 1 /\ tcp'[c].got = tcp[c].got + 1
      <4>1. conn'[c].out + tcp'[c].snd + tcp'[c].got = conn[c].out + tcp[c].snd + tcp[c].got
            /\ tcp'[c].got + tcp'[c].snd = tcp[c].got + tcp[c].snd
        BY <2>1, <2>2, <3>3
      <4> QED BY <2>1, <2>2, <3>3, <4>1 DEF AnsweredOf, WholeOf, Open, Gone
    <3> QED BY <2>3, <3>1, <3>2, <3>3
  <2> QED BY <1>o, <2>1, <2>4
<1> QED BY <1>1, <1>2, <1>3, <1>5, <1>6, <1>7, <1>8, <1>9, StepsOfNext DEF Steps

FramedOf(c) ==
  \A k \in DOMAIN executed[c] \cap DOMAIN Script[c] :
    (\A j \in 1 .. k : WellFormed(Script[c][j])) =>
      executed[c][k] = [what |-> Script[c][k].what, body |-> Script[c][k].body]

\* The request that is parsed next is the next of the script, if that and all
\* before it are well-formed.
LEMMA NextIsRight ==
  ASSUME IInv, NEW c \in Clients, NEW data, data = Data(c, Read(conn[c], tcp[c].rcv)),
         Complete(data), NEW m, m = Len(executed[c]) + 1, Meant(c, m)
  PROVE  /\ Parsed(data) = [what |-> Script[c][m].what, body |-> Script[c][m].body]
         /\ (tcp[c].sent - (conn[c].in + tcp[c].rcv)) + Consumed(data) = Len(Joined(Script[c])[m])
<1> DEFINE rs == Script[c]
           l == Len(executed[c])
           J == Joined(rs)
           e == Len(J[l])
           q == tcp[c].sent
<1>1. TypeOK /\ Counts /\ FramingOf(c) /\ CountsOf(c)
  BY DEF IInv, Framing, Counts
<1>2. /\ l \in Nat /\ conn[c].in \in Nat /\ tcp[c].rcv \in Nat /\ q \in Nat
      /\ rs \in Seq(Request) /\ Len(rs) \in Nat /\ Stream[c] = J[Len(rs)]
  BY <1>1, Fields, StreamType
<1>3. m \in 1 .. Len(rs) /\ m - 1 = l /\ l \in 0 .. Len(rs) /\ m \in 0 .. Len(rs)
  BY <1>2 DEF Meant
<1>4. WellFormed(rs[m]) /\ Meant(c, l)
  BY <1>2, <1>3 DEF Meant
<1>5. tcp[c].sent - conn[c].in - tcp[c].rcv = e
  BY <1>1, <1>4 DEF FramingOf
<1>6. J[l] \in Seq(Unit) /\ J[m] \in Seq(Unit)
  BY <1>2, <1>3, JoinedType
<1>7. e \in Nat /\ Len(J[m]) \in Nat
  BY <1>6, LenProperties
<1>8. e =< q /\ q =< Len(J[Len(rs)])
  <2>1. q =< Len(Stream[c])
    BY <1>1 DEF CountsOf
  <2> HIDE DEF e
  <2> QED BY <1>2, <1>5, <2>1
<1>9. data = SubSeq(J[Len(rs)], e + 1, q)
  BY <1>1, <1>2, <1>5, DataType
<1> DEFINE r == rs[m]
<1> HIDE DEF rs, e, q, J
<1>10. /\ Parsed(data) = [what |-> r.what, body |-> r.body]
       /\ Consumed(data) = Len(J[m]) - e
  <2>1. Len(Joined(rs)[m - 1]) = e
    BY <1>3 DEF e, J
  <2>2. /\ Len(Joined(rs)[m - 1]) =< q /\ q =< Len(Joined(rs)[Len(rs)])
        /\ Complete(SubSeq(Joined(rs)[Len(rs)], Len(Joined(rs)[m - 1]) + 1, q))
    BY <1>8, <1>9, <2>1 DEF J
  <2>3. LET d == SubSeq(Joined(rs)[Len(rs)], Len(Joined(rs)[m - 1]) + 1, q) IN
         /\ Parsed(d) = [what |-> rs[m].what, body |-> rs[m].body]
         /\ Consumed(d) = Len(Joined(rs)[m]) - Len(Joined(rs)[m - 1])
    BY <1>2, <1>3, <1>4, <2>2, NextRequest
  <2> QED BY <1>9, <2>1, <2>3 DEF J
<1>11. (q - (conn[c].in + tcp[c].rcv)) + Consumed(data) = Len(J[m])
  <2>1. q - conn[c].in - tcp[c].rcv = e
    BY <1>5 DEF q
  <2> DEFINE in == conn[c].in
             rcv == tcp[c].rcv
             k == Consumed(data)
             w == Len(J[m])
  <2>2. in \in Nat /\ rcv \in Nat /\ q \in Nat /\ e \in Nat /\ w \in Nat
    BY <1>2, <1>7
  <2>3. k = w - e /\ (q - in) - rcv = e
    BY <1>10, <2>1
  <2> HIDE DEF in, rcv, k, w
  <2>4. (q - (in + rcv)) + k = w
    BY <2>2, <2>3
  <2> QED BY <2>4 DEF in, rcv, k, w
<1> QED BY <1>10, <1>11 DEF rs, J, q

LEMMA FramingStep ==
  ASSUME IInv, [Next]_vars
  PROVE  Framing' /\ FramedRight'
<1> DEFINE P(c) == FramingOf(c) /\ FramedOf(c)
           S(c) == tcp[c].sent - conn[c].in - tcp[c].rcv
<1>t. TypeOK /\ Counts /\ Handling /\ \A c \in Clients : P(c) /\ CountsOf(c)
  BY DEF IInv, Framing, FramedRight, FramedOf, Counts
<1>n. \A c \in Clients : /\ conn[c].in \in Nat /\ tcp[c].sent \in Nat /\ tcp[c].rcv \in Nat
                         /\ Len(executed[c]) \in Nat /\ executed[c] \in Seq(Run)
  BY <1>t, Fields
<1>p. ASSUME \A c \in Clients : P(c)' PROVE Framing' /\ FramedRight'
  BY <1>p DEF Framing, FramedRight, FramedOf
<1>k. ASSUME NEW c \in Clients, executed'[c] = executed[c], S(c)' = S(c) PROVE P(c)'
  BY <1>k, <1>t DEF FramingOf, FramedOf, Meant
<1>s. \A d \in Clients : Same(d) => P(d)'
  BY <1>k DEF Same
<1>o. \A c \in Clients : Others(c) /\ P(c)' => Framing' /\ FramedRight'
  BY <1>s, <1>p DEF Others
<1>1. CASE UNCHANGED <<conn, connections, tcp, executed>>
  BY <1>1, <1>s, <1>p DEF Same
<1>2. CASE Accept
  <2>1. PICK c \in Clients : /\ Others(c) /\ conn'[c].in = conn[c].in /\ tcp'[c] = tcp[c]
                             /\ executed'[c] = executed[c]
    BY <1>2, <1>t, AcceptEffect
  <2>2. P(c)'
    BY <1>k, <2>1
  <2> QED BY <1>o, <2>1, <2>2
<1>3. ASSUME NEW c \in Clients, HandleRead(c) PROVE Framing' /\ FramedRight'
  <2> DEFINE data == Data(c, Read(conn[c], tcp[c].rcv))
             l == Len(executed[c])
             m == l + 1
  <2> HIDE DEF data
  <2>1. Others(c) /\ tcp'[c].sent = tcp[c].sent /\ tcp'[c].rcv = 0
    BY <1>3, <1>t, ReadEffect DEF data
  <2>2. /\ conn[c].in \in Nat /\ tcp[c].sent \in Nat /\ tcp[c].rcv \in Nat /\ l \in Nat
        /\ executed[c] \in Seq(Run)
    BY <1>n
  <2>3. CASE Complete(data)
    <3>1. /\ conn'[c].in = conn[c].in + tcp[c].rcv - Consumed(data)
          /\ Consumed(data) \in 0 .. conn[c].in + tcp[c].rcv
          /\ executed'[c] = Append(executed[c], Parsed(data))
      BY <1>3, <1>t, <2>3, ReadEffect DEF data
    <3>2. /\ Len(executed'[c]) = m /\ DOMAIN executed'[c] = 1 .. m /\ DOMAIN executed[c] = 1 .. l
          /\ \A k \in 1 .. l : executed'[c][k] = executed[c][k]
          /\ executed'[c][m] = Parsed(data)
      <4>1. Parsed(data) \in Run
        <5>1. data \in Seq(Unit)
          BY <1>t, DataType DEF data
        <5> QED BY <2>3, <5>1, ParsedType DEF Run
      <4> DEFINE p == Parsed(data)
                 old == executed[c]
                 new == Append(old, p)
      <4>2. old \in Seq(Run) /\ p \in Run
        BY <2>2, <4>1
      <4> HIDE DEF old, p
      <4>3. /\ new \in Seq(Run) /\ Len(new) = Len(old) + 1
            /\ \A k \in 1 .. Len(old) : new[k] = old[k]
            /\ new[Len(old) + 1] = p
        BY <4>2, AppendProperties
      <4>4. DOMAIN new = 1 .. Len(new) /\ DOMAIN old = 1 .. Len(old)
        BY <4>2, <4>3, LenProperties
      <4>5. executed'[c] = new
        BY <3>1 DEF old, p
      <4> HIDE DEF new
      <4> QED BY <4>3, <4>4, <4>5 DEF old, p
    <3>3. ASSUME Meant(c, m)
          PROVE  /\ Parsed(data) = [what |-> Script[c][m].what, body |-> Script[c][m].body]
                 /\ (tcp[c].sent - (conn[c].in + tcp[c].rcv)) + Consumed(data)
                      = Len(Joined(Script[c])[m])
      <4> HIDE DEF m
      <4> QED BY <2>3, <3>3, NextIsRight DEF data, m
    <3> HIDE DEF m
    <3>4. FramingOf(c)'
      <4>1. tcp'[c].sent - conn'[c].in - tcp'[c].rcv
              = (tcp[c].sent - (conn[c].in + tcp[c].rcv)) + Consumed(data)
        BY <2>1, <2>2, <3>1
      <4> QED BY <3>2, <3>3, <4>1 DEF FramingOf, Meant
    <3>5. FramedOf(c)'
      <4>1. SUFFICES ASSUME NEW k \in DOMAIN executed'[c] \cap DOMAIN Script[c],
                            \A j \in 1 .. k : WellFormed(Script[c][j])
                     PROVE  executed'[c][k] = [what |-> Script[c][k].what, body |-> Script[c][k].body]
        BY DEF FramedOf
      <4>2. k \in 1 .. l \/ k = m
        BY <2>2, <3>2 DEF m
      <4>3. CASE k \in 1 .. l
        <5>1. k \in DOMAIN executed[c] \cap DOMAIN Script[c]
          BY <3>2, <4>3
        <5>2. FramedOf(c)
          BY <1>t
        <5>3. executed[c][k] = [what |-> Script[c][k].what, body |-> Script[c][k].body]
          BY <4>1, <5>1, <5>2 DEF FramedOf
        <5> QED BY <3>2, <4>3, <5>3
      <4>4. CASE k = m
        <5>1. m =< Len(Script[c])
          BY <4>4, StreamType, LenProperties
        <5>2. Meant(c, m)
          BY <4>1, <4>4, <5>1 DEF Meant
        <5> QED BY <3>2, <3>3, <4>4, <5>2
      <4> QED BY <4>2, <4>3, <4>4
    <3> QED BY <1>o, <2>1, <3>4, <3>5
  <2>4. CASE ~Complete(data)
    <3>1. executed'[c] = executed[c] /\ conn'[c].in = conn[c].in + tcp[c].rcv
      BY <1>3, <1>t, <2>4, ReadEffect DEF data
    <3>2. S(c)' = S(c)
      BY <2>1, <2>2, <3>1
    <3>3. P(c)'
      BY <1>k, <3>1, <3>2
    <3> QED BY <1>o, <2>1, <3>3
  <2> QED BY <2>3, <2>4
<1>4. ASSUME NEW c \in Clients, Destroy(c), UNCHANGED <<tcp, executed>>
      PROVE  Framing' /\ FramedRight'
  <2>1. Others(c) /\ conn'[c].in = conn[c].in /\ tcp'[c] = tcp[c] /\ executed'[c] = executed[c]
    BY <1>4, <1>t, EndEffect DEF Keeps
  <2>2. P(c)'
    BY <1>k, <2>1
  <2> QED BY <1>o, <2>1, <2>2
<1>5. CASE WriteFails
  <2>1. cur \in Clients /\ Destroy(cur) /\ UNCHANGED <<tcp, executed>>
    BY <1>5, <1>t DEF WriteFails, Handling
  <2> QED BY <1>4, <2>1
<1>6. CASE HandleWrite \/ HandleLastWrite
  <2>1. PICK n : Wrote(n)
    BY <1>6, <1>t, WriteEffect, LastEffect
  <2>2. PICK c \in Clients : c = cur
    BY <2>1 DEF Wrote
  <2>3. Others(c) /\ executed'[c] = executed[c] /\ S(c)' = S(c)
    BY <2>1, <2>2 DEF Wrote
  <2>4. P(c)'
    BY <1>k, <2>3
  <2> QED BY <1>o, <2>3, <2>4
<1>7. ASSUME NEW c \in Clients, Connect(c) \/ Send(c) \/ Shut(c) \/ Reset(c) \/ Receive(c)
      PROVE  Framing' /\ FramedRight'
  <2>1. Others(c) /\ executed'[c] = executed[c] /\ conn'[c].in = conn[c].in
    BY <1>7, <1>t, ClientEffect DEF Keeps
  <2>2. \/ tcp'[c].sent = tcp[c].sent /\ tcp'[c].rcv = tcp[c].rcv
        \/ tcp'[c].sent = tcp[c].sent + 1 /\ tcp'[c].rcv = tcp[c].rcv + 1
    BY <1>7, <1>t, ClientEffect
  <2>3. S(c)' = S(c)
    BY <1>n, <2>1, <2>2
  <2>4. P(c)'
    BY <1>k, <2>1, <2>3
  <2> QED BY <1>o, <2>1, <2>4
<1>8. \A c \in Clients : HandleEnd(c) => Destroy(c) /\ UNCHANGED <<tcp, executed>>
  BY DEF HandleEnd
<1> QED BY <1>1, <1>2, <1>3, <1>4, <1>5, <1>6, <1>7, <1>8, StepsOfNext DEF Steps

LEMMA InitInvariant == Init => IInv
<1> SUFFICES ASSUME Init PROVE IInv
  OBVIOUS
<1>1. \A c \in Clients : /\ conn[c] = Idle /\ executed[c] = <<>> /\ batch[c] = {}
                         /\ tcp[c] = [peer |-> "open", sent |-> 0, rcv |-> 0, snd |-> 0, got |-> 0]
  BY DEF Init
<1>2. PICK F \in FdSets : connections = [f \in F |-> "none"]
  BY DEF Init
<1>3. TypeOK
  <2>1. Idle \in Connection /\ [peer |-> "open", sent |-> 0, rcv |-> 0, snd |-> 0, got |-> 0] \in Tcp
    <3>0. -1 \in (UNION FdSets) \cup {-1}
      OBVIOUS
    <3>1. Idle \in Connection
      BY <3>0 DEF Idle, Connection
    <3>2. 0 \in 0 .. SendBuffer
      BY Constants
    <3> QED BY <3>1, <3>2 DEF Tcp
  <2>2. <<>> \in Seq(Run)
    BY EmptySeq
  <2>3. conn \in [Clients -> Connection] /\ tcp \in [Clients -> Tcp]
        /\ executed \in [Clients -> Seq(Run)] /\ batch \in [Clients -> SUBSET {"in", "out"}]
    BY <2>1, <2>2 DEF Init
  <2>4. connections \in [F -> Clients \cup {"none"}]
    BY <1>2
  <2> QED BY <2>3, <2>4 DEF Init, TypeOK, Connection, Tcp, Run
<1>4. \A c \in Clients : /\ conn[c].state = "none" /\ conn[c].in = 0 /\ conn[c].out = 0
                         /\ conn[c].writing = FALSE /\ conn[c].closeAfterWrite = FALSE
                         /\ tcp[c].sent = 0 /\ tcp[c].rcv = 0 /\ tcp[c].snd = 0 /\ tcp[c].got = 0
  BY <1>1 DEF Idle
<1>5. Counts
  BY <1>1, <1>4, StreamType DEF Counts, CountsOf
<1>6. Handling /\ WriteInterest /\ Answered /\ AnswersWhole
  BY <1>1, <1>4 DEF Init, Handling, WriteInterest, Answered, AnsweredOf, AnswersWhole, Open
<1>7. DescriptorsOwned
  BY <1>2, <1>4 DEF DescriptorsOwned, Open
<1>8. Framing
  <2> SUFFICES ASSUME NEW c \in Clients PROVE FramingOf(c)
    BY DEF Framing
  <2>1. Len(executed[c]) = 0
    BY <1>1
  <2>2. Joined(Script[c])[0] = <<>>
    BY StreamType, JoinedStep
  <2>3. Len(Joined(Script[c])[0]) = 0
    BY <2>2
  <2> QED BY <1>4, <2>1, <2>3 DEF FramingOf
<1>9. FramedRight
  BY <1>1 DEF FramedRight
<1> QED BY <1>3, <1>5, <1>6, <1>7, <1>8, <1>9 DEF IInv

\* The invariant is inductive.
THEOREM Invariant == Spec => []IInv
<1>1. IInv /\ [Next]_vars => IInv'
  <2> SUFFICES ASSUME IInv, [Next]_vars PROVE IInv'
    OBVIOUS
  <2>1. TypeOK /\ Counts /\ Handling
    BY DEF IInv
  <2> QED BY <2>1, TypeStep, CountsStep, HandlingStep, OwnedStep, WriteInterestStep, AnswersStep,
             FramingStep DEF IInv
<1> QED BY <1>1, InitInvariant, PTL DEF Spec

\* Every variable of the reactor stays in its type: no counter of what is
\* buffered goes below nothing, no more is written than the kernel takes, and
\* what is parsed of any bytes is a request.
THEOREM ReactorTypes == Spec => []TypeOK
<1>1. IInv => TypeOK
  BY DEF IInv
<1> QED BY <1>1, Invariant, PTL

\* TcpServer's map and the descriptors of the open connections are each other's
\* inverse, whichever event closes a connection and however soon the kernel
\* gives its descriptor to the next.
THEOREM DescriptorsOwnedHolds == Spec => []DescriptorsOwned
<1>1. IInv => DescriptorsOwned
  BY DEF IInv
<1> QED BY <1>1, Invariant, PTL

\* A connection asks for EPOLLOUT exactly while its output buffer has something.
THEOREM WriteInterestHolds == Spec => []WriteInterest
<1>1. IInv => WriteInterest
  BY DEF IInv
<1> QED BY <1>1, Invariant, PTL

\* A client that neither shut down nor reset is hung up on only after the whole
\* of every response, however many requests it sent at once.
THEOREM AnswersWholeHolds == Spec => []AnswersWhole
<1>1. IInv => AnswersWhole
  BY DEF IInv
<1> QED BY <1>1, Invariant, PTL

\* The requests that run are those the client meant, in their order and with
\* their bodies, however TCP cuts the stream and whatever follows them.
THEOREM FramedRightHolds == Spec => []FramedRight
<1>1. IInv => FramedRight
  BY DEF IInv
<1> QED BY <1>1, Invariant, PTL
=============================================================================
