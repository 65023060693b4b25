-------------------------- MODULE LogStream_proofs --------------------------
(***************************************************************************)
(* What a live stream keeps whatever its queue's size, its lines and its   *)
(* retries: order, nothing in flight at its end, an error that is told,    *)
(* nothing left running.                                                   *)
(***************************************************************************)
EXTENDS LogStream, TLAPS

-----------------------------------------------------------------------------
(***************************************************************************)
(* Sequences.                                                              *)
(***************************************************************************)
LEMMA SeqFacts ==
  ASSUME NEW R, NEW q \in Seq(R)
  PROVE  /\ Len(q) \in Nat /\ DOMAIN q = 1 .. Len(q)
         /\ \A i \in 1 .. Len(q) : q[i] \in R
OBVIOUS

LEMMA SeqGrows ==
  ASSUME NEW R, NEW S, R \subseteq S, NEW q \in Seq(R)
  PROVE  q \in Seq(S)
OBVIOUS

LEMMA AppendFacts ==
  ASSUME NEW R, NEW q \in Seq(R), NEW x \in R
  PROVE  /\ Append(q, x) \in Seq(R)
         /\ Len(Append(q, x)) = Len(q) + 1
         /\ \A i \in 1 .. Len(q) : Append(q, x)[i] = q[i]
         /\ Append(q, x)[Len(q) + 1] = x
         /\ Range(Append(q, x)) = Range(q) \cup {x}
<1>1. /\ Append(q, x) \in Seq(R)
      /\ Len(Append(q, x)) = Len(q) + 1
      /\ \A i \in 1 .. Len(q) : Append(q, x)[i] = q[i]
      /\ Append(q, x)[Len(q) + 1] = x
  OBVIOUS
<1>2. DOMAIN Append(q, x) = 1 .. (Len(q) + 1) /\ DOMAIN q = 1 .. Len(q) /\ Len(q) \in Nat
  BY <1>1, SeqFacts
<1>3. ASSUME NEW y PROVE y \in Range(Append(q, x)) <=> y \in Range(q) \cup {x}
  <2>1. ASSUME y \in Range(q) PROVE y \in Range(Append(q, x))
    <3>1. PICK i \in 1 .. Len(q) : y = q[i]
      BY <2>1, <1>2 DEF Range
    <3>. QED  BY <3>1, <1>1, <1>2 DEF Range
  <2>2. x \in Range(Append(q, x))
    BY <1>1, <1>2 DEF Range
  <2>3. ASSUME y \in Range(Append(q, x)) PROVE y \in Range(q) \cup {x}
    <3>1. PICK i \in 1 .. (Len(q) + 1) : y = Append(q, x)[i]
      BY <2>3, <1>2 DEF Range
    <3>2. i \in 1 .. Len(q) \/ i = Len(q) + 1
      BY <1>2
    <3>. QED  BY <3>1, <3>2, <1>1, <1>2 DEF Range
  <2>. QED  BY <2>1, <2>2, <2>3
<1>. QED  BY <1>1, <1>3

LEMMA TailFacts ==
  ASSUME NEW R, NEW q \in Seq(R), q # <<>>
  PROVE  /\ Tail(q) \in Seq(R) /\ Head(q) \in R
         /\ Len(Tail(q)) = Len(q) - 1 /\ Len(q) >= 1
         /\ Head(q) = q[1]
         /\ \A i \in 1 .. Len(Tail(q)) : Tail(q)[i] = q[i + 1]
         /\ Head(q) \in Range(q) /\ Range(Tail(q)) \subseteq Range(q)
<1>1. /\ Tail(q) \in Seq(R) /\ Head(q) \in R
      /\ Len(Tail(q)) = Len(q) - 1 /\ Len(q) >= 1
      /\ Head(q) = q[1]
      /\ \A i \in 1 .. Len(Tail(q)) : Tail(q)[i] = q[i + 1]
  OBVIOUS
<1>2. /\ DOMAIN Tail(q) = 1 .. Len(Tail(q)) /\ DOMAIN q = 1 .. Len(q) /\ Len(q) \in Nat
  BY <1>1, SeqFacts
<1>3. Head(q) \in Range(q)
  BY <1>1, <1>2 DEF Range
<1>4. ASSUME NEW y \in Range(Tail(q)) PROVE y \in Range(q)
  <2>1. PICK i \in 1 .. Len(Tail(q)) : y = Tail(q)[i]
    BY <1>2 DEF Range
  <2>2. y = q[i + 1] /\ i + 1 \in 1 .. Len(q)
    BY <2>1, <1>1, <1>2
  <2>. QED  BY <2>2, <1>2 DEF Range
<1>. QED  BY <1>1, <1>3, <1>4

LEMMA RangeType == ASSUME NEW R, NEW q \in Seq(R) PROVE Range(q) \subseteq R
BY SeqFacts DEF Range

LEMMA EmptyRange == Range(<<>>) = {}
BY DEF Range

-----------------------------------------------------------------------------
(***************************************************************************)
(* The order of what is in flight.                                         *)
(***************************************************************************)
\* b may stand somewhere behind a.
MayFollow(a, b) ==
  a.stream = b.stream =>
    /\ a.kind # "done"
    /\ a.kind = "eof" => b.kind \in {"error", "done"}
    /\ a.kind = "error" => b.kind \in {"eof", "done"}
    /\ a.kind = "line" /\ b.kind = "line" => a.n < b.n

Ordered(q) == \A i, j \in 1 .. Len(q) : i < j => MayFollow(q[i], q[j])

LEMMA OrderedAppend ==
  ASSUME NEW R, NEW q \in Seq(R), NEW x \in R,
         Ordered(q), \A a \in Range(q) : MayFollow(a, x)
  PROVE  Ordered(Append(q, x))
<1>. SUFFICES ASSUME NEW i \in 1 .. (Len(q) + 1), NEW j \in 1 .. (Len(q) + 1), i < j
              PROVE  MayFollow(Append(q, x)[i], Append(q, x)[j])
  BY AppendFacts DEF Ordered
<1>1. i \in 1 .. Len(q) /\ (j \in 1 .. Len(q) \/ j = Len(q) + 1)
  BY SeqFacts
<1>2. q[i] \in Range(q)
  BY <1>1, SeqFacts DEF Range
<1>. QED  BY <1>1, <1>2, AppendFacts DEF Ordered

LEMMA OrderedTail ==
  ASSUME NEW R, NEW q \in Seq(R), q # <<>>, Ordered(q)
  PROVE  Ordered(Tail(q)) /\ \A b \in Range(Tail(q)) : MayFollow(Head(q), b)
<1>1. Len(q) \in Nat /\ Len(Tail(q)) = Len(q) - 1 /\ Head(q) = q[1] /\ Len(q) >= 1
  BY TailFacts, SeqFacts
<1>2. \A i \in 1 .. Len(Tail(q)) : Tail(q)[i] = q[i + 1]
  BY TailFacts
<1>3. Ordered(Tail(q))
  <2>. SUFFICES ASSUME NEW i \in 1 .. Len(Tail(q)), NEW j \in 1 .. Len(Tail(q)), i < j
                PROVE  MayFollow(Tail(q)[i], Tail(q)[j])
    BY DEF Ordered
  <2>1. i + 1 \in 1 .. Len(q) /\ j + 1 \in 1 .. Len(q) /\ i + 1 < j + 1
    BY <1>1
  <2>2. MayFollow(q[i + 1], q[j + 1])
    BY <2>1 DEF Ordered
  <2>. QED  BY <2>2, <1>2
<1>4. ASSUME NEW b \in Range(Tail(q)) PROVE MayFollow(Head(q), b)
  <2>1. PICK i \in 1 .. Len(Tail(q)) : b = Tail(q)[i]
    BY TailFacts, SeqFacts DEF Range
  <2>2. i + 1 \in 1 .. Len(q) /\ 1 \in 1 .. Len(q) /\ 1 < i + 1
    BY <1>1
  <2>3. MayFollow(q[1], q[i + 1])
    BY <2>2 DEF Ordered
  <2>. QED  BY <2>1, <2>3, <1>1, <1>2
<1>. QED  BY <1>3, <1>4

\* A sentinel may go to the back.
LEMMA OrderedRotated ==
  ASSUME NEW q \in Seq(Items), q # <<>>, Ordered(q), IsSentinel(Head(q))
  PROVE  /\ Rotated(q) \in Seq(Items) /\ Len(Rotated(q)) = Len(q)
         /\ Ordered(Rotated(q)) /\ Range(Rotated(q)) \subseteq Range(q)
<1>1. Tail(q) \in Seq(Items) /\ Head(q) \in Items /\ Len(q) \in Nat /\ Len(Tail(q)) = Len(q) - 1
      /\ Head(q) \in Range(q) /\ Range(Tail(q)) \subseteq Range(q)
  BY TailFacts, SeqFacts
<1>2. Ordered(Tail(q)) /\ \A b \in Range(Tail(q)) : MayFollow(Head(q), b)
  BY OrderedTail
<1>3. Range(Tail(q)) \subseteq Items
  BY <1>1, RangeType
<1>4. \A a \in Range(Tail(q)) : MayFollow(a, Head(q))
  BY <1>1, <1>2, <1>3 DEF MayFollow, Items, IsSentinel
<1>5. Ordered(Append(Tail(q), Head(q)))
  BY <1>1, <1>2, <1>4, OrderedAppend
<1>6. ASSUME NEW p \in Seq(Items), NEW x \in Items
      PROVE  /\ Append(p, x) \in Seq(Items) /\ Len(Append(p, x)) = Len(p) + 1
             /\ Range(Append(p, x)) = Range(p) \cup {x}
  BY AppendFacts
<1>7. PICK p \in Seq(Items) : p = Tail(q)
  BY <1>1
<1>8. PICK x \in Items : x = Head(q)
  BY <1>1
<1>9. /\ Append(p, x) \in Seq(Items) /\ Len(Append(p, x)) = Len(p) + 1
      /\ Range(Append(p, x)) = Range(p) \cup {x}
  BY <1>6
<1>10. Rotated(q) = Append(p, x)
  BY <1>7, <1>8 DEF Rotated
<1>11. Len(Append(p, x)) = Len(q) /\ Range(Append(p, x)) \subseteq Range(q)
  BY <1>1, <1>7, <1>8, <1>9
<1>12. Ordered(Append(p, x))
  BY <1>5, <1>7, <1>8
<1>. QED  BY <1>9, <1>10, <1>11, <1>12

\* _push keeps the bound and the order, and invents nothing.
LEMMA PushFacts ==
  ASSUME NEW q \in Seq(Items), NEW item \in Items, Len(q) <= Cap, Ordered(q),
         \A a \in Range(q) : MayFollow(a, item)
  PROVE  /\ Push(q, item) \in Seq(Items) /\ Len(Push(q, item)) <= Cap
         /\ Ordered(Push(q, item)) /\ Range(Push(q, item)) \subseteq Range(q) \cup {item}
<1>0. Cap \in Nat /\ Cap >= 3 /\ Len(q) \in Nat
  BY StreamAssumption, SeqFacts
<1>1. ASSUME NEW p \in Seq(Items), Len(p) < Cap, Ordered(p), Range(p) \subseteq Range(q)
      PROVE  /\ Append(p, item) \in Seq(Items) /\ Len(Append(p, item)) <= Cap
             /\ Ordered(Append(p, item)) /\ Range(Append(p, item)) \subseteq Range(q) \cup {item}
  <2>1. /\ Append(p, item) \in Seq(Items) /\ Len(Append(p, item)) = Len(p) + 1
        /\ Range(Append(p, item)) = Range(p) \cup {item}
    BY AppendFacts
  <2>2. Ordered(Append(p, item))
    BY <1>1, OrderedAppend
  <2>3. Len(p) \in Nat
    BY SeqFacts
  <2>. QED  BY <1>0, <1>1, <2>1, <2>2, <2>3
<1>2. CASE ~Full(q)
  BY <1>0, <1>1, <1>2 DEF Push, Full
<1>3. CASE Full(q) /\ ~IsSentinel(Head(q))
  <2>1. q # <<>> /\ Len(q) = Cap
    BY <1>0, <1>3 DEF Full
  <2>2. /\ Tail(q) \in Seq(Items) /\ Len(Tail(q)) = Len(q) - 1 /\ Range(Tail(q)) \subseteq Range(q)
    BY <2>1, TailFacts
  <2>3. Ordered(Tail(q))
    BY <2>1, OrderedTail
  <2>4. Push(q, item) = Append(Tail(q), item)
    BY <1>0, <1>3, <2>1, <2>2 DEF Push, Full
  <2>5. Len(Tail(q)) < Cap
    BY <1>0, <2>1, <2>2
  <2>. QED  BY <1>1, <2>2, <2>3, <2>4, <2>5
<1>4. CASE Full(q) /\ IsSentinel(Head(q))
  <2>1. q # <<>> /\ Len(q) = Cap
    BY <1>0, <1>4 DEF Full
  <2> DEFINE r == Rotated(q)
  <2>2. r \in Seq(Items) /\ Len(r) = Len(q) /\ Ordered(r) /\ Range(r) \subseteq Range(q)
    BY <1>4, <2>1, OrderedRotated
  <2>3. Push(q, item) = IF IsSentinel(item) THEN Append(Tail(r), item) ELSE r
    BY <1>0, <1>4, <2>1, <2>2 DEF Push, Full
  <2> HIDE DEF r
  <2>4. r # <<>>
    BY <1>0, <2>1, <2>2
  <2>5. /\ Tail(r) \in Seq(Items) /\ Len(Tail(r)) = Len(r) - 1 /\ Range(Tail(r)) \subseteq Range(r)
    BY <2>2, <2>4, TailFacts
  <2>6. Ordered(Tail(r))
    BY <2>2, <2>4, OrderedTail
  <2>7. Len(Tail(r)) < Cap /\ Len(r) <= Cap
    BY <1>0, <2>1, <2>2, <2>5
  <2>8. CASE IsSentinel(item)
    <3>1. Range(Tail(r)) \subseteq Range(q) /\ Push(q, item) = Append(Tail(r), item)
      BY <2>2, <2>3, <2>5, <2>8
    <3>. QED  BY <1>1, <2>5, <2>6, <2>7, <3>1
  <2>9. CASE ~IsSentinel(item)
    BY <2>2, <2>3, <2>7, <2>9
  <2>. QED  BY <2>8, <2>9
<1>. QED  BY <1>2, <1>3, <1>4

-----------------------------------------------------------------------------
(***************************************************************************)
(* The invariant.                                                          *)
(***************************************************************************)
InFlight == Range(queue) \cup Range(ready)

\* Order, within the queue, within the callbacks and from the one to the other.
OrderInv ==
  /\ Ordered(queue) /\ Ordered(ready)
  /\ \A a \in Range(queue), b \in Range(ready) : MayFollow(a, b)

\* The reader reads no more.
Over(s) == reader[s] \in {"final", "ended"}

\* A line in flight has been passed and comes after all that was delivered; a reader
\* whose end is in flight has ended, and one whose error is reads no more.
ItemsInv ==
  \A a \in InFlight :
    /\ a.kind = "line" =>
         /\ a.n \in 1 .. passed[a.stream]
         /\ \A i \in 1 .. Len(delivered[a.stream]) : delivered[a.stream][i] < a.n
    /\ a.kind \in {"eof", "done"} => reader[a.stream] = "ended"
    /\ a.kind = "error" => Over(a.stream)

\* Nothing of a stream is behind the news that its reader is done.
EndedInv ==
  \A s \in ended : reader[s] = "ended" /\ \A a \in Range(ready) : a.stream # s

\* The consumer may yet be given something of the stream, or its end.
Live(s) == reader[s] # "ended" \/ \E a \in InFlight : a.stream = s /\ a.kind \in {"line", "eof"}

\* The consumer counts every stream that is live.
ActiveInv ==
  /\ \A s \in Streams : Live(s) => active >= 1
  /\ (\A s \in Streams : Live(s)) => active = 2

\* The consumer is past the end of both streams.
LeftInv ==
  pc \in {"gather", "exited"} =>
    /\ \A s \in Streams : reader[s] = "ended"
    /\ \A a \in InFlight : a.kind # "line"

RestInv ==
  /\ pc \in {"start", "end"} => \A s \in Streams : ReaderOver(s)
  /\ pc \in {"start", "end", "join"} => child # "running"
  /\ pc \in {"cleanup", "join", "left"} => cleaner \in Cleaning \cup {"done"}
  /\ \A s \in closed : reader[s] # "readline"
  /\ cleaner = "close_stderr" => "stdout" \in closed
  /\ cleaner \in {"kill", "done"} => closed = Streams
  /\ cleaner = "done" => child # "running"

FlightInv == OrderInv /\ ItemsInv /\ EndedInv /\ ActiveInv

Types == TypeOK /\ InOrder

StreamInv == Types /\ FlightInv /\ LeftInv /\ RestInv

-----------------------------------------------------------------------------
LEMMA InFlightType ==
  ASSUME TypeOK
  PROVE  /\ Range(queue) \subseteq Items /\ Range(ready) \subseteq Callbacks
         /\ Items \subseteq Callbacks /\ InFlight \subseteq Callbacks
         /\ \A a \in Callbacks : a.stream \in Streams /\ a.kind \in {"line", "eof", "error", "done"}
<1>1. Range(queue) \subseteq Items /\ Range(ready) \subseteq Callbacks
  BY RangeType DEF TypeOK
<1>2. Items \subseteq Callbacks
  BY DEF Callbacks
<1>3. \A a \in Callbacks : a.stream \in Streams /\ a.kind \in {"line", "eof", "error", "done"}
  BY DEF Callbacks, Items, Done, Streams
<1>. QED  BY <1>1, <1>2, <1>3 DEF InFlight

\* Steps that leave the queue and the callbacks alone; a reader may go on, but not end.
Quiet ==
  /\ UNCHANGED <<queue, ready, ended, passed, delivered, active>>
  /\ \A s \in Streams : /\ reader'[s] = "ended" <=> reader[s] = "ended"
                        /\ Over(s) => Over(s)'

LEMMA QuietKeeps ==
  ASSUME TypeOK, FlightInv, Quiet
  PROVE  FlightInv'
<1>1. InFlight' = InFlight /\ Range(queue)' = Range(queue) /\ Range(ready)' = Range(ready)
  BY DEF Quiet, InFlight
<1>2. \A a \in InFlight : a.stream \in Streams
  BY InFlightType
<1>3. OrderInv'
  BY DEF FlightInv, OrderInv, Quiet
<1>4. ItemsInv'
  BY <1>1, <1>2 DEF FlightInv, ItemsInv, Quiet
<1>5. EndedInv'
  BY <1>1 DEF FlightInv, EndedInv, Quiet, TypeOK
<1>6. \A s \in Streams : Live(s)' <=> Live(s)
  BY <1>1 DEF Live, Quiet
<1>7. ActiveInv'
  BY <1>6 DEF FlightInv, ActiveInv, Quiet
<1>. QED  BY <1>3, <1>4, <1>5, <1>7 DEF FlightInv

\* What stays of the queue when its head is taken.
LEMMA TakeKeeps ==
  ASSUME TypeOK, FlightInv, queue # <<>>, queue' = Tail(queue), ready' = ready
  PROVE  /\ Head(queue) \in Range(queue) /\ Head(queue) \in Items
         /\ queue' \in Seq(Items) /\ Len(queue') <= Cap
         /\ OrderInv' /\ InFlight' \subseteq InFlight
         /\ \A b \in InFlight' : MayFollow(Head(queue), b)
<1>1. /\ Tail(queue) \in Seq(Items) /\ Head(queue) \in Items
      /\ Len(Tail(queue)) = Len(queue) - 1 /\ Len(queue) >= 1
      /\ Head(queue) \in Range(queue) /\ Range(Tail(queue)) \subseteq Range(queue)
  BY TailFacts DEF TypeOK
<1>2. Ordered(Tail(queue)) /\ \A b \in Range(Tail(queue)) : MayFollow(Head(queue), b)
  BY OrderedTail DEF TypeOK, FlightInv, OrderInv
<1>3. Len(queue) \in Nat /\ Cap \in Nat /\ Len(queue) <= Cap
  BY SeqFacts, StreamAssumption DEF TypeOK
<1>4. OrderInv'
  BY <1>1, <1>2 DEF FlightInv, OrderInv
<1>5. InFlight' = Range(Tail(queue)) \cup Range(ready)
  BY DEF InFlight
<1>. QED  BY <1>1, <1>2, <1>3, <1>4, <1>5 DEF FlightInv, OrderInv, InFlight

\* A reader that has not ended passes something of its stream on.
LEMMA PassKeeps ==
  ASSUME TypeOK, FlightInv, NEW s \in Streams, reader[s] # "ended",
         NEW x \in Callbacks, x.stream = s, \A a \in InFlight : MayFollow(a, x),
         ready' = Append(ready, x), queue' = queue
  PROVE  /\ OrderInv' /\ ready' \in Seq(Callbacks)
         /\ Range(ready') = Range(ready) \cup {x}
         /\ InFlight' = InFlight \cup {x}
<1>1. Append(ready, x) \in Seq(Callbacks) /\ Range(Append(ready, x)) = Range(ready) \cup {x}
  BY AppendFacts DEF TypeOK
<1>2. Ordered(Append(ready, x))
  BY OrderedAppend DEF TypeOK, FlightInv, OrderInv, InFlight
<1>. QED  BY <1>1, <1>2 DEF FlightInv, OrderInv, InFlight

-----------------------------------------------------------------------------
(***************************************************************************)
(* The steps that move something.                                          *)
(***************************************************************************)
LEMMA ReaderFacts ==
  ASSUME TypeOK, NEW s \in Streams, NEW from, NEW to, Goto(s, from, to)
  PROVE  reader[s] = from /\ \A r \in Streams : reader'[r] = IF r = s THEN to ELSE reader[r]
BY DEF Goto, TypeOK

LEMMA ReadLineKeeps ==
  ASSUME TypeOK, FlightInv, NEW s \in Streams, ReadLine(s)
  PROVE  FlightInv' /\ ready' \in Seq(Callbacks)
<1>1. /\ reader[s] = "readline"
      /\ \A r \in Streams : reader'[r] = IF r = s THEN "loop" ELSE reader[r]
  BY ReaderFacts DEF ReadLine
<1>2. CASE stop
  <2>1. Quiet
    BY <1>1, <1>2 DEF Quiet, ReadLine, Pass, consumerVars, Over
  <2>. QED  BY <2>1, QuietKeeps DEF Quiet, TypeOK
<1>3. CASE ~stop
  <2> DEFINE x == Line(s, passed[s] + 1)
  <2>1. x \in Callbacks /\ x.stream = s /\ x.kind = "line" /\ x.n = passed[s] + 1
    BY StreamAssumption DEF TypeOK, Callbacks, Items, Line
  <2>2. ready' = Append(ready, x) /\ queue' = queue
    BY <1>3 DEF ReadLine, Pass, TypeOK
  <2>3. \A r \in Streams : passed[r] \in Nat
    BY StreamAssumption DEF TypeOK
  <2>4. \A a \in InFlight : MayFollow(a, x)
    BY <1>1, <2>1, <2>3, InFlightType DEF FlightInv, ItemsInv, MayFollow, Over
  <2> HIDE DEF x
  <2>5. /\ OrderInv' /\ ready' \in Seq(Callbacks)
        /\ Range(ready') = Range(ready) \cup {x}
        /\ InFlight' = InFlight \cup {x}
    BY <1>1, <2>1, <2>2, <2>4, PassKeeps
  <2>6. /\ \A r \in Streams : passed'[r] = IF r = s THEN passed[r] + 1 ELSE passed[r]
        /\ delivered' = delivered /\ active' = active /\ ended' = ended
    BY <1>3 DEF ReadLine, TypeOK, consumerVars
  <2>7. \A r \in Streams : \A i \in 1 .. Len(delivered[r]) : delivered[r][i] \in 1 .. passed[r]
    BY SeqFacts DEF TypeOK
  <2>8. ItemsInv'
    <3>. SUFFICES ASSUME NEW a \in InFlight'
                  PROVE  /\ a.kind = "line" =>
                              /\ a.n \in 1 .. passed'[a.stream]
                              /\ \A i \in 1 .. Len(delivered'[a.stream]) : delivered'[a.stream][i] < a.n
                         /\ a.kind \in {"eof", "done"} => reader'[a.stream] = "ended"
                         /\ a.kind = "error" => Over(a.stream)'
      BY DEF ItemsInv
    <3>1. CASE a = x
      BY <3>1, <2>1, <2>3, <2>6, <2>7
    <3>2. CASE a \in InFlight
      <4>1. /\ a.kind = "line" =>
                 /\ a.n \in 1 .. passed[a.stream]
                 /\ \A i \in 1 .. Len(delivered[a.stream]) : delivered[a.stream][i] < a.n
            /\ a.kind \in {"eof", "done"} => reader[a.stream] = "ended"
            /\ a.kind = "error" => Over(a.stream)
            /\ a.stream \in Streams
        BY <3>2, InFlightType DEF FlightInv, ItemsInv
      <4>. QED  BY <4>1, <1>1, <2>3, <2>6 DEF Over
    <3>. QED  BY <3>1, <3>2, <2>5
  <2>9. EndedInv'
    BY <1>1, <2>1, <2>5, <2>6 DEF FlightInv, EndedInv, TypeOK
  <2>10. ASSUME NEW r \in Streams, Live(r)' PROVE Live(r)
    BY <2>10, <1>1, <2>1, <2>5 DEF Live
  <2>11. ActiveInv'
    BY <2>6, <2>10 DEF FlightInv, ActiveInv
  <2>. QED  BY <2>5, <2>8, <2>9, <2>11 DEF FlightInv
<1>. QED  BY <1>2, <1>3

LEMMA ReadErrorKeeps ==
  ASSUME TypeOK, FlightInv, NEW s \in Streams, ReadError(s)
  PROVE  FlightInv' /\ ready' \in Seq(Callbacks)
<1>1. /\ reader[s] = "readline"
      /\ \A r \in Streams : reader'[r] = IF r = s THEN "final" ELSE reader[r]
  BY ReaderFacts DEF ReadError
<1>2. CASE stop
  <2>1. Quiet
    BY <1>1, <1>2 DEF Quiet, ReadError, Pass, consumerVars, Over
  <2>. QED  BY <2>1, QuietKeeps DEF Quiet, TypeOK
<1>3. CASE ~stop
  <2> DEFINE x == Error(s)
  <2>1. x \in Callbacks /\ x.stream = s /\ x.kind = "error"
    BY DEF Callbacks, Items, Error
  <2>2. ready' = Append(ready, x) /\ queue' = queue
    BY <1>3 DEF ReadError, Pass, TypeOK
  <2>3. \A a \in InFlight : MayFollow(a, x)
    BY <1>1, <2>1, InFlightType DEF FlightInv, ItemsInv, MayFollow, Over
  <2> HIDE DEF x
  <2>4. /\ OrderInv' /\ ready' \in Seq(Callbacks)
        /\ Range(ready') = Range(ready) \cup {x}
        /\ InFlight' = InFlight \cup {x}
    BY <1>1, <2>1, <2>2, <2>3, PassKeeps
  <2>5. passed' = passed /\ delivered' = delivered /\ active' = active /\ ended' = ended
    BY DEF ReadError, consumerVars
  <2>6. \A a \in InFlight : a.stream \in Streams
    BY InFlightType
  <2>7. ItemsInv'
    BY <1>1, <2>1, <2>4, <2>5, <2>6 DEF FlightInv, ItemsInv, Over
  <2>8. EndedInv'
    BY <1>1, <2>1, <2>4, <2>5 DEF FlightInv, EndedInv, TypeOK
  <2>9. ASSUME NEW r \in Streams, Live(r)' PROVE Live(r)
    BY <2>9, <1>1, <2>1, <2>4 DEF Live
  <2>10. ActiveInv'
    BY <2>5, <2>9 DEF FlightInv, ActiveInv
  <2>. QED  BY <2>4, <2>7, <2>8, <2>10 DEF FlightInv
<1>. QED  BY <1>2, <1>3

\* A reader's end: its sentinel, unless stop_readers is set, and behind it its future.
LEMMA ReaderFinalKeeps ==
  ASSUME TypeOK, FlightInv, NEW s \in Streams, ReaderFinal(s)
  PROVE  FlightInv' /\ ready' \in Seq(Callbacks)
<1>1. /\ reader[s] = "final"
      /\ \A r \in Streams : reader'[r] = IF r = s THEN "ended" ELSE reader[r]
  BY ReaderFacts DEF ReaderFinal
<1>2. /\ queue' = queue /\ passed' = passed /\ delivered' = delivered
      /\ active' = active /\ ended' = ended
  BY DEF ReaderFinal, consumerVars, historyVars
<1>3. /\ Eof(s) \in Callbacks /\ Eof(s).stream = s /\ Eof(s).kind = "eof"
      /\ Done(s) \in Callbacks /\ Done(s).stream = s /\ Done(s).kind = "done"
  BY DEF Callbacks, Items, Eof, Done
<1>4. \A a \in InFlight : a.stream = s => a.kind \notin {"eof", "done"}
  BY <1>1 DEF FlightInv, ItemsInv
<1>5. PICK e \in Callbacks : e = Eof(s)
  BY <1>3
<1>6. PICK d \in Callbacks : d = Done(s)
  BY <1>3
<1>7. PICK first \in Seq(Callbacks) :
        /\ first = IF stop THEN ready ELSE Append(ready, e)
        /\ Range(first) = Range(ready) \cup (IF stop THEN {} ELSE {e})
        /\ Ordered(first) /\ \A a \in Range(queue), b \in Range(first) : MayFollow(a, b)
  <2>1. \A a \in InFlight : MayFollow(a, e)
    BY <1>3, <1>4, <1>5 DEF MayFollow
  <2>2. /\ Append(ready, e) \in Seq(Callbacks) /\ Ordered(Append(ready, e))
        /\ Range(Append(ready, e)) = Range(ready) \cup {e}
    BY <2>1, AppendFacts, OrderedAppend DEF TypeOK, FlightInv, OrderInv, InFlight
  <2>. QED  BY <2>1, <2>2 DEF TypeOK, FlightInv, OrderInv, InFlight
<1>8. ready' = Append(first, d)
  <2>1. ready' = ready \o (IF stop THEN <<>> ELSE <<e>>) \o <<d>>
    BY <1>5, <1>6 DEF ReaderFinal
  <2>2. ready \in Seq(Callbacks)
    BY DEF TypeOK
  <2>3. CASE stop
    BY <2>1, <2>2, <2>3, <1>7
  <2>4. CASE ~stop
    BY <2>1, <2>2, <2>4, <1>7
  <2>. QED  BY <2>3, <2>4
<1>9. \A a \in Range(queue) \cup Range(first) : MayFollow(a, d)
  BY <1>3, <1>4, <1>5, <1>6, <1>7 DEF MayFollow, InFlight
<1>10. /\ ready' \in Seq(Callbacks) /\ Ordered(ready')
       /\ Range(ready') = Range(ready) \cup (IF stop THEN {d} ELSE {e, d})
  <2>1. Append(first, d) \in Seq(Callbacks) /\ Range(Append(first, d)) = Range(first) \cup {d}
    BY AppendFacts
  <2>2. Ordered(Append(first, d))
    BY <1>7, <1>9, OrderedAppend
  <2>. QED  BY <1>7, <1>8, <2>1, <2>2
<1>11. OrderInv'
  <2>1. \A b \in Range(ready') : b \in Range(first) \/ b = d
    BY <1>7, <1>10
  <2>. QED  BY <1>2, <1>7, <1>9, <1>10, <2>1 DEF FlightInv, OrderInv
<1>12. InFlight' = InFlight \cup (IF stop THEN {d} ELSE {e, d})
  BY <1>2, <1>10 DEF InFlight
<1>13. \A a \in InFlight : a.stream \in Streams
  BY InFlightType
<1>14. ItemsInv'
  BY <1>1, <1>2, <1>3, <1>5, <1>6, <1>12, <1>13 DEF FlightInv, ItemsInv, Over
<1>15. EndedInv'
  BY <1>1, <1>2, <1>3, <1>5, <1>6, <1>10 DEF FlightInv, EndedInv, TypeOK
<1>16. ASSUME NEW r \in Streams, Live(r)' PROVE Live(r)
  BY <1>16, <1>1, <1>3, <1>5, <1>6, <1>12 DEF Live
<1>17. ActiveInv'
  BY <1>2, <1>16 DEF FlightInv, ActiveInv
<1>. QED  BY <1>10, <1>11, <1>14, <1>15, <1>17 DEF FlightInv

LEMMA RunCallbackKeeps ==
  ASSUME TypeOK, FlightInv, RunCallback
  PROVE  /\ FlightInv' /\ ready' \in Seq(Callbacks)
         /\ queue' \in Seq(Items) /\ Len(queue') <= Cap
         /\ ended' \in SUBSET Streams /\ InFlight' \subseteq InFlight
<1>1. ready \in Seq(Callbacks) /\ ready # <<>> /\ ready' = Tail(ready)
  BY DEF TypeOK, RunCallback
<1>2. PICK item \in Callbacks : item = Head(ready)
  BY <1>1, TailFacts
<1>3. ready' \in Seq(Callbacks) /\ item \in Range(ready) /\ Range(ready') \subseteq Range(ready)
  BY <1>1, <1>2, TailFacts
<1>4. Ordered(ready') /\ \A b \in Range(ready') : MayFollow(item, b)
  BY <1>1, <1>2, OrderedTail DEF FlightInv, OrderInv
<1>5. passed' = passed /\ delivered' = delivered /\ active' = active /\ reader' = reader
  BY DEF RunCallback, consumerVars, historyVars, pipeVars
<1>6. /\ queue' \in Seq(Items) /\ Len(queue') <= Cap /\ Ordered(queue')
      /\ Range(queue') \subseteq Range(queue) \cup {item}
      /\ item.kind = "done" => queue' = queue
  <2>1. CASE queue' = queue
    BY <2>1 DEF TypeOK, FlightInv, OrderInv
  <2>2. CASE item.kind # "done" /\ queue' = Push(queue, item)
    <3>1. item \in Items
      BY <2>2 DEF Callbacks, Done
    <3>2. \A a \in Range(queue) : MayFollow(a, item)
      BY <1>3 DEF FlightInv, OrderInv
    <3>. QED  BY <2>2, <3>1, <3>2, PushFacts DEF TypeOK, FlightInv, OrderInv
  <2>. QED  BY <2>1, <2>2, <1>2 DEF RunCallback
<1>7. InFlight' \subseteq InFlight
  BY <1>3, <1>6 DEF InFlight
<1>8. OrderInv'
  <2>1. ASSUME NEW a \in Range(queue'), NEW b \in Range(ready') PROVE MayFollow(a, b)
    BY <1>3, <1>4, <1>6 DEF FlightInv, OrderInv
  <2>. QED  BY <1>4, <1>6, <2>1 DEF OrderInv
<1>9. \A a \in InFlight : a.stream \in Streams
  BY InFlightType
<1>10. ItemsInv'
  BY <1>5, <1>7, <1>9 DEF FlightInv, ItemsInv, Over
<1>11. ended' \in SUBSET Streams /\ EndedInv'
  <2>1. item.stream \in Streams
    BY InFlightType
  <2>2. CASE item.kind = "done"
    <3>1. ended' = ended \cup {item.stream}
      BY <1>2, <2>2 DEF RunCallback
    <3>2. reader[item.stream] = "ended"
      BY <1>3, <2>2 DEF FlightInv, ItemsInv, InFlight
    <3>3. \A b \in Range(ready') : b.stream # item.stream
      BY <1>4, <2>2 DEF MayFollow
    <3>. QED  BY <1>3, <1>5, <2>1, <3>1, <3>2, <3>3 DEF FlightInv, EndedInv, TypeOK
  <2>3. CASE item.kind # "done"
    <3>1. ended' = ended
      BY <1>2, <2>3 DEF RunCallback
    <3>. QED  BY <1>3, <1>5, <3>1 DEF FlightInv, EndedInv, TypeOK
  <2>. QED  BY <2>2, <2>3
<1>12. ASSUME NEW r \in Streams, Live(r)' PROVE Live(r)
  BY <1>12, <1>5, <1>7 DEF Live
<1>13. ActiveInv'
  BY <1>5, <1>12 DEF FlightInv, ActiveInv
<1>. QED  BY <1>3, <1>6, <1>7, <1>8, <1>10, <1>11, <1>13 DEF FlightInv

LEMMA GetSentinelKeeps ==
  ASSUME TypeOK, FlightInv, GetSentinel
  PROVE  /\ FlightInv' /\ queue' \in Seq(Items) /\ Len(queue') <= Cap
         /\ active' \in 0 .. 2
<1>1. /\ queue # <<>> /\ queue' = Tail(queue) /\ ready' = ready
      /\ active' = active - 1 /\ ended' = ended
      /\ passed' = passed /\ delivered' = delivered /\ reader' = reader
  BY DEF GetSentinel, historyVars, pipeVars
<1>2. /\ Head(queue) \in Range(queue) /\ Head(queue) \in Items
      /\ queue' \in Seq(Items) /\ Len(queue') <= Cap
      /\ OrderInv' /\ InFlight' \subseteq InFlight
      /\ \A b \in InFlight' : MayFollow(Head(queue), b)
  BY <1>1, TakeKeeps
<1>3. PICK item \in Items : item = Head(queue)
  BY <1>2
<1>4. item \in InFlight /\ item.kind = "eof" /\ item.stream \in Streams
  BY <1>2, <1>3, InFlightType DEF InFlight, GetSentinel
<1>5. \A a \in InFlight : a.stream \in Streams
  BY InFlightType
<1>6. ItemsInv'
  BY <1>1, <1>2, <1>5 DEF FlightInv, ItemsInv, Over
<1>7. EndedInv'
  BY <1>1 DEF FlightInv, EndedInv
<1>8. Live(item.stream)
  BY <1>4 DEF Live
<1>9. ~Live(item.stream)'
  <2>1. reader'[item.stream] = "ended"
    BY <1>1, <1>4 DEF FlightInv, ItemsInv
  <2>2. \A b \in InFlight' : b.stream = item.stream => b.kind \in {"error", "done"}
    BY <1>2, <1>3, <1>4 DEF MayFollow
  <2>. QED  BY <2>1, <2>2 DEF Live
<1>10. ASSUME NEW r \in Streams, Live(r)' PROVE Live(r)
  BY <1>10, <1>1, <1>2 DEF Live
<1>11. active \in 0 .. 2
  BY DEF TypeOK
<1>12. active >= 1
  BY <1>4, <1>8 DEF FlightInv, ActiveInv
<1>13. ASSUME NEW r \in Streams, Live(r)' PROVE active = 2
  <2>1. r # item.stream /\ Live(r)
    BY <1>9, <1>10, <1>13
  <2>2. \A s \in Streams : Live(s)
    BY <1>4, <1>8, <2>1 DEF Streams
  <2>. QED  BY <2>2 DEF FlightInv, ActiveInv
<1>14. ActiveInv'
  <2>1. \A s \in Streams : Live(s)' => active' >= 1
    BY <1>1, <1>13
  <2>2. ~ \A s \in Streams : Live(s)'
    BY <1>4, <1>9
  <2>. QED  BY <2>1, <2>2 DEF ActiveInv
<1>. QED  BY <1>1, <1>2, <1>6, <1>7, <1>11, <1>12, <1>14 DEF FlightInv

LEMMA GetLineKeeps ==
  ASSUME Types, FlightInv, GetLine
  PROVE  /\ FlightInv' /\ InOrder'
         /\ queue' \in Seq(Items) /\ Len(queue') <= Cap
         /\ delivered' \in [Streams -> Seq(Nat)]
         /\ \A s \in Streams : delivered'[s] \in Seq(1 .. passed[s])
<1>1. /\ queue # <<>> /\ queue' = Tail(queue) /\ ready' = ready
      /\ active' = active /\ ended' = ended
      /\ passed' = passed /\ reader' = reader
  BY DEF GetLine, historyVars, pipeVars
<1>2. /\ Head(queue) \in Range(queue) /\ Head(queue) \in Items
      /\ queue' \in Seq(Items) /\ Len(queue') <= Cap
      /\ OrderInv' /\ InFlight' \subseteq InFlight
      /\ \A b \in InFlight' : MayFollow(Head(queue), b)
  BY <1>1, TakeKeeps DEF Types
<1>3. PICK item \in Items : item = Head(queue)
  BY <1>2
<1>4. PICK s \in Streams : s = item.stream
  BY InFlightType DEF Types
<1>5. item \in InFlight /\ item.kind = "line"
  BY <1>2, <1>3 DEF InFlight, GetLine
<1>6. /\ item.n \in 1 .. passed[s]
      /\ \A i \in 1 .. Len(delivered[s]) : delivered[s][i] < item.n
  BY <1>4, <1>5 DEF FlightInv, ItemsInv
<1>7. /\ delivered \in [Streams -> Seq(Nat)] /\ passed \in [Streams -> Nat]
      /\ \A r \in Streams : delivered[r] \in Seq(1 .. passed[r])
  BY DEF Types, TypeOK
<1>8. PICK d \in Seq(1 .. passed[s]) : d = delivered[s]
  BY <1>7
<1>9. delivered' = [delivered EXCEPT ![s] = Append(d, item.n)]
  BY <1>3, <1>4, <1>7, <1>8 DEF GetLine
<1>10. /\ Append(d, item.n) \in Seq(1 .. passed[s])
       /\ Len(Append(d, item.n)) = Len(d) + 1
       /\ \A i \in 1 .. Len(d) : Append(d, item.n)[i] = d[i]
       /\ Append(d, item.n)[Len(d) + 1] = item.n
  BY <1>6, AppendFacts
<1>11. PICK e \in Seq(1 .. passed[s]) : e = Append(d, item.n)
  BY <1>10
<1>12. /\ Len(e) = Len(d) + 1 /\ e[Len(d) + 1] = item.n /\ Len(d) \in Nat
       /\ \A i \in 1 .. Len(d) : e[i] = d[i]
       /\ \A r \in Streams : delivered'[r] = IF r = s THEN e ELSE delivered[r]
  BY <1>7, <1>9, <1>10, <1>11, SeqFacts
<1>13. e \in Seq(Nat)
  BY <1>7, SeqGrows
<1>14. delivered' \in [Streams -> Seq(Nat)]
  BY <1>7, <1>9, <1>11, <1>13
<1>15. \A r \in Streams : delivered'[r] \in Seq(1 .. passed[r])
  BY <1>7, <1>12
<1>16. ASSUME NEW i \in 1 .. Len(e) PROVE e[i] <= item.n /\ (i # Len(e) => e[i] < item.n)
  <2>1. CASE i \in 1 .. Len(d)
    BY <2>1, <1>6, <1>7, <1>8, <1>12, SeqFacts
  <2>2. CASE i = Len(d) + 1
    BY <2>2, <1>6, <1>7, <1>12
  <2>. QED  BY <2>1, <2>2, <1>12
<1>17. InOrder'
  <2>. SUFFICES ASSUME NEW r \in Streams,
                       NEW i \in DOMAIN delivered'[r], NEW j \in DOMAIN delivered'[r], i < j
                PROVE  delivered'[r][i] < delivered'[r][j]
    BY DEF InOrder
  <2>1. CASE r # s
    <3>1. delivered'[r] = delivered[r]
      BY <2>1, <1>12
    <3>. QED  BY <3>1 DEF Types, InOrder
  <2>2. CASE r = s
    <3>1. delivered'[r] = e /\ DOMAIN e = 1 .. Len(e)
      BY <2>2, <1>12, SeqFacts
    <3>2. CASE j = Len(e)
      BY <1>12, <1>16, <3>1, <3>2
    <3>3. CASE j # Len(e)
      <4>1. i \in 1 .. Len(d) /\ j \in 1 .. Len(d)
        BY <1>12, <3>1, <3>3
      <4>2. DOMAIN delivered[s] = 1 .. Len(d)
        BY <1>8, SeqFacts
      <4>3. d[i] < d[j]
        BY <1>8, <4>1, <4>2 DEF Types, InOrder
      <4>. QED  BY <1>12, <3>1, <4>1, <4>3
    <3>. QED  BY <3>2, <3>3
  <2>. QED  BY <2>1, <2>2
<1>18. \A a \in InFlight : a.stream \in Streams
  BY InFlightType DEF Types
<1>19. ItemsInv'
  <2>. SUFFICES ASSUME NEW a \in InFlight'
                PROVE  /\ a.kind = "line" =>
                            /\ a.n \in 1 .. passed'[a.stream]
                            /\ \A i \in 1 .. Len(delivered'[a.stream]) : delivered'[a.stream][i] < a.n
                       /\ a.kind \in {"eof", "done"} => reader'[a.stream] = "ended"
                       /\ a.kind = "error" => Over(a.stream)'
    BY DEF ItemsInv
  <2>1. /\ a.kind = "line" =>
             /\ a.n \in 1 .. passed[a.stream]
             /\ \A i \in 1 .. Len(delivered[a.stream]) : delivered[a.stream][i] < a.n
        /\ a.kind \in {"eof", "done"} => reader[a.stream] = "ended"
        /\ a.kind = "error" => Over(a.stream)
        /\ a.stream \in Streams
    BY <1>2, <1>18 DEF FlightInv, ItemsInv
  <2>2. CASE a.stream # s
    <3>1. delivered'[a.stream] = delivered[a.stream]
      BY <1>12, <2>1, <2>2
    <3>. QED  BY <1>1, <2>1, <3>1 DEF Over
  <2>3. CASE a.stream = s
    <3>1. a.kind = "line" => item.n < a.n
      BY <1>2, <1>3, <1>4, <1>5, <2>3 DEF MayFollow
    <3>2. delivered'[a.stream] = e
      BY <1>12, <2>3
    <3>3. \A i \in 1 .. Len(e) : e[i] \in Nat
      BY <1>13, SeqFacts
    <3>4. a.kind = "line" => \A i \in 1 .. Len(e) : e[i] < a.n
      BY <1>6, <1>7, <1>16, <2>1, <2>3, <3>1, <3>3
    <3>. QED  BY <1>1, <2>1, <3>2, <3>4 DEF Over
  <2>. QED  BY <2>2, <2>3
<1>20. EndedInv'
  BY <1>1 DEF FlightInv, EndedInv
<1>21. ASSUME NEW r \in Streams, Live(r)' PROVE Live(r)
  BY <1>21, <1>1, <1>2 DEF Live
<1>22. ActiveInv'
  BY <1>1, <1>21 DEF FlightInv, ActiveInv
<1>. QED  BY <1>2, <1>14, <1>15, <1>17, <1>19, <1>20, <1>22 DEF FlightInv

LEMMA PopenKeeps ==
  ASSUME TypeOK, Popen
  PROVE  FlightInv' /\ ready' \in Seq(Callbacks) /\ queue' \in Seq(Items) /\ Len(queue') <= Cap
<1>1. /\ ready' = <<>> /\ queue' = <<>> /\ ended' = {} /\ active' = 2
  BY DEF Popen
<1>2. InFlight' = {} /\ Range(queue') = {} /\ Range(ready') = {}
  BY <1>1, EmptyRange DEF InFlight
<1>3. OrderInv'
  BY <1>1, <1>2 DEF OrderInv, Ordered
<1>4. ItemsInv' /\ EndedInv' /\ ActiveInv'
  BY <1>1, <1>2 DEF ItemsInv, EndedInv, ActiveInv
<1>. QED  BY <1>1, <1>3, <1>4, StreamAssumption DEF FlightInv

-----------------------------------------------------------------------------
(***************************************************************************)
(* The other steps.                                                        *)
(***************************************************************************)
\* A reader's step that passes nothing on; one of the consumer or of cleanup() that takes nothing.
ReaderMoves(s) == ReaderLoop(s) \/ ReaderCall(s) \/ ReadEof(s)

ConsumerMoves ==
  \/ PopenFails \/ Check \/ GetError \/ GetTimesOut \/ Gather
  \/ WaitProc \/ CloseStdout \/ CloseStderr \/ Kill \/ Cleaned \/ Join \/ Cancel

Moves == Exit \/ Disconnect \/ ConsumerMoves \/ UNCHANGED vars \/ \E s \in Streams : ReaderMoves(s)

LEMMA NextSteps ==
  ASSUME [Next]_vars
  PROVE  \/ Moves \/ Popen \/ GetSentinel \/ GetLine \/ RunCallback
         \/ \E s \in Streams : ReadLine(s) \/ ReadError(s) \/ ReaderFinal(s)
BY DEF Next, Consume, Clean, Read, Moves, ConsumerMoves, ReaderMoves

LEMMA MovesAreQuiet ==
  ASSUME TypeOK, Moves
  PROVE  Quiet
<1>1. CASE Exit
  BY <1>1 DEF Exit, Quiet, pipeVars, queueVars, consumerVars, historyVars, Over
<1>2. CASE Disconnect
  BY <1>2 DEF Disconnect, Quiet, pipeVars, queueVars, consumerVars, historyVars, Over
<1>3. CASE UNCHANGED vars
  BY <1>3 DEF vars, Quiet, Over
<1>4. ASSUME NEW s \in Streams, ReaderMoves(s) PROVE Quiet
  <2>1. PICK from, to : Goto(s, from, to) /\ from \notin {"final", "ended"} /\ to # "ended"
    BY <1>4 DEF ReaderMoves, ReaderLoop, ReaderCall, ReadEof
  <2>2. \A r \in Streams : /\ reader'[r] = "ended" <=> reader[r] = "ended"
                           /\ Over(r) => Over(r)'
    BY <2>1, ReaderFacts DEF Over
  <2>. QED  BY <1>4, <2>2 DEF ReaderMoves, ReaderLoop, ReaderCall, ReadEof, Quiet,
              queueVars, consumerVars, historyVars
<1>5. CASE ConsumerMoves
  BY <1>5 DEF ConsumerMoves, PopenFails, Check, GetError, GetTimesOut, Gather, WaitProc,
    CloseStdout, CloseStderr, Close, Kill, Join, CleanUp, Leave, Advance, Cancel, Cleaned,
    Quiet, Over, pipeVars, queueVars, historyVars
<1>. QED  BY <1>1, <1>2, <1>3, <1>4, <1>5 DEF Moves

\* The types that rest on what is in flight.
FlightTypes ==
  /\ ready \in Seq(Callbacks)
  /\ queue \in Seq(Items) /\ Len(queue) <= Cap
  /\ ended \in SUBSET Streams /\ active \in 0 .. 2
  /\ passed \in [Streams -> Nat] /\ \A s \in Streams : passed[s] <= Lines[s]
  /\ delivered \in [Streams -> Seq(Nat)]
  /\ \A s \in Streams : delivered[s] \in Seq(1 .. passed[s])

LEMMA FlightStep ==
  ASSUME Types, FlightInv, [Next]_vars
  PROVE  FlightInv' /\ FlightTypes' /\ InOrder'
<1>. USE DEF Types
<1>1. CASE Moves
  <2>1. Quiet
    BY <1>1, MovesAreQuiet
  <2>. QED  BY <2>1, QuietKeeps DEF Quiet, FlightTypes, TypeOK, InOrder
<1>2. CASE Popen
  <2>1. FlightInv' /\ ready' \in Seq(Callbacks) /\ queue' \in Seq(Items) /\ Len(queue') <= Cap
    BY <1>2, PopenKeeps
  <2>2. ended' = {} /\ active' = 2 /\ passed' = passed /\ delivered' = delivered
    BY <1>2 DEF Popen
  <2>3. FlightTypes'
    BY <2>1, <2>2 DEF FlightTypes, TypeOK
  <2>4. InOrder'
    BY <2>2 DEF InOrder
  <2>. QED  BY <2>1, <2>3, <2>4
<1>3. CASE GetSentinel
  BY <1>3, GetSentinelKeeps DEF GetSentinel, FlightTypes, TypeOK, InOrder, historyVars
<1>4. CASE GetLine
  BY <1>4, GetLineKeeps DEF GetLine, FlightTypes, TypeOK, historyVars
<1>5. CASE RunCallback
  BY <1>5, RunCallbackKeeps DEF RunCallback, FlightTypes, TypeOK, InOrder, historyVars, consumerVars
<1>6. ASSUME NEW s \in Streams, ReadLine(s) PROVE FlightInv' /\ FlightTypes' /\ InOrder'
  <2>1. FlightInv' /\ ready' \in Seq(Callbacks)
    BY <1>6, ReadLineKeeps
  <2>2. /\ queue' = queue /\ ended' = ended /\ active' = active /\ delivered' = delivered
        /\ passed' = IF stop THEN passed ELSE [passed EXCEPT ![s] = @ + 1]
        /\ stop \/ passed[s] < Lines[s]
    BY <1>6 DEF ReadLine, consumerVars
  <2>3. /\ passed' \in [Streams -> Nat]
        /\ \A r \in Streams : passed'[r] <= Lines[r] /\ 1 .. passed[r] \subseteq 1 .. passed'[r]
    BY <2>2, StreamAssumption DEF TypeOK
  <2>4. ASSUME NEW r \in Streams PROVE delivered[r] \in Seq(1 .. passed'[r])
    <3>1. delivered[r] \in Seq(1 .. passed[r]) /\ 1 .. passed[r] \subseteq 1 .. passed'[r]
      BY <2>3 DEF TypeOK
    <3>. QED  BY <3>1, SeqGrows
  <2>. QED  BY <2>1, <2>2, <2>3, <2>4 DEF FlightTypes, TypeOK, InOrder
<1>7. ASSUME NEW s \in Streams, ReadError(s) PROVE FlightInv' /\ FlightTypes' /\ InOrder'
  BY <1>7, ReadErrorKeeps DEF ReadError, FlightTypes, TypeOK, InOrder, consumerVars
<1>8. ASSUME NEW s \in Streams, ReaderFinal(s) PROVE FlightInv' /\ FlightTypes' /\ InOrder'
  BY <1>8, ReaderFinalKeeps DEF ReaderFinal, FlightTypes, TypeOK, InOrder, consumerVars, historyVars
<1>. QED  BY <1>1, <1>2, <1>3, <1>4, <1>5, <1>6, <1>7, <1>8, NextSteps

\* What a step may do to the labels and flags.
ControlTypes ==
  /\ child \in {"none", "running", "exited"} /\ code \in {"ok", "refused", "failed"}
  /\ reader \in [Streams -> {"none", "loop", "call", "readline", "final", "ended"}]
  /\ closed \in SUBSET Streams /\ stop \in BOOLEAN
  /\ pc \in Awaiting \cup {"start", "end", "left"}
  /\ cleaner \in Cleaning \cup {"none", "done"}
  /\ retry \in BOOLEAN /\ attempt \in 1 .. MaxRetries /\ gone \in BOOLEAN
  /\ failed \in SUBSET Streams

LEMMA ControlStep ==
  ASSUME ControlTypes, [Next]_vars
  PROVE  ControlTypes'
<1>. USE DEF ControlTypes
<1>1. CASE UNCHANGED vars
  BY <1>1 DEF vars
<1>2. CASE Exit
  BY <1>2 DEF Exit, pipeVars, consumerVars, historyVars
<1>3. CASE Disconnect
  BY <1>3 DEF Disconnect, pipeVars, childVars, consumerVars, historyVars
<1>4. CASE RunCallback
  BY <1>4 DEF RunCallback, childVars, pipeVars, consumerVars, historyVars
<1>5. ASSUME NEW s \in Streams, Read(s) \/ ReadLine(s) \/ ReadError(s)
      PROVE  ControlTypes'
  BY <1>5 DEF Read, ReaderLoop, ReaderCall, ReadEof, ReaderFinal, ReadLine, ReadError, Goto,
    childVars, consumerVars, historyVars
<1>6. CASE Popen \/ PopenFails
  BY <1>6 DEF Popen, PopenFails, InBody, Awaiting, childVars, pipeVars, historyVars
<1>7. CASE Check \/ GetError \/ GetTimesOut \/ Gather \/ Cleaned \/ Cancel
  BY <1>7 DEF Check, GetError, GetTimesOut, Gather, CleanUp, Leave, Advance, Cancel, Cleaned, Cleaning, InBody, Awaiting,
    childVars, pipeVars, historyVars
<1>8. CASE GetSentinel \/ GetLine
  BY <1>8 DEF GetSentinel, GetLine, Leave, Cleaning, InBody, Awaiting, childVars, pipeVars, historyVars
<1>9. CASE WaitProc \/ CloseStdout \/ CloseStderr \/ Kill
  BY <1>9 DEF WaitProc, Leave, CloseStdout, CloseStderr, Close, Kill, Cleaning, InBody, Awaiting, Streams,
    childVars, pipeVars, historyVars
<1>10. CASE Join
  BY <1>10, StreamAssumption DEF Join, InBody, Awaiting, childVars, pipeVars, historyVars
<1>. QED
  BY <1>1, <1>2, <1>3, <1>4, <1>5, <1>6, <1>7, <1>8, <1>9, <1>10 DEF Next, Consume, Clean

LEMMA TypeSplit == TypeOK <=> FlightTypes /\ ControlTypes
BY DEF TypeOK, FlightTypes, ControlTypes

LEMMA TypesStep ==
  ASSUME Types, FlightInv, [Next]_vars
  PROVE  Types' /\ FlightInv'
<1>1. ControlTypes'
  BY TypeSplit, ControlStep DEF Types
<1>2. FlightInv' /\ FlightTypes' /\ InOrder'
  BY FlightStep
<1>3. TypeOK'
  BY <1>1, <1>2 DEF TypeOK, FlightTypes, ControlTypes
<1>. QED  BY <1>2, <1>3 DEF Types

-----------------------------------------------------------------------------
(***************************************************************************)
(* The end of a stream.                                                    *)
(***************************************************************************)
LEMMA LeftStep ==
  ASSUME StreamInv, [Next]_vars
  PROVE  LeftInv'
<1>1. SUFFICES ASSUME pc' \in {"gather", "exited"}
               PROVE  /\ \A s \in Streams : reader'[s] = "ended"
                      /\ \A a \in InFlight' : a.kind # "line"
  BY DEF LeftInv
<1>. USE DEF StreamInv, Types
<1>2. CASE Moves
  <2>1. Quiet /\ InFlight' = InFlight
    BY <1>2, MovesAreQuiet DEF Quiet, InFlight
  <2>2. CASE pc \in {"gather", "exited"}
    BY <2>1, <2>2 DEF LeftInv, Quiet
  <2>3. CASE pc \notin {"gather", "exited"}
    <3>1. /\ Check \/ GetTimesOut
          /\ active = 0 \/ Drained
      BY <1>1, <1>2, <2>3 DEF Moves, ConsumerMoves, ReaderMoves, vars, Exit, Disconnect,
        ReaderLoop, ReaderCall, ReadEof, PopenFails, Check, GetError, GetTimesOut, Gather, WaitProc,
        CloseStdout, CloseStderr, Close, Kill, Join, CleanUp, Leave, Advance, Cancel, Cleaned, consumerVars
    <3>2. CASE active = 0
      <4>1. \A s \in Streams : ~Live(s)
        BY <3>2 DEF FlightInv, ActiveInv
      <4>2. \A a \in InFlight : a.stream \in Streams
        BY InFlightType
      <4>. QED  BY <2>1, <4>1, <4>2 DEF Live, Quiet
    <3>3. CASE Drained
      <4>1. ended = Streams /\ InFlight = Range(ready)
        BY <3>3, EmptyRange DEF Drained, InFlight
      <4>2. \A a \in InFlight : a.stream \in Streams
        BY InFlightType
      <4>3. InFlight = {} /\ \A s \in Streams : reader[s] = "ended"
        BY <4>1, <4>2 DEF FlightInv, EndedInv
      <4>. QED  BY <2>1, <4>3 DEF Quiet
    <3>. QED  BY <3>1, <3>2, <3>3
  <2>. QED  BY <2>2, <2>3
<1>3. CASE Popen \/ GetSentinel \/ GetLine
  BY <1>1, <1>3 DEF Popen, GetSentinel, GetLine, Leave
<1>4. CASE RunCallback
  <2>1. pc' = pc /\ reader' = reader /\ InFlight' \subseteq InFlight
    BY <1>4, RunCallbackKeeps DEF RunCallback, consumerVars, pipeVars
  <2>. QED  BY <1>1, <2>1 DEF LeftInv
<1>5. ASSUME NEW s \in Streams, ReadLine(s) \/ ReadError(s) \/ ReaderFinal(s)
      PROVE  FALSE
  <2>1. reader[s] # "ended" /\ pc' = pc
    BY <1>5 DEF ReadLine, ReadError, ReaderFinal, Goto, consumerVars
  <2>. QED  BY <1>1, <2>1 DEF LeftInv
<1>. QED  BY <1>2, <1>3, <1>4, <1>5, NextSteps

LEMMA RestStep ==
  ASSUME StreamInv, [Next]_vars
  PROVE  RestInv'
<1>. USE DEF StreamInv, Types, ReaderOver
<1>1. CASE UNCHANGED vars
  BY <1>1 DEF vars, RestInv
<1>2. CASE Exit
  BY <1>2 DEF Exit, RestInv, pipeVars, consumerVars
<1>3. CASE Disconnect
  BY <1>3 DEF Disconnect, RestInv, pipeVars, childVars, consumerVars
<1>4. CASE RunCallback
  BY <1>4 DEF RunCallback, RestInv, childVars, pipeVars, consumerVars
<1>5. ASSUME NEW s \in Streams, Read(s) \/ ReadLine(s) \/ ReadError(s)
      PROVE  RestInv'
  <2>1. /\ reader[s] \notin {"none", "ended"}
        /\ pc' = pc /\ child' = child /\ cleaner' = cleaner /\ closed' = closed
        /\ \A q \in Streams : q # s => reader'[q] = reader[q]
        /\ reader'[s] = "readline" => s \notin closed
    BY <1>5 DEF Read, ReaderLoop, ReaderCall, ReadEof, ReaderFinal, ReadLine, ReadError, Goto,
      childVars, consumerVars, TypeOK
  <2>2. closed \subseteq Streams
    BY DEF TypeOK
  <2>. QED  BY <2>1, <2>2 DEF RestInv
<1>6. CASE Popen \/ PopenFails
  BY <1>6 DEF Popen, PopenFails, RestInv, Cleaning, childVars, pipeVars
<1>7. CASE Check \/ GetError \/ GetTimesOut \/ Gather \/ Cleaned \/ Cancel
  BY <1>7 DEF Check, GetError, GetTimesOut, Gather, CleanUp, Leave, Advance, Cancel, Cleaned, RestInv, Cleaning, InBody, childVars, pipeVars
<1>8. CASE GetSentinel \/ GetLine
  BY <1>8 DEF GetSentinel, GetLine, Leave, RestInv, Cleaning, childVars, pipeVars
<1>9. CASE WaitProc \/ Kill
  BY <1>9 DEF WaitProc, Leave, Kill, RestInv, Cleaning, childVars, pipeVars
<1>11. CASE CloseStdout \/ CloseStderr
  BY <1>11 DEF CloseStdout, CloseStderr, Close, RestInv, Cleaning, Streams, childVars, TypeOK
<1>10. CASE Join
  <2>1. /\ ended = Streams /\ pc = "join"
        /\ child' = child /\ reader' = reader /\ cleaner' = cleaner /\ closed' = closed
        /\ pc' \in {"start", "end"}
    BY <1>10 DEF Join, childVars, pipeVars
  <2>2. \A s \in Streams : reader[s] = "ended"
    BY <2>1 DEF FlightInv, EndedInv
  <2>. QED  BY <2>1, <2>2 DEF RestInv
<1>. QED
  BY <1>1, <1>2, <1>3, <1>4, <1>5, <1>6, <1>7, <1>8, <1>9, <1>10, <1>11 DEF Next, Consume, Clean

LEMMA StreamInit == Init => StreamInv
<1>. SUFFICES ASSUME Init PROVE StreamInv
  OBVIOUS
<1>1. InFlight = {} /\ Range(queue) = {} /\ Range(ready) = {}
  BY EmptyRange DEF Init, InFlight
<1>2. TypeOK
  <2>1. \A R : <<>> \in Seq(R)
    OBVIOUS
  <2>2. delivered \in [Streams -> Seq(Nat)] /\ \A s \in Streams : delivered[s] \in Seq(1 .. passed[s])
    BY <2>1 DEF Init
  <2>3. passed \in [Streams -> Nat] /\ \A s \in Streams : passed[s] <= Lines[s]
    BY StreamAssumption DEF Init
  <2>4. ready \in Seq(Callbacks) /\ queue \in Seq(Items) /\ Len(queue) <= Cap
    BY <2>1, StreamAssumption DEF Init
  <2>5. FlightTypes
    BY <2>2, <2>3, <2>4 DEF Init, FlightTypes
  <2>6. ControlTypes
    <3>1. 1 \in 1 .. MaxRetries
      BY StreamAssumption
    <3>2. reader \in [Streams -> {"none", "loop", "call", "readline", "final", "ended"}]
      BY DEF Init
    <3>3. /\ child = "none" /\ code = "ok" /\ closed = {} /\ stop = FALSE
          /\ pc = "start" /\ cleaner = "none" /\ retry = FALSE /\ attempt = 1 /\ gone = FALSE /\ failed = {}
      BY DEF Init
    <3>. QED  BY <3>1, <3>2, <3>3 DEF ControlTypes
  <2>. QED  BY <2>5, <2>6, TypeSplit
<1>3. InOrder
  BY DEF Init, InOrder
<1>4. OrderInv
  BY <1>1 DEF Init, OrderInv, Ordered
<1>5. ItemsInv /\ EndedInv /\ ActiveInv
  BY <1>1 DEF Init, ItemsInv, EndedInv, ActiveInv
<1>6. LeftInv /\ RestInv
  BY DEF Init, LeftInv, RestInv, ReaderOver
<1>. QED  BY <1>2, <1>3, <1>4, <1>5, <1>6 DEF StreamInv, Types, FlightInv

THEOREM StreamInvariant == Spec => []StreamInv
<1>1. StreamInv /\ [Next]_vars => StreamInv'
  BY TypesStep, LeftStep, RestStep DEF StreamInv
<1>. QED  BY <1>1, StreamInit, PTL DEF Spec

\* The queue stays within its bound and the count of streams within 0 .. 2, however ends are
\* rotated, given up and counted (_push, active_streams).
THEOREM StreamTypes == Spec => []TypeOK
<1>1. StreamInv => TypeOK
  BY DEF StreamInv, Types
<1>. QED  BY <1>1, StreamInvariant, PTL

\* The client is sent each stream's lines in order, each at most once, through the threads,
\* the callbacks, the full queue and the retries.
THEOREM LinesInOrder == Spec => []InOrder
<1>1. StreamInv => InOrder
  BY DEF StreamInv, Types
<1>. QED  BY <1>1, StreamInvariant, PTL

LEMMA RangeConcat ==
  ASSUME NEW R, NEW p \in Seq(R), NEW q \in Seq(R), NEW x \in Range(p \o q)
  PROVE  x \in Range(p) \cup Range(q)
<1>1. /\ Len(p) \in Nat /\ Len(q) \in Nat /\ DOMAIN p = 1 .. Len(p) /\ DOMAIN q = 1 .. Len(q)
      /\ p \o q \in Seq(R) /\ Len(p \o q) = Len(p) + Len(q)
      /\ \A i \in 1 .. Len(p \o q) : (p \o q)[i] = IF i <= Len(p) THEN p[i] ELSE q[i - Len(p)]
  BY SeqFacts
<1>2. DOMAIN (p \o q) = 1 .. Len(p \o q)
  BY <1>1, SeqFacts
<1>3. PICK i \in 1 .. Len(p \o q) : x = (p \o q)[i]
  BY <1>2 DEF Range
<1>4. CASE i <= Len(p)
  BY <1>1, <1>3, <1>4 DEF Range
<1>5. CASE ~(i <= Len(p))
  <2>1. i - Len(p) \in 1 .. Len(q) /\ x = q[i - Len(p)]
    BY <1>1, <1>3, <1>5
  <2>. QED  BY <1>1, <2>1 DEF Range
<1>. QED  BY <1>4, <1>5

\* When the consumer takes the streams for ended, by its count or by the readers' futures, no
\* line is still on its way to it.
THEOREM NothingIsLeft == Spec => []NothingLeftBehind
<1>1. ASSUME StreamInv PROVE NothingLeftBehind
  <2>. SUFFICES ASSUME pc \in {"gather", "exited"}, NEW s \in Streams
                PROVE  LinesIn(ready \o queue, s) = {}
    BY DEF NothingLeftBehind
  <2>1. queue \in Seq(Callbacks) /\ ready \in Seq(Callbacks)
    BY <1>1, InFlightType, SeqGrows DEF StreamInv, Types, TypeOK
  <2>2. \A x \in Range(ready \o queue) : x.kind # "line"
    BY <1>1, <2>1, RangeConcat DEF StreamInv, LeftInv, InFlight
  <2>. QED  BY <2>2 DEF LinesIn
<1>. QED  BY <1>1, StreamInvariant, PTL

\* A generator that has ended has left neither `docker logs` nor a reader thread behind;
\* one that was cancelled while it awaited them in its `finally` has left the child to a
\* cleanup() at work and no reader in a read of a closed pipe.
THEOREM NothingRuns == Spec => []ResourcesReleased
<1>1. StreamInv => ResourcesReleased
  BY DEF StreamInv, RestInv, ResourcesReleased
<1>. QED  BY <1>1, StreamInvariant, PTL

-----------------------------------------------------------------------------
(***************************************************************************)
(* A reader's error.  It is given up only for the other stream's end, on a *)
(* full queue that begins with its own stream's end and the error itself.  *)
(* An end stands before an error of its stream only once the error was put *)
(* back behind it; Cap - 1 lines of the other stream had come by then, and *)
(* the lines behind the error are Cap - 2 more.                            *)
(***************************************************************************)
IsEof(x, s) == x.kind = "eof" /\ x.stream = s
IsError(x, s) == x.kind = "error" /\ x.stream = s

\* The callbacks bring the end of a stream after all the rest of it.
Arrives(a, b) == a.stream = b.stream /\ a.kind = "eof" => b.kind = "done"

Arriving(q) == \A i, j \in 1 .. Len(q) : i < j => Arrives(q[i], q[j])

ArriveInv == Arriving(ready) /\ \A a \in Range(queue), b \in Range(ready) : Arrives(a, b)

\* An error among the callbacks has its stream's end yet to come.
ToEnd ==
  \A a \in Range(ready) : a.kind = "error" =>
    reader[a.stream] # "ended" \/ \E b \in Range(ready) : IsEof(b, a.stream)

\* An error of s stands behind the end of s.
Crossed(q, s) == \E i, j \in 1 .. Len(q) : i < j /\ IsEof(q[i], s) /\ IsError(q[j], s)

\* All that stands behind an error is lines of the other stream, one end excepted; if that
\* end went before the error, they are not the first lines.
Spaced(q) ==
  \A j, k \in 1 .. Len(q) : j < k /\ q[j].kind = "error" /\ q[k].kind = "line" =>
    /\ (\A i \in j .. k : ~IsEof(q[i], q[j].stream)) => q[k].n >= k - j
    /\ q[k].n >= k - j - 1
    /\ (\E i \in 1 .. j : IsEof(q[i], q[j].stream)) => q[k].n >= Cap + (k - j) - 1

\* The consumer counts more streams than there are ends before an error.
Ahead(q, m) ==
  \A j \in 1 .. Len(q) : q[j].kind = "error" =>
    /\ m >= 1
    /\ \A i \in 1 .. j : q[i].kind = "eof" =>
         m = 2 /\ \A h \in 1 .. j : q[h].kind = "eof" => q[h].stream = q[i].stream

\* Once an error is behind its stream's end, the other stream's first lines have been passed.
CrossInv ==
  \A s, t \in Streams : Crossed(queue, s) /\ s # t =>
    /\ \A b \in Range(ready) : b.kind = "line" /\ b.stream = t => b.n >= Cap
    /\ Over(t) \/ passed[t] >= Cap - 1

ManyLines == passed["stdout"] + passed["stderr"] >= 2 * Cap - 3

\* An error of this attempt is on its way, or was given up for many lines.
Coming ==
  pc \in {"check", "get", "gather", "exited"} /\ failed # {} =>
    ManyLines \/ (pc \in {"check", "get"} /\ \E a \in InFlight : a.kind = "error")

PlacesInv == ArriveInv /\ ToEnd /\ Spaced(queue) /\ Ahead(queue, active) /\ CrossInv

ErrorInv == ~stop => PlacesInv /\ Coming

StopInv == stop => pc \notin {"check", "get", "gather", "exited"}

\* Taking the head.
LEMMA SpacedTail ==
  ASSUME NEW q \in Seq(Items), q # <<>>, Spaced(q)
  PROVE  Spaced(Tail(q))
<1>1. PICK p \in Seq(Items) : p = Tail(q)
  BY TailFacts
<1>2. /\ Len(q) \in Nat /\ Len(p) = Len(q) - 1
      /\ \A i \in 1 .. Len(p) : p[i] = q[i + 1]
  BY <1>1, TailFacts, SeqFacts
<1>. SUFFICES ASSUME NEW j \in 1 .. Len(p), NEW k \in 1 .. Len(p), j < k,
                     p[j].kind = "error", p[k].kind = "line"
              PROVE  /\ (\A i \in j .. k : ~IsEof(p[i], p[j].stream)) => p[k].n >= k - j
                     /\ p[k].n >= k - j - 1
                     /\ (\E i \in 1 .. j : IsEof(p[i], p[j].stream)) => p[k].n >= Cap + (k - j) - 1
  BY <1>1 DEF Spaced
<1>3. /\ j + 1 \in 1 .. Len(q) /\ k + 1 \in 1 .. Len(q) /\ j + 1 < k + 1
      /\ p[j] = q[j + 1] /\ p[k] = q[k + 1] /\ (k + 1) - (j + 1) = k - j
  BY <1>2
<1>4. /\ (\A i \in j + 1 .. k + 1 : ~IsEof(q[i], p[j].stream)) => p[k].n >= k - j
      /\ p[k].n >= k - j - 1
      /\ (\E i \in 1 .. j + 1 : IsEof(q[i], p[j].stream)) => p[k].n >= Cap + (k - j) - 1
  BY <1>3 DEF Spaced
<1>5. ASSUME \A i \in j .. k : ~IsEof(p[i], p[j].stream)
      PROVE  \A i \in j + 1 .. k + 1 : ~IsEof(q[i], p[j].stream)
  <2>. TAKE i \in j + 1 .. k + 1
  <2>1. i - 1 \in j .. k /\ i - 1 \in 1 .. Len(p) /\ (i - 1) + 1 = i
    BY <1>2
  <2>. QED  BY <2>1, <1>2, <1>5
<1>6. ASSUME NEW i \in 1 .. j, IsEof(p[i], p[j].stream)
      PROVE  \E h \in 1 .. j + 1 : IsEof(q[h], p[j].stream)
  <2>1. i \in 1 .. Len(p) /\ i + 1 \in 1 .. j + 1
    BY <1>2
  <2>2. p[i] = q[i + 1]
    BY <1>2, <2>1
  <2>. QED  BY <2>1, <2>2, <1>6
<1>. QED  BY <1>4, <1>5, <1>6

LEMMA AheadTail ==
  ASSUME NEW q \in Seq(Items), q # <<>>, NEW m, Ahead(q, m)
  PROVE  Ahead(Tail(q), m)
<1>1. PICK p \in Seq(Items) : p = Tail(q)
  BY TailFacts
<1>2. /\ Len(q) \in Nat /\ Len(p) = Len(q) - 1
      /\ \A i \in 1 .. Len(p) : p[i] = q[i + 1]
  BY <1>1, TailFacts, SeqFacts
<1>. SUFFICES ASSUME NEW j \in 1 .. Len(p), p[j].kind = "error"
              PROVE  /\ m >= 1
                     /\ \A i \in 1 .. j : p[i].kind = "eof" =>
                          m = 2 /\ \A h \in 1 .. j : p[h].kind = "eof" => p[h].stream = p[i].stream
  BY <1>1 DEF Ahead
<1>3. j + 1 \in 1 .. Len(q) /\ p[j] = q[j + 1]
  BY <1>2
<1>4. /\ m >= 1
      /\ \A i \in 1 .. j + 1 : q[i].kind = "eof" =>
           m = 2 /\ \A h \in 1 .. j + 1 : q[h].kind = "eof" => q[h].stream = q[i].stream
  BY <1>3 DEF Ahead
<1>5. ASSUME NEW i \in 1 .. j PROVE i + 1 \in 1 .. j + 1 /\ p[i] = q[i + 1]
  <2>1. i \in 1 .. Len(p) /\ i + 1 \in 1 .. j + 1
    BY <1>2
  <2>. QED  BY <1>2, <2>1
<1>6. ASSUME NEW i \in 1 .. j, p[i].kind = "eof"
      PROVE  m = 2 /\ \A h \in 1 .. j : p[h].kind = "eof" => p[h].stream = p[i].stream
  <2>1. /\ i + 1 \in 1 .. j + 1 /\ q[i + 1].kind = "eof" /\ q[i + 1].stream = p[i].stream
    BY <1>5, <1>6
  <2>2. m = 2 /\ \A h \in 1 .. j + 1 : q[h].kind = "eof" => q[h].stream = p[i].stream
    BY <1>4, <2>1
  <2>. QED  BY <1>5, <2>2
<1>. QED  BY <1>4, <1>6

LEMMA CrossedTail ==
  ASSUME NEW q \in Seq(Items), q # <<>>, NEW s, Crossed(Tail(q), s)
  PROVE  Crossed(q, s)
<1>1. PICK p \in Seq(Items) : p = Tail(q)
  BY TailFacts
<1>2. /\ Len(q) \in Nat /\ Len(p) = Len(q) - 1
      /\ \A i \in 1 .. Len(p) : p[i] = q[i + 1]
  BY <1>1, TailFacts, SeqFacts
<1>3. PICK i \in 1 .. Len(p), j \in 1 .. Len(p) : i < j /\ IsEof(p[i], s) /\ IsError(p[j], s)
  BY <1>1 DEF Crossed
<1>4. /\ i + 1 \in 1 .. Len(q) /\ j + 1 \in 1 .. Len(q) /\ i + 1 < j + 1
      /\ p[i] = q[i + 1] /\ p[j] = q[j + 1]
  BY <1>2, <1>3
<1>. QED  BY <1>3, <1>4 DEF Crossed

\* Putting at the back.
LEMMA CrossedAppend ==
  ASSUME NEW q \in Seq(Items), NEW x \in Items, NEW s, Crossed(Append(q, x), s)
  PROVE  Crossed(q, s) \/ (IsError(x, s) /\ \E a \in Range(q) : IsEof(a, s))
<1>1. PICK p \in Seq(Items) : p = Append(q, x)
  BY AppendFacts
<1>2. /\ Len(q) \in Nat /\ Len(p) = Len(q) + 1 /\ p[Len(q) + 1] = x
      /\ \A i \in 1 .. Len(q) : p[i] = q[i] /\ q[i] \in Range(q)
  BY <1>1, AppendFacts, SeqFacts DEF Range
<1>3. PICK i \in 1 .. Len(p), j \in 1 .. Len(p) : i < j /\ IsEof(p[i], s) /\ IsError(p[j], s)
  BY <1>1 DEF Crossed
<1>4. i \in 1 .. Len(q) /\ (j \in 1 .. Len(q) \/ j = Len(q) + 1)
  BY <1>2, <1>3
<1>. QED  BY <1>2, <1>3, <1>4 DEF Crossed

\* The consumer counts more streams than there are ends in q.
Counted(q, m) ==
  /\ m >= 1
  /\ \A a, b \in Range(q) : a.kind = "eof" => m = 2 /\ (b.kind = "eof" => b.stream = a.stream)

LEMMA AheadAppend ==
  ASSUME NEW q \in Seq(Items), NEW x \in Items, NEW m, Ahead(q, m), Counted(q, m)
  PROVE  Ahead(Append(q, x), m)
<1>1. PICK p \in Seq(Items) : p = Append(q, x)
  BY AppendFacts
<1>2. /\ Len(q) \in Nat /\ Len(p) = Len(q) + 1 /\ p[Len(q) + 1] = x
      /\ \A i \in 1 .. Len(q) : p[i] = q[i] /\ q[i] \in Range(q)
  BY <1>1, AppendFacts, SeqFacts DEF Range
<1>. SUFFICES ASSUME NEW j \in 1 .. Len(p), p[j].kind = "error"
              PROVE  /\ m >= 1
                     /\ \A i \in 1 .. j : p[i].kind = "eof" =>
                          m = 2 /\ \A h \in 1 .. j : p[h].kind = "eof" => p[h].stream = p[i].stream
  BY <1>1 DEF Ahead
<1>3. CASE j \in 1 .. Len(q)
  <2>1. \A i \in 1 .. j : p[i] = q[i]
    BY <1>2, <1>3
  <2>. QED  BY <1>3, <2>1 DEF Ahead
<1>4. CASE j = Len(q) + 1
  <2>1. x.kind = "error"
    BY <1>2, <1>4
  <2>2. \A i \in 1 .. j : p[i].kind = "eof" => i \in 1 .. Len(q) /\ p[i] \in Range(q)
    BY <1>2, <1>4, <2>1
  <2>. QED  BY <2>1, <2>2 DEF Counted
<1>. QED  BY <1>2, <1>3, <1>4

\* A line that may be put behind q.
Fits(q, x) ==
  /\ x.n >= 1 /\ \A a \in Range(q) : MayFollow(a, x)
  /\ \A s \in Streams : Crossed(q, s) /\ s # x.stream => x.n >= Cap

LEMMA SpacedAppend ==
  ASSUME NEW q \in Seq(Items), NEW x \in Items,
         Ordered(q), Spaced(q), x.kind = "line" => Fits(q, x)
  PROVE  Spaced(Append(q, x))
<1>1. PICK p \in Seq(Items) : p = Append(q, x)
  BY AppendFacts
<1>2. PICK m \in Nat : m = Len(q)
  BY SeqFacts
<1>3. /\ Len(p) = m + 1 /\ p[m + 1] = x
      /\ \A i \in 1 .. m : p[i] = q[i] /\ q[i] \in Range(q) /\ q[i] \in Items
  BY <1>1, <1>2, AppendFacts, SeqFacts DEF Range
<1>. SUFFICES ASSUME NEW j \in 1 .. m + 1, NEW k \in 1 .. m + 1, j < k,
                     p[j].kind = "error", p[k].kind = "line"
              PROVE  /\ (\A i \in j .. k : ~IsEof(p[i], p[j].stream)) => p[k].n >= k - j
                     /\ p[k].n >= k - j - 1
                     /\ (\E i \in 1 .. j : IsEof(p[i], p[j].stream)) => p[k].n >= Cap + (k - j) - 1
  BY <1>1, <1>3 DEF Spaced
<1>4. j \in 1 .. m /\ p[j] = q[j] /\ \A i \in 1 .. j : p[i] = q[i]
  BY <1>3
<1>5. CASE k \in 1 .. m
  <2>1. p[k] = q[k] /\ \A i \in j .. k : p[i] = q[i]
    BY <1>3, <1>4, <1>5
  <2>. QED  BY <1>2, <1>4, <1>5, <2>1 DEF Spaced
<1>6. CASE k = m + 1
  <2> DEFINE s == q[j].stream
  <2>1. p[k] = x /\ x.kind = "line" /\ Fits(q, x) /\ x.n \in Nat /\ Cap \in Nat
    BY <1>3, <1>6, StreamAssumption DEF Items
  <2>2. q[j].kind = "error" /\ q[j] \in Range(q) /\ s \in Streams /\ s # x.stream
    BY <1>3, <1>4, <2>1 DEF MayFollow, Items, Fits
  <2>3. ASSUME NEW h \in 1 .. m, j < h
        PROVE  \/ q[h].kind = "line" /\ q[h].n \in Nat /\ q[h].n < x.n
               \/ IsEof(q[h], s)
    <3>1. MayFollow(q[j], q[h]) /\ MayFollow(q[h], x)
      BY <1>2, <1>3, <1>4, <2>1, <2>3 DEF Ordered, Fits
    <3>2. q[h] \in Items /\ x \in Items
      BY <1>3
    <3>3. q[h].stream = s \/ q[h].stream = x.stream
      BY <2>2, <3>2 DEF Items, Streams
    <3>. QED  BY <2>1, <2>2, <3>1, <3>2, <3>3 DEF MayFollow, Items, IsEof
  <2>4. ASSUME NEW g \in 1 .. m, NEW h \in 1 .. m, g < h PROVE ~(IsEof(q[g], s) /\ IsEof(q[h], s))
    BY <1>2, <2>4 DEF Ordered, MayFollow, IsEof
  <2> HIDE DEF s
  <2>5. x.n >= 1 /\ (Crossed(q, s) => x.n >= Cap)
    BY <2>1, <2>2 DEF Fits
  <2>6. CASE j = m
    <3>1. (\E i \in 1 .. j : IsEof(q[i], s)) => Crossed(q, s)
      <4>1. SUFFICES ASSUME NEW i \in 1 .. j, IsEof(q[i], s) PROVE Crossed(q, s)
        OBVIOUS
      <4>2. IsError(q[j], s) /\ i # j
        BY <2>2, <4>1 DEF IsError, IsEof, s
      <4>. QED  BY <1>2, <1>4, <4>1, <4>2 DEF Crossed
    <3>. QED  BY <1>4, <1>6, <2>1, <2>5, <2>6, <3>1 DEF s
  <2>7. CASE j < m /\ ~IsEof(q[m], s)
    <3>1. m \in 1 .. m /\ q[m].kind = "line" /\ q[m].n \in Nat /\ q[m].n < x.n
      BY <2>3, <2>7
    <3>2. /\ (\A i \in j .. m : ~IsEof(q[i], s)) => q[m].n >= m - j
          /\ q[m].n >= m - j - 1
          /\ (\E i \in 1 .. j : IsEof(q[i], s)) => q[m].n >= Cap + (m - j) - 1
      BY <1>2, <1>4, <2>2, <2>7, <3>1 DEF Spaced, s
    <3>3. (\A i \in j .. k : ~IsEof(p[i], s)) => \A i \in j .. m : ~IsEof(q[i], s)
      BY <1>3, <1>4, <1>6
    <3>4. /\ q[m].n >= m - j => x.n >= k - j
          /\ q[m].n >= m - j - 1 => x.n >= k - j - 1
          /\ q[m].n >= Cap + (m - j) - 1 => x.n >= Cap + (k - j) - 1
      BY <1>6, <2>1, <3>1
    <3>5. p[k] = x /\ p[j].stream = s /\ \A i \in 1 .. j : p[i] = q[i]
      BY <1>4, <2>1 DEF s
    <3>. QED  BY <3>2, <3>3, <3>4, <3>5
  <2>8. CASE j < m /\ IsEof(q[m], s)
    <3>1. ~ \A i \in j .. k : ~IsEof(p[i], s)
      <4>1. m \in j .. k /\ m \in 1 .. m
        BY <1>6, <2>8
      <4>. QED  BY <1>3, <2>8, <4>1
    <3>2. ~ \E i \in 1 .. j : IsEof(q[i], s)
      BY <2>4, <2>8
    <3>3. x.n >= k - j - 1
      <4>1. CASE j = m - 1
        BY <1>6, <2>5, <4>1
      <4>2. CASE j # m - 1
        <5>1. m - 1 \in 1 .. m /\ j < m - 1 /\ m \in 1 .. m
          BY <2>8, <4>2
        <5>2. \A i \in j .. m - 1 : i \in 1 .. m /\ ~IsEof(q[i], s)
          BY <2>4, <2>8, <5>1
        <5>3. q[m - 1].kind = "line" /\ q[m - 1].n \in Nat /\ q[m - 1].n < x.n
          BY <2>3, <5>1, <5>2
        <5>4. q[m - 1].n >= (m - 1) - j
          BY <1>2, <1>4, <2>2, <5>1, <5>2, <5>3 DEF Spaced, s
        <5>. QED  BY <1>6, <2>1, <5>3, <5>4
      <4>. QED  BY <4>1, <4>2
    <3>. QED  BY <1>4, <2>1, <3>1, <3>2, <3>3 DEF s
  <2>. QED  BY <1>4, <2>6, <2>7, <2>8
<1>. QED  BY <1>5, <1>6

LEMMA RangeSplit ==
  ASSUME NEW R, NEW q \in Seq(R), q # <<>>
  PROVE  Range(q) = Range(Tail(q)) \cup {Head(q)}
<1>1. /\ Tail(q) \in Seq(R) /\ Len(Tail(q)) = Len(q) - 1 /\ Len(q) >= 1 /\ Len(q) \in Nat
      /\ Head(q) = q[1] /\ \A i \in 1 .. Len(Tail(q)) : Tail(q)[i] = q[i + 1]
      /\ Head(q) \in Range(q) /\ Range(Tail(q)) \subseteq Range(q)
  BY TailFacts, SeqFacts
<1>2. ASSUME NEW x \in Range(q) PROVE x \in Range(Tail(q)) \cup {Head(q)}
  <2>1. PICK i \in 1 .. Len(q) : x = q[i]
    BY SeqFacts DEF Range
  <2>2. CASE i = 1
    BY <1>1, <2>1, <2>2
  <2>3. CASE i # 1
    <3>1. i - 1 \in 1 .. Len(Tail(q)) /\ (i - 1) + 1 = i
      BY <1>1, <2>3
    <3>2. Tail(q)[i - 1] = q[i]
      BY <1>1, <3>1
    <3>. QED  BY <1>1, <2>1, <3>1, <3>2, SeqFacts DEF Range
  <2>. QED  BY <2>2, <2>3
<1>. QED  BY <1>1, <1>2

\* What _push does.
LEMMA PushCases ==
  ASSUME NEW q \in Seq(Items), NEW item \in Items, Len(q) <= Cap
  PROVE  \/ ~Full(q) /\ Push(q, item) = Append(q, item)
         \/ /\ Len(q) = Cap /\ ~IsSentinel(Head(q))
            /\ Push(q, item) = Append(Tail(q), item)
         \/ /\ Len(q) = Cap /\ IsSentinel(Head(q)) /\ IsSentinel(item)
            /\ Push(q, item) = Append(Tail(Rotated(q)), item)
         \/ /\ Len(q) = Cap /\ IsSentinel(Head(q)) /\ ~IsSentinel(item)
            /\ Push(q, item) = Rotated(q)
<1>1. Cap \in Nat /\ Cap >= 3 /\ Len(q) \in Nat
  BY StreamAssumption, SeqFacts
<1>2. CASE ~Full(q)
  BY <1>2 DEF Push
<1>3. CASE Full(q)
  <2>1. Len(q) = Cap /\ q # <<>>
    BY <1>1, <1>3 DEF Full
  <2>2. Tail(q) \in Seq(Items) /\ Head(q) \in Items /\ Len(Tail(q)) = Cap - 1
    BY <2>1, TailFacts
  <2>3. ~Full(Tail(q))
    BY <1>1, <2>2 DEF Full
  <2>4. Full(Rotated(q))
    BY <1>1, <2>2, AppendFacts DEF Full, Rotated
  <2>. QED  BY <1>3, <2>1, <2>3, <2>4 DEF Push
<1>. QED  BY <1>2, <1>3

LEMMA RotatedFacts ==
  ASSUME NEW q \in Seq(Items), q # <<>>
  PROVE  /\ Rotated(q) \in Seq(Items) /\ Rotated(q) # <<>> /\ Range(Rotated(q)) = Range(q)
         /\ Len(q) >= 2 => Head(Rotated(q)) = q[2]
<1>1. PICK p \in Seq(Items) : p = Tail(q)
  BY TailFacts
<1>2. PICK x \in Items : x = Head(q)
  BY TailFacts
<1>3. PICK r \in Seq(Items) : r = Append(p, x)
  BY AppendFacts
<1>4. /\ Len(r) = Len(p) + 1 /\ Range(r) = Range(p) \cup {x} /\ Len(p) \in Nat
      /\ \A i \in 1 .. Len(p) : r[i] = p[i]
  BY <1>3, AppendFacts, SeqFacts
<1>5. /\ Range(q) = Range(p) \cup {x} /\ Len(q) \in Nat /\ Len(p) = Len(q) - 1
      /\ \A i \in 1 .. Len(p) : p[i] = q[i + 1]
  BY <1>1, <1>2, RangeSplit, TailFacts, SeqFacts
<1>6. r # <<>> /\ Rotated(q) = r
  BY <1>1, <1>2, <1>3, <1>4 DEF Rotated
<1>7. ASSUME Len(q) >= 2 PROVE Head(r) = q[2]
  <2>1. 1 \in 1 .. Len(p) /\ r[1] = Head(r)
    BY <1>5, <1>6, <1>7, TailFacts
  <2>. QED  BY <1>4, <1>5, <2>1
<1>. QED  BY <1>4, <1>5, <1>6, <1>7

\* _push keeps what stands behind and before an error.
LEMMA PushKeeps ==
  ASSUME NEW q \in Seq(Items), NEW item \in Items, NEW m, Len(q) <= Cap, Ordered(q),
         Spaced(q), Ahead(q, m), Counted(q, m), item.kind = "line" => Fits(q, item)
  PROVE  Spaced(Push(q, item)) /\ Ahead(Push(q, item), m)
<1>1. ASSUME NEW p \in Seq(Items), NEW x \in Items, Range(p) \subseteq Range(q), Ordered(p),
             Spaced(p), Ahead(p, m), x.kind = "line" => Fits(p, x)
      PROVE  Spaced(Append(p, x)) /\ Ahead(Append(p, x), m)
  <2>1. Counted(p, m)
    BY <1>1 DEF Counted
  <2>. QED  BY <1>1, <2>1, SpacedAppend, AheadAppend
<1>2. CASE Push(q, item) = Append(q, item)
  BY <1>1, <1>2
<1>3. ASSUME NEW p \in Seq(Items), p # <<>>, Range(p) \subseteq Range(q), Ordered(p),
             Spaced(p), Ahead(p, m)
      PROVE  /\ Tail(p) \in Seq(Items) /\ Range(Tail(p)) \subseteq Range(q) /\ Ordered(Tail(p))
             /\ Spaced(Tail(p)) /\ Ahead(Tail(p), m)
  BY <1>3, TailFacts, OrderedTail, SpacedTail, AheadTail
<1>4. q # <<>> \/ Push(q, item) = Append(q, item)
  BY PushCases, StreamAssumption DEF Full
<1>5. CASE q # <<>> /\ Push(q, item) = Append(Tail(q), item)
  <2>1. ASSUME item.kind = "line" PROVE Fits(Tail(q), item)
    BY <1>3, <1>5, <2>1, CrossedTail DEF Fits
  <2>. QED  BY <1>1, <1>3, <1>5, <2>1
<1>6. ASSUME q # <<>>, IsSentinel(Head(q))
      PROVE  /\ Rotated(q) \in Seq(Items) /\ Rotated(q) # <<>> /\ Range(Rotated(q)) \subseteq Range(q)
             /\ Ordered(Rotated(q)) /\ Spaced(Rotated(q)) /\ Ahead(Rotated(q), m)
  <2>1. Head(q) \in Items /\ Head(q).kind # "line"
    BY <1>6, TailFacts DEF IsSentinel
  <2>2. Spaced(Rotated(q)) /\ Ahead(Rotated(q), m)
    BY <1>1, <1>3, <1>6, <2>1 DEF Rotated
  <2>. QED  BY <1>6, <2>2, RotatedFacts, OrderedRotated
<1>7. CASE q # <<>> /\ IsSentinel(Head(q)) /\ Push(q, item) = Rotated(q)
  BY <1>6, <1>7
<1>8. CASE q # <<>> /\ IsSentinel(Head(q)) /\ IsSentinel(item) /\ Push(q, item) = Append(Tail(Rotated(q)), item)
  <2>1. PICK r \in Seq(Items) : r = Rotated(q)
    BY <1>6, <1>8
  <2>2. /\ Tail(r) \in Seq(Items) /\ Range(Tail(r)) \subseteq Range(q) /\ Ordered(Tail(r))
        /\ Spaced(Tail(r)) /\ Ahead(Tail(r), m)
    BY <1>3, <1>6, <1>8, <2>1
  <2>. QED  BY <1>1, <1>8, <2>1, <2>2 DEF IsSentinel
<1>. QED  BY <1>2, <1>4, <1>5, <1>7, <1>8, PushCases

\* An error gets behind its stream's end as the item pushed or as the one put back.
LEMMA PushCrossed ==
  ASSUME NEW q \in Seq(Items), NEW item \in Items, Len(q) <= Cap, NEW s, Crossed(Push(q, item), s)
  PROVE  \/ Crossed(q, s)
         \/ /\ \E a \in Range(q) : IsEof(a, s)
            /\ IsError(item, s) \/ (Len(q) = Cap /\ IsError(Head(q), s))
<1>1. CASE ~Full(q) /\ Push(q, item) = Append(q, item)
  BY <1>1, CrossedAppend
<1>2. CASE Full(q)
  <2>1. Len(q) = Cap /\ q # <<>>
    BY <1>2, StreamAssumption, SeqFacts DEF Full
  <2>2. /\ Tail(q) \in Seq(Items) /\ Head(q) \in Items /\ Range(Tail(q)) \subseteq Range(q)
        /\ Crossed(Tail(q), s) => Crossed(q, s)
    BY <2>1, TailFacts, CrossedTail
  <2>3. CASE Push(q, item) = Append(Tail(q), item)
    BY <2>1, <2>2, <2>3, CrossedAppend
  <2> DEFINE r == Rotated(q)
  <2>4. r \in Seq(Items) /\ r # <<>> /\ Range(r) = Range(q)
    BY <2>1, RotatedFacts
  <2>5. ASSUME Crossed(r, s)
        PROVE  Crossed(q, s) \/ (IsError(Head(q), s) /\ \E a \in Range(q) : IsEof(a, s))
    BY <2>2, <2>5, CrossedAppend DEF Rotated
  <2> HIDE DEF r
  <2>6. CASE Push(q, item) = r
    BY <2>1, <2>5, <2>6
  <2>7. CASE Push(q, item) = Append(Tail(r), item)
    <3>1. /\ Tail(r) \in Seq(Items) /\ Range(Tail(r)) \subseteq Range(r)
          /\ Crossed(Tail(r), s) => Crossed(r, s)
      BY <2>4, TailFacts, CrossedTail
    <3>2. Crossed(Tail(r), s) \/ (IsError(item, s) /\ \E a \in Range(Tail(r)) : IsEof(a, s))
      BY <2>7, <3>1, CrossedAppend
    <3>. QED  BY <2>1, <2>4, <2>5, <3>1, <3>2
  <2>. QED  BY <1>2, <2>3, <2>6, <2>7, PushCases DEF r
<1>3. ~Full(q) => Push(q, item) = Append(q, item)
  BY DEF Push
<1>. QED  BY <1>1, <1>2, <1>3

\* The one way in which _push leaves no error in the queue where there was one.
LEMMA PushErrors ==
  ASSUME NEW q \in Seq(Items), NEW item \in Items, Len(q) <= Cap,
         NEW a \in Range(q) \cup {item}, a.kind = "error",
         \A b \in Range(Push(q, item)) : b.kind # "error"
  PROVE  /\ Len(q) = Cap /\ q[1].kind = "eof" /\ q[2].kind = "error" /\ item.kind = "eof"
         /\ \A i \in 3 .. Cap : q[i].kind # "error"
<1>1. Cap \in Nat /\ Cap >= 3 /\ Len(q) \in Nat
  BY StreamAssumption, SeqFacts
<1>2. ASSUME NEW p \in Seq(Items), Push(q, item) = Append(p, item)
      PROVE  Range(Push(q, item)) = Range(p) \cup {item}
  BY <1>2, AppendFacts
<1>3. ~(~Full(q) /\ Push(q, item) = Append(q, item))
  BY <1>2
<1>4. Len(q) = Cap /\ q # <<>>
  BY <1>1, <1>3, PushCases
<1>5. Tail(q) \in Seq(Items) /\ Range(q) = Range(Tail(q)) \cup {Head(q)} /\ Head(q) = q[1]
  BY <1>4, TailFacts, RangeSplit
<1>6. ~(~IsSentinel(Head(q)) /\ Push(q, item) = Append(Tail(q), item))
  BY <1>2, <1>5 DEF IsSentinel
<1> DEFINE r == Rotated(q)
<1>7. r \in Seq(Items) /\ r # <<>> /\ Range(r) = Range(q) /\ Head(r) = q[2]
  <2>1. Len(q) >= 2
    BY <1>1, <1>4
  <2>. QED  BY <1>4, <2>1, RotatedFacts
<1>8. IsSentinel(item) /\ IsSentinel(q[1]) /\ Push(q, item) = Append(Tail(r), item)
  <2>1. ~(~IsSentinel(item) /\ Push(q, item) = r)
    BY <1>7 DEF IsSentinel
  <2>. QED  BY <1>3, <1>5, <1>6, <2>1, PushCases
<1> HIDE DEF r
<1>9. Tail(r) \in Seq(Items) /\ Range(q) = Range(Tail(r)) \cup {q[2]}
  BY <1>7, TailFacts, RangeSplit
<1>10. Range(Push(q, item)) = Range(Tail(r)) \cup {item}
  BY <1>2, <1>8, <1>9
<1>11. q[2].kind = "error" /\ item.kind # "error"
  BY <1>9, <1>10
<1>12. ASSUME NEW i \in 1 .. Cap, i # 2 PROVE q[i].kind # "error"
  <2>1. q[i] \in Range(Tail(r))
    <3>1. CASE i = 1
      <4>1. r = Append(Tail(q), q[1])
        BY <1>5 DEF r, Rotated
      <4>2. Len(Tail(q)) = Cap - 1 /\ q[1] \in Items
        BY <1>4, <1>5, TailFacts
      <4>3. Len(r) = Cap /\ r[Cap] = q[1]
        BY <1>1, <1>5, <4>1, <4>2, AppendFacts
      <4>4. Len(Tail(r)) = Cap - 1 /\ Tail(r)[Cap - 1] = q[1]
        BY <1>1, <1>7, <4>3, TailFacts
      <4>5. Cap - 1 \in DOMAIN Tail(r)
        BY <1>1, <1>9, <4>4, SeqFacts
      <4>. QED  BY <3>1, <4>4, <4>5 DEF Range
    <3>2. CASE i # 1
      <4>1. r = Append(Tail(q), q[1])
        BY <1>5 DEF r, Rotated
      <4>2. Len(Tail(q)) = Cap - 1 /\ q[1] \in Items /\ i - 1 \in 1 .. Cap - 1 /\ Tail(q)[i - 1] = q[i]
        BY <1>1, <1>4, <1>5, <3>2, TailFacts
      <4>3. Len(r) = Cap /\ r[i - 1] = q[i]
        BY <1>1, <1>5, <4>1, <4>2, AppendFacts
      <4>4. i - 2 \in 1 .. Cap - 1 /\ Len(Tail(r)) = Cap - 1 /\ Tail(r)[i - 2] = q[i]
        BY <1>1, <1>7, <1>12, <3>2, <4>3, TailFacts
      <4>5. i - 2 \in DOMAIN Tail(r)
        BY <1>1, <1>9, <4>4, SeqFacts
      <4>. QED  BY <4>4, <4>5 DEF Range
    <3>. QED  BY <3>1, <3>2
  <2>. QED  BY <1>10, <2>1
<1>13. q[1].kind = "eof" /\ item.kind = "eof"
  <2>1. q[1] \in Items /\ q[1].kind # "error"
    BY <1>1, <1>4, <1>12, SeqFacts
  <2>. QED  BY <1>8, <1>11, <2>1 DEF IsSentinel, Items
<1>. QED  BY <1>1, <1>4, <1>11, <1>12, <1>13

LEMMA ArrivingAppend ==
  ASSUME NEW q \in Seq(Callbacks), NEW x \in Callbacks,
         Arriving(q), \A a \in Range(q) : Arrives(a, x)
  PROVE  Arriving(Append(q, x))
<1>. SUFFICES ASSUME NEW i \in 1 .. (Len(q) + 1), NEW j \in 1 .. (Len(q) + 1), i < j
              PROVE  Arrives(Append(q, x)[i], Append(q, x)[j])
  BY AppendFacts DEF Arriving
<1>1. i \in 1 .. Len(q) /\ (j \in 1 .. Len(q) \/ j = Len(q) + 1)
  BY SeqFacts
<1>2. q[i] \in Range(q)
  BY <1>1, SeqFacts DEF Range
<1>. QED  BY <1>1, <1>2, AppendFacts DEF Arriving

LEMMA ArrivingTail ==
  ASSUME NEW q \in Seq(Callbacks), q # <<>>, Arriving(q)
  PROVE  Arriving(Tail(q)) /\ \A b \in Range(Tail(q)) : Arrives(Head(q), b)
<1>1. PICK p \in Seq(Callbacks) : p = Tail(q)
  BY TailFacts
<1>2. /\ Len(q) \in Nat /\ Len(p) = Len(q) - 1 /\ Head(q) = q[1] /\ Len(q) >= 1
      /\ \A i \in 1 .. Len(p) : p[i] = q[i + 1]
  BY <1>1, TailFacts, SeqFacts
<1>3. ASSUME NEW i \in 1 .. Len(p), NEW j \in 1 .. Len(p), i < j PROVE Arrives(p[i], p[j])
  <2>1. i + 1 \in 1 .. Len(q) /\ j + 1 \in 1 .. Len(q) /\ i + 1 < j + 1
    BY <1>2, <1>3
  <2>2. Arrives(q[i + 1], q[j + 1])
    BY <2>1 DEF Arriving
  <2>. QED  BY <1>2, <2>2
<1>4. ASSUME NEW b \in Range(p) PROVE Arrives(Head(q), b)
  <2>1. PICK i \in 1 .. Len(p) : b = p[i]
    BY <1>4, SeqFacts DEF Range
  <2>2. i + 1 \in 1 .. Len(q) /\ 1 \in 1 .. Len(q) /\ 1 < i + 1
    BY <1>2
  <2>3. Arrives(q[1], q[i + 1])
    BY <2>2 DEF Arriving
  <2>. QED  BY <1>2, <2>1, <2>3
<1>. QED  BY <1>1, <1>3, <1>4 DEF Arriving

\* What a callback finds that brings an item.
LEMMA CallbackFacts ==
  ASSUME StreamInv, PlacesInv, ~stop, RunCallback, NEW item, item = Head(ready), item.kind # "done"
  PROVE  /\ item \in Items /\ queue' = Push(queue, item)
         /\ ready' = Tail(ready) /\ Range(ready) = Range(ready') \cup {item}
         /\ \A a \in Range(queue) : MayFollow(a, item) /\ ~IsEof(a, item.stream)
         /\ \A b \in Range(ready') : MayFollow(item, b) /\ Arrives(item, b)
         /\ Arriving(ready')
         /\ Counted(queue, active)
         /\ item.kind = "line" => Fits(queue, item)
<1>1. ready \in Seq(Callbacks) /\ ready # <<>> /\ ready' = Tail(ready) /\ queue' = Push(queue, item)
  BY DEF StreamInv, Types, TypeOK, RunCallback
<1>2. Range(ready) = Range(ready') \cup {item} /\ item \in Callbacks
  BY <1>1, RangeSplit, TailFacts
<1>3. item \in Items
  BY <1>2 DEF Callbacks, Done
<1>4. \A b \in Range(ready') : MayFollow(item, b) /\ Arrives(item, b)
  BY <1>1, OrderedTail, ArrivingTail DEF StreamInv, FlightInv, OrderInv, PlacesInv, ArriveInv
<1>5. Arriving(ready')
  BY <1>1, ArrivingTail DEF PlacesInv, ArriveInv
<1>6. \A a \in Range(queue) : MayFollow(a, item) /\ Arrives(a, item)
  BY <1>2 DEF StreamInv, FlightInv, OrderInv, PlacesInv, ArriveInv
<1>7. \A a \in Range(queue) : ~IsEof(a, item.stream)
  BY <1>6 DEF Arrives, IsEof
<1>8. item.stream \in Streams /\ item \in InFlight /\ \A a \in Range(queue) : a.stream \in Streams /\ a \in InFlight
  BY <1>2, InFlightType DEF InFlight, StreamInv, Types
<1>9. Live(item.stream)
  <2>1. CASE item.kind \in {"line", "eof"}
    BY <1>8, <2>1 DEF Live
  <2>2. CASE item.kind = "error"
    <3>1. reader[item.stream] # "ended" \/ \E b \in Range(ready) : IsEof(b, item.stream)
      BY <1>2, <2>2 DEF PlacesInv, ToEnd
    <3>. QED  BY <3>1 DEF Live, IsEof, InFlight
  <2>. QED  BY <1>3, <2>1, <2>2 DEF Items
<1>10. Counted(queue, active)
  <2>1. active >= 1
    BY <1>8, <1>9 DEF StreamInv, FlightInv, ActiveInv
  <2>2. ASSUME NEW a \in Range(queue), a.kind = "eof"
        PROVE  active = 2 /\ \A b \in Range(queue) : b.kind = "eof" => b.stream = a.stream
    <3>1. a.stream # item.stream /\ Live(a.stream)
      BY <1>7, <1>8, <2>2 DEF IsEof, Live
    <3>2. \A s \in Streams : s = a.stream \/ s = item.stream
      BY <1>8, <3>1 DEF Streams
    <3>3. active = 2
      BY <1>9, <3>1, <3>2 DEF StreamInv, FlightInv, ActiveInv
    <3>4. \A b \in Range(queue) : b.kind = "eof" => b.stream = a.stream
      BY <1>7, <1>8, <3>2 DEF IsEof
    <3>. QED  BY <3>3, <3>4
  <2>. QED  BY <2>1, <2>2 DEF Counted
<1>11. ASSUME item.kind = "line" PROVE Fits(queue, item)
  <2>1. item.n >= 1
    BY <1>8, <1>11 DEF StreamInv, Types, TypeOK, FlightInv, ItemsInv
  <2>2. \A s \in Streams : Crossed(queue, s) /\ s # item.stream => item.n >= Cap
    BY <1>2, <1>8, <1>11 DEF PlacesInv, CrossInv
  <2>. QED  BY <1>6, <2>1, <2>2 DEF Fits
<1>. QED  BY <1>1, <1>2, <1>3, <1>4, <1>5, <1>6, <1>7, <1>10, <1>11

\* The line pushed when an error is put back behind its stream's end, and those after it.
LEMMA CrossingKeeps ==
  ASSUME StreamInv, PlacesInv, ~stop, RunCallback, NEW item, item = Head(ready), item.kind # "done"
  PROVE  CrossInv'
<1>1. /\ item \in Items /\ queue' = Push(queue, item) /\ Range(ready) = Range(ready') \cup {item}
      /\ \A a \in Range(queue) : MayFollow(a, item) /\ ~IsEof(a, item.stream)
      /\ \A b \in Range(ready') : MayFollow(item, b)
      /\ item.kind = "line" => Fits(queue, item)
  BY CallbackFacts
<1>2. queue \in Seq(Items) /\ Len(queue) <= Cap /\ passed \in [Streams -> Nat] /\ Cap \in Nat /\ Cap >= 3
  BY StreamAssumption DEF StreamInv, Types, TypeOK
<1>3. passed' = passed /\ reader' = reader /\ item \in InFlight
  BY <1>1 DEF RunCallback, historyVars, pipeVars, InFlight
<1>. SUFFICES ASSUME NEW s \in Streams, NEW t \in Streams, Crossed(queue', s), s # t
              PROVE  /\ \A b \in Range(ready') : b.kind = "line" /\ b.stream = t => b.n >= Cap
                     /\ Over(t)' \/ passed'[t] >= Cap - 1
  BY DEF CrossInv
<1>4. CASE Crossed(queue, s)
  BY <1>1, <1>3, <1>4 DEF PlacesInv, CrossInv, Over
<1>5. CASE ~Crossed(queue, s)
  <2>1. PICK e \in Range(queue) : IsEof(e, s)
    BY <1>1, <1>2, <1>5, PushCrossed
  <2>2. item.stream = t /\ ~IsError(item, s)
    <3>1. item.stream # s /\ item.stream \in Streams
      BY <1>1, <2>1 DEF Items
    <3>. QED  BY <3>1 DEF Streams, IsError
  <2>3. Len(queue) = Cap /\ IsError(Head(queue), s)
    BY <1>1, <1>2, <1>5, <2>2, PushCrossed
  <2>4. CASE item.kind = "line"
    <3>1. PICK p \in Seq(Items) : p = Append(queue, item)
      BY <1>1, <1>2, AppendFacts
    <3>2. Spaced(p)
      BY <1>1, <1>2, <3>1, SpacedAppend DEF StreamInv, FlightInv, OrderInv, PlacesInv
    <3>3. queue[1] = Head(queue) /\ Len(p) = Cap + 1 /\ p[1] = queue[1] /\ p[Cap + 1] = item
      BY <1>1, <1>2, <2>3, <3>1, AppendFacts, TailFacts
    <3>4. p[1].kind = "error" /\ p[Cap + 1].kind = "line" /\ 1 \in 1 .. Len(p) /\ Cap + 1 \in 1 .. Len(p) /\ 1 < Cap + 1
      BY <1>2, <2>3, <2>4, <3>3 DEF IsError
    <3>5. p[Cap + 1].n >= (Cap + 1) - 1 - 1
      BY <3>2, <3>4 DEF Spaced
    <3>6. item.n >= Cap - 1 /\ item.n \in Nat
      BY <1>1, <1>2, <3>3, <3>5 DEF Items
    <3>7. item.n \in 1 .. passed[t]
      BY <1>3, <2>2, <2>4 DEF StreamInv, FlightInv, ItemsInv
    <3>8. ASSUME NEW b \in Range(ready'), b.kind = "line", b.stream = t PROVE b.n >= Cap
      <4>1. item.n < b.n
        BY <1>1, <2>2, <2>4, <3>8 DEF MayFollow
      <4>2. b \in Callbacks
        BY <1>1, InFlightType DEF StreamInv, Types
      <4>3. b.n \in Nat
        BY <3>8, <4>2 DEF Callbacks, Items, Done
      <4>. QED  BY <1>2, <3>6, <4>1, <4>3
    <3>9. passed'[t] >= Cap - 1
      BY <1>2, <1>3, <3>6, <3>7
    <3>. QED  BY <3>8, <3>9
  <2>5. CASE item.kind # "line"
    <3>1. item.kind \in {"eof", "error"}
      BY <1>1, <2>5 DEF Items
    <3>2. Over(t)
      BY <1>3, <2>2, <3>1 DEF StreamInv, FlightInv, ItemsInv, Over
    <3>3. \A b \in Range(ready') : b.stream = t => b.kind # "line"
      BY <1>1, <2>2, <3>1 DEF MayFollow
    <3>. QED  BY <1>3, <3>2, <3>3 DEF Over
  <2>. QED  BY <2>4, <2>5
<1>. QED  BY <1>4, <1>5

LEMMA RunCallbackPlaces ==
  ASSUME StreamInv, PlacesInv, ~stop, RunCallback
  PROVE  PlacesInv'
<1>1. ready \in Seq(Callbacks) /\ ready # <<>> /\ ready' = Tail(ready)
  BY DEF StreamInv, Types, TypeOK, RunCallback
<1>2. PICK item \in Callbacks : item = Head(ready)
  BY <1>1, TailFacts
<1>3. Range(ready) = Range(ready') \cup {item}
  BY <1>1, <1>2, RangeSplit
<1>4. passed' = passed /\ reader' = reader /\ active' = active
  BY DEF RunCallback, historyVars, pipeVars, consumerVars
<1>5. Arriving(ready') /\ \A b \in Range(ready') : Arrives(item, b)
  BY <1>1, <1>2, ArrivingTail DEF PlacesInv, ArriveInv
<1>6. ToEnd'
  <2>. SUFFICES ASSUME NEW a \in Range(ready'), a.kind = "error", reader[a.stream] = "ended"
                PROVE  \E b \in Range(ready') : IsEof(b, a.stream)
    BY <1>4 DEF ToEnd
  <2>1. PICK b \in Range(ready) : IsEof(b, a.stream)
    BY <1>3 DEF PlacesInv, ToEnd
  <2>2. b # item
    BY <1>5, <2>1 DEF Arrives, IsEof
  <2>. QED  BY <1>3, <2>1, <2>2
<1>7. CASE item.kind = "done"
  <2>1. queue' = queue
    BY <1>2, <1>7 DEF RunCallback
  <2>2. ArriveInv' /\ CrossInv'
    BY <1>3, <1>4, <1>5, <2>1 DEF PlacesInv, ArriveInv, CrossInv, Over
  <2>. QED  BY <1>4, <1>6, <2>1, <2>2 DEF PlacesInv
<1>8. CASE item.kind # "done"
  <2>1. /\ item \in Items /\ queue' = Push(queue, item)
        /\ \A a \in Range(queue) : MayFollow(a, item)
        /\ Counted(queue, active)
        /\ item.kind = "line" => Fits(queue, item)
    BY <1>2, <1>8, CallbackFacts
  <2>2. queue \in Seq(Items) /\ Len(queue) <= Cap /\ Ordered(queue)
    BY DEF StreamInv, Types, TypeOK, FlightInv, OrderInv
  <2>3. Spaced(queue') /\ Ahead(queue', active)
    BY <2>1, <2>2, PushKeeps DEF PlacesInv
  <2>4. Range(queue') \subseteq Range(queue) \cup {item}
    BY <2>1, <2>2, PushFacts
  <2>5. ArriveInv'
    BY <1>3, <1>5, <2>4 DEF PlacesInv, ArriveInv
  <2>6. CrossInv'
    BY <1>2, <1>8, CrossingKeeps
  <2>. QED  BY <1>4, <1>6, <2>3, <2>5, <2>6 DEF PlacesInv
<1>. QED  BY <1>7, <1>8

\* Taking the head leaves the rest in its place.
LEMMA TakePlaces ==
  ASSUME StreamInv, PlacesInv, queue # <<>>, queue' = Tail(queue), ready' = ready,
         passed' = passed, reader' = reader, Ahead(queue', active')
  PROVE  PlacesInv'
<1>1. queue \in Seq(Items)
  BY DEF StreamInv, Types, TypeOK
<1>2. Range(queue') \subseteq Range(queue) /\ Spaced(queue') /\ \A s : Crossed(queue', s) => Crossed(queue, s)
  BY <1>1, TailFacts, SpacedTail, CrossedTail DEF PlacesInv
<1>3. ArriveInv' /\ ToEnd'
  BY <1>2 DEF PlacesInv, ArriveInv, ToEnd
<1>4. CrossInv'
  BY <1>2 DEF PlacesInv, CrossInv, Over
<1>. QED  BY <1>2, <1>3, <1>4 DEF PlacesInv

LEMMA GetLinePlaces ==
  ASSUME StreamInv, PlacesInv, GetLine
  PROVE  PlacesInv'
<1>1. /\ queue # <<>> /\ queue' = Tail(queue) /\ ready' = ready /\ active' = active
      /\ passed' = passed /\ reader' = reader
  BY DEF GetLine, historyVars, pipeVars
<1>2. Ahead(queue', active')
  BY <1>1, AheadTail DEF PlacesInv, StreamInv, Types, TypeOK
<1>. QED  BY <1>1, <1>2, TakePlaces

\* The end at the head was counted, and is the only one before an error.
LEMMA GetSentinelPlaces ==
  ASSUME StreamInv, PlacesInv, GetSentinel
  PROVE  PlacesInv'
<1>1. /\ queue # <<>> /\ queue' = Tail(queue) /\ ready' = ready /\ active' = active - 1
      /\ Head(queue).kind = "eof" /\ passed' = passed /\ reader' = reader
  BY DEF GetSentinel, historyVars, pipeVars
<1>2. PICK p \in Seq(Items) : p = Tail(queue)
  BY <1>1, TailFacts DEF StreamInv, Types, TypeOK
<1>3. /\ Len(queue) \in Nat /\ Len(p) = Len(queue) - 1 /\ Len(queue) >= 1 /\ Head(queue) = queue[1]
      /\ \A i \in 1 .. Len(p) : p[i] = queue[i + 1]
  BY <1>1, <1>2, TailFacts, SeqFacts DEF StreamInv, Types, TypeOK
<1>4. Ahead(p, active - 1)
  <2>. SUFFICES ASSUME NEW j \in 1 .. Len(p), p[j].kind = "error"
                PROVE  active - 1 >= 1 /\ \A i \in 1 .. j : p[i].kind # "eof"
    BY DEF Ahead
  <2>1. j + 1 \in 1 .. Len(queue) /\ queue[j + 1].kind = "error" /\ 1 \in 1 .. j + 1
    BY <1>3
  <2>2. active = 2 /\ \A h \in 1 .. j + 1 : queue[h].kind = "eof" => queue[h].stream = queue[1].stream
    BY <1>1, <1>3, <2>1 DEF PlacesInv, Ahead
  <2>3. ASSUME NEW i \in 1 .. j PROVE p[i].kind # "eof"
    <3>1. i + 1 \in 1 .. j + 1 /\ i + 1 \in 1 .. Len(queue) /\ 1 \in 1 .. Len(queue) /\ 1 < i + 1 /\ p[i] = queue[i + 1]
      BY <1>3
    <3>2. MayFollow(queue[1], queue[i + 1])
      BY <3>1 DEF StreamInv, FlightInv, OrderInv, Ordered
    <3>. QED  BY <1>1, <1>3, <2>2, <3>1, <3>2 DEF MayFollow
  <2>. QED  BY <2>2, <2>3
<1>. QED  BY <1>1, <1>2, <1>4, TakePlaces

\* A reader that has not ended passes something on.
LEMMA PassPlaces ==
  ASSUME StreamInv, PlacesInv, NEW s \in Streams, reader[s] # "ended",
         NEW x \in Callbacks, x.stream = s, NEW r \in Seq(Callbacks), r = Append(ready, x)
  PROVE  Arriving(r) /\ \A a \in Range(queue), b \in Range(r) : Arrives(a, b)
<1>1. \A a \in InFlight : Arrives(a, x)
  BY DEF StreamInv, FlightInv, ItemsInv, Arrives
<1>2. ready \in Seq(Callbacks)
  BY DEF StreamInv, Types, TypeOK
<1>3. Arriving(r)
  BY <1>1, <1>2, ArrivingAppend DEF PlacesInv, ArriveInv, InFlight
<1>4. Range(r) = Range(ready) \cup {x}
  BY <1>2, AppendFacts
<1>. QED  BY <1>1, <1>3, <1>4 DEF PlacesInv, ArriveInv, InFlight

LEMMA ReadLinePlaces ==
  ASSUME StreamInv, PlacesInv, ~stop, NEW s \in Streams, ReadLine(s)
  PROVE  PlacesInv'
<1>1. /\ reader[s] = "readline"
      /\ \A r \in Streams : reader'[r] = IF r = s THEN "loop" ELSE reader[r]
  BY ReaderFacts DEF ReadLine, StreamInv, Types
<1>2. PICK x \in Callbacks : x = Line(s, passed[s] + 1)
  <2>1. passed[s] + 1 \in Nat
    BY DEF StreamInv, Types, TypeOK
  <2>. QED  BY <2>1 DEF Callbacks, Items, Line
<1>3. x.stream = s /\ x.kind = "line" /\ x.n = passed[s] + 1
  BY <1>2 DEF Line
<1>4. PICK r \in Seq(Callbacks) : r = Append(ready, x)
  BY AppendFacts DEF StreamInv, Types, TypeOK
<1>5. ready' = r /\ queue' = queue /\ active' = active
  BY <1>2, <1>4 DEF ReadLine, Pass, consumerVars, StreamInv, Types, TypeOK
<1>6. /\ \A t \in Streams : passed'[t] = IF t = s THEN passed[t] + 1 ELSE passed[t]
      /\ \A t \in Streams : passed[t] \in Nat
  BY DEF ReadLine, StreamInv, Types, TypeOK
<1>7. Range(ready') = Range(ready) \cup {x}
  BY <1>4, <1>5, AppendFacts DEF StreamInv, Types, TypeOK
<1>8. ArriveInv'
  BY <1>1, <1>3, <1>4, <1>5, PassPlaces DEF ArriveInv
<1>9. \A a \in InFlight : a.stream \in Streams
  BY InFlightType DEF StreamInv, Types
<1>10. ToEnd'
  <2>1. ASSUME NEW a \in Range(ready), a.kind = "error", reader'[a.stream] = "ended"
        PROVE  \E b \in Range(ready') : IsEof(b, a.stream)
    <3>1. reader[a.stream] = "ended"
      BY <1>1, <1>9, <2>1 DEF InFlight
    <3>. QED  BY <1>7, <2>1, <3>1 DEF PlacesInv, ToEnd
  <2>. QED  BY <1>3, <1>7, <2>1 DEF ToEnd
<1>11. CrossInv'
  <2>. SUFFICES ASSUME NEW u \in Streams, NEW t \in Streams, Crossed(queue, u), u # t
                PROVE  /\ \A b \in Range(ready') : b.kind = "line" /\ b.stream = t => b.n >= Cap
                       /\ Over(t)' \/ passed'[t] >= Cap - 1
    BY <1>5 DEF CrossInv
  <2>1. /\ \A b \in Range(ready) : b.kind = "line" /\ b.stream = t => b.n >= Cap
        /\ Over(t) \/ passed[t] >= Cap - 1
    BY DEF PlacesInv, CrossInv
  <2>2. CASE t = s
    <3>1. passed[s] >= Cap - 1
      BY <1>1, <2>1, <2>2 DEF Over
    <3>2. x.n >= Cap /\ passed'[s] >= Cap - 1
      BY <1>3, <1>6, <3>1, StreamAssumption
    <3>. QED  BY <1>7, <2>1, <2>2, <3>2
  <2>3. CASE t # s
    <3>1. reader'[t] = reader[t] /\ passed'[t] = passed[t]
      BY <1>1, <1>6, <2>3
    <3>. QED  BY <1>3, <1>7, <2>1, <2>3, <3>1 DEF Over
  <2>. QED  BY <2>2, <2>3
<1>. QED  BY <1>5, <1>8, <1>10, <1>11 DEF PlacesInv

LEMMA ReadErrorPlaces ==
  ASSUME StreamInv, PlacesInv, ~stop, NEW s \in Streams, ReadError(s)
  PROVE  PlacesInv'
<1>1. /\ reader[s] = "readline"
      /\ \A r \in Streams : reader'[r] = IF r = s THEN "final" ELSE reader[r]
  BY ReaderFacts DEF ReadError, StreamInv, Types
<1>2. PICK x \in Callbacks : x = Error(s)
  BY DEF Callbacks, Items, Error
<1>3. x.stream = s /\ x.kind = "error"
  BY <1>2 DEF Error
<1>4. PICK r \in Seq(Callbacks) : r = Append(ready, x)
  BY AppendFacts DEF StreamInv, Types, TypeOK
<1>5. ready' = r /\ queue' = queue /\ active' = active /\ passed' = passed
  BY <1>2, <1>4 DEF ReadError, Pass, consumerVars, StreamInv, Types, TypeOK
<1>6. Range(ready') = Range(ready) \cup {x}
  BY <1>4, <1>5, AppendFacts DEF StreamInv, Types, TypeOK
<1>7. ArriveInv'
  BY <1>1, <1>3, <1>4, <1>5, PassPlaces DEF ArriveInv
<1>8. \A a \in InFlight : a.stream \in Streams
  BY InFlightType DEF StreamInv, Types
<1>9. ToEnd'
  <2>1. ASSUME NEW a \in Range(ready), a.kind = "error", reader'[a.stream] = "ended"
        PROVE  \E b \in Range(ready') : IsEof(b, a.stream)
    <3>1. reader[a.stream] = "ended"
      BY <1>1, <1>8, <2>1 DEF InFlight
    <3>. QED  BY <1>6, <2>1, <3>1 DEF PlacesInv, ToEnd
  <2>2. reader'[x.stream] # "ended"
    BY <1>1, <1>3
  <2>. QED  BY <1>6, <2>1, <2>2 DEF ToEnd
<1>10. CrossInv'
  <2>1. \A t \in Streams : Over(t) => Over(t)'
    BY <1>1 DEF Over
  <2>. QED  BY <1>3, <1>5, <1>6, <2>1 DEF PlacesInv, CrossInv
<1>. QED  BY <1>5, <1>7, <1>9, <1>10 DEF PlacesInv

LEMMA ReaderFinalPlaces ==
  ASSUME StreamInv, PlacesInv, ~stop, NEW s \in Streams, ReaderFinal(s)
  PROVE  PlacesInv'
<1>1. /\ reader[s] = "final"
      /\ \A r \in Streams : reader'[r] = IF r = s THEN "ended" ELSE reader[r]
  BY ReaderFacts DEF ReaderFinal, StreamInv, Types
<1>2. PICK e \in Callbacks : e = Eof(s)
  BY DEF Callbacks, Items, Eof
<1>3. PICK d \in Callbacks : d = Done(s)
  BY DEF Callbacks
<1>4. e.stream = s /\ e.kind = "eof" /\ d.stream = s /\ d.kind = "done"
  BY <1>2, <1>3 DEF Eof, Done
<1>5. PICK r \in Seq(Callbacks) : r = Append(ready, e)
  BY AppendFacts DEF StreamInv, Types, TypeOK
<1>6. queue' = queue /\ active' = active /\ passed' = passed
  BY DEF ReaderFinal, consumerVars, historyVars
<1>7. ready' = Append(r, d)
  BY <1>2, <1>3, <1>5 DEF ReaderFinal, StreamInv, Types, TypeOK
<1>8. Range(r) = Range(ready) \cup {e} /\ Range(ready') = Range(r) \cup {d}
  <2>1. ready \in Seq(Callbacks)
    BY DEF StreamInv, Types, TypeOK
  <2>2. Range(Append(ready, e)) = Range(ready) \cup {e}
    BY <2>1, AppendFacts
  <2>3. Range(Append(r, d)) = Range(r) \cup {d}
    BY AppendFacts
  <2>. QED  BY <1>5, <1>7, <2>2, <2>3
<1>9. Arriving(r) /\ \A a \in Range(queue), b \in Range(r) : Arrives(a, b)
  BY <1>1, <1>4, <1>5, PassPlaces
<1>10. \A a : Arrives(a, d)
  BY <1>4 DEF Arrives
<1>11. ArriveInv'
  <2>1. Arriving(ready')
    BY <1>7, <1>9, <1>10, ArrivingAppend
  <2>. QED  BY <1>6, <1>8, <1>9, <1>10, <2>1 DEF ArriveInv
<1>12. \A a \in InFlight : a.stream \in Streams
  BY InFlightType DEF StreamInv, Types
<1>13. ToEnd'
  <2>. SUFFICES ASSUME NEW a \in Range(ready'), a.kind = "error", reader'[a.stream] = "ended"
                PROVE  \E b \in Range(ready') : IsEof(b, a.stream)
    BY DEF ToEnd
  <2>1. a \in Range(ready) /\ a.stream \in Streams
    BY <1>4, <1>8, <1>12 DEF InFlight
  <2>2. CASE a.stream = s
    BY <1>4, <1>8, <2>2 DEF IsEof
  <2>3. CASE a.stream # s
    <3>1. reader[a.stream] = "ended"
      BY <1>1, <2>1, <2>3
    <3>. QED  BY <1>8, <2>1, <3>1 DEF PlacesInv, ToEnd
  <2>. QED  BY <2>2, <2>3
<1>14. CrossInv'
  <2>1. \A t \in Streams : Over(t) => Over(t)'
    BY <1>1 DEF Over
  <2>. QED  BY <1>4, <1>6, <1>8, <2>1 DEF PlacesInv, CrossInv
<1>. QED  BY <1>6, <1>11, <1>13, <1>14 DEF PlacesInv

LEMMA PopenPlaces ==
  ASSUME Popen
  PROVE  PlacesInv'
<1>1. ready' = <<>> /\ queue' = <<>>
  BY DEF Popen
<1>2. Range(ready') = {} /\ Range(queue') = {} /\ Len(queue') = 0 /\ Len(ready') = 0
  BY <1>1, EmptyRange
<1>. QED  BY <1>2 DEF PlacesInv, ArriveInv, Arriving, ToEnd, Spaced, Ahead, CrossInv, Crossed

LEMMA QuietPlaces ==
  ASSUME StreamInv, PlacesInv, Quiet
  PROVE  PlacesInv'
<1>1. queue' = queue /\ ready' = ready /\ active' = active /\ passed' = passed
  BY DEF Quiet
<1>2. \A a \in InFlight : a.stream \in Streams
  BY InFlightType DEF StreamInv, Types
<1>3. ArriveInv' /\ Spaced(queue') /\ Ahead(queue', active')
  BY <1>1 DEF PlacesInv, ArriveInv
<1>4. ToEnd'
  BY <1>1, <1>2 DEF PlacesInv, ToEnd, Quiet, InFlight
<1>5. CrossInv'
  BY <1>1 DEF PlacesInv, CrossInv, Quiet
<1>. QED  BY <1>3, <1>4, <1>5 DEF PlacesInv

\* Only a new attempt resets stop_readers.
LEMMA StopOnly ==
  ASSUME [Next]_vars, stop, ~stop'
  PROVE  Popen
BY DEF Next, Consume, Clean, Read, vars, Exit, Disconnect, RunCallback, ReaderLoop, ReaderCall, ReadEof,
  ReaderFinal, ReadLine, ReadError, PopenFails, Check, GetSentinel, GetError, GetLine, GetTimesOut,
  Gather, WaitProc, CloseStdout, CloseStderr, Close, Kill, Join, CleanUp, Leave, Advance, Cancel, Cleaned, consumerVars

LEMMA PlacesStep ==
  ASSUME StreamInv, ErrorInv, [Next]_vars, ~stop'
  PROVE  PlacesInv'
<1>1. stop => Popen
  BY StopOnly
<1>2. CASE Popen
  BY <1>2, PopenPlaces
<1>3. CASE ~Popen
  <2>1. ~stop /\ PlacesInv
    BY <1>1, <1>3 DEF ErrorInv
  <2>2. Moves => Quiet
    BY MovesAreQuiet DEF StreamInv, Types
  <2>. QED
    BY <1>3, <2>1, <2>2, NextSteps, QuietPlaces, GetSentinelPlaces, GetLinePlaces, RunCallbackPlaces,
      ReadLinePlaces, ReadErrorPlaces, ReaderFinalPlaces
<1>. QED  BY <1>2, <1>3

\* An error is given up only behind its stream's end and for the other's, and the last
\* line of that queue is a late one.
LEMMA GivenUp ==
  ASSUME StreamInv, PlacesInv, ~stop, RunCallback,
         NEW a \in InFlight, a.kind = "error", \A b \in InFlight' : b.kind # "error"
  PROVE  ManyLines
<1>1. PICK item : item = Head(ready)
  OBVIOUS
<1>2. Range(ready) = Range(ready') \cup {item}
  BY <1>1, RangeSplit DEF StreamInv, Types, TypeOK, RunCallback
<1>3. item.kind # "done"
  BY <1>1, <1>2 DEF RunCallback, InFlight
<1>4. /\ item \in Items /\ queue' = Push(queue, item)
      /\ \A b \in Range(queue) : ~IsEof(b, item.stream)
  BY <1>1, <1>3, CallbackFacts
<1>5. queue \in Seq(Items) /\ Len(queue) <= Cap /\ Cap \in Nat /\ Cap >= 3
  BY StreamAssumption DEF StreamInv, Types, TypeOK
<1>6. a \in Range(queue) \cup {item} /\ \A b \in Range(Push(queue, item)) : b.kind # "error"
  BY <1>2, <1>4 DEF InFlight
<1>7. /\ Len(queue) = Cap /\ queue[1].kind = "eof" /\ queue[2].kind = "error" /\ item.kind = "eof"
      /\ \A i \in 3 .. Cap : queue[i].kind # "error"
  BY <1>4, <1>5, <1>6, PushErrors
<1>8. /\ \A i \in 1 .. Cap : queue[i] \in Items /\ queue[i] \in Range(queue)
      /\ 1 \in 1 .. Cap /\ 2 \in 1 .. Cap /\ Cap \in 1 .. Cap /\ Cap \in 3 .. Cap
  BY <1>5, <1>7, SeqFacts DEF Range
<1>9. MayFollow(queue[1], queue[Cap]) /\ MayFollow(queue[2], queue[Cap])
  BY <1>5, <1>7, <1>8 DEF StreamInv, FlightInv, OrderInv, Ordered
<1>10. queue[1].stream # item.stream /\ ~IsEof(queue[Cap], item.stream)
  BY <1>4, <1>7, <1>8 DEF IsEof
<1>11. \A u \in Streams : u = item.stream \/ u = queue[1].stream
  BY <1>4, <1>8, <1>10 DEF Items, Streams
<1>12. queue[Cap].kind = "line" /\ queue[Cap].stream = item.stream /\ queue[Cap].n \in Nat
  BY <1>7, <1>8, <1>9, <1>10, <1>11 DEF MayFollow, IsEof, Items
<1>13. IsEof(queue[1], queue[2].stream)
  BY <1>7, <1>8, <1>9, <1>11, <1>12 DEF MayFollow, IsEof, Items
<1>14. queue[Cap].n >= Cap + (Cap - 2) - 1
  <2>1. 2 \in 1 .. Len(queue) /\ Cap \in 1 .. Len(queue) /\ 2 < Cap /\ 1 \in 1 .. 2
    BY <1>5, <1>7
  <2>. QED  BY <1>7, <1>12, <1>13, <2>1 DEF PlacesInv, Spaced
<1>15. queue[Cap].n <= passed[item.stream]
  BY <1>8, <1>12 DEF StreamInv, FlightInv, ItemsInv, InFlight
<1>16. passed[item.stream] >= 2 * Cap - 3
  BY <1>4, <1>5, <1>12, <1>14, <1>15 DEF StreamInv, Types, TypeOK, Items
<1>17. item.stream \in {"stdout", "stderr"} /\ passed["stdout"] \in Nat /\ passed["stderr"] \in Nat
  BY <1>4 DEF StreamInv, Types, TypeOK, Items, Streams
<1>18. CASE item.stream = "stdout"
  BY <1>5, <1>16, <1>17, <1>18 DEF ManyLines
<1>19. CASE item.stream = "stderr"
  BY <1>5, <1>16, <1>17, <1>19 DEF ManyLines
<1>. QED  BY <1>17, <1>18, <1>19

\* The consumer does not leave while an error is on its way.
LEMMA NotLeft ==
  ASSUME StreamInv, PlacesInv, NEW a \in InFlight, a.kind = "error"
  PROVE  active # 0 /\ ~Drained
<1>1. a.stream \in Streams /\ \A b \in InFlight : b.stream \in Streams
  BY InFlightType DEF StreamInv, Types
<1>2. active # 0
  <2>1. CASE a \in Range(queue)
    <3>1. PICK j \in 1 .. Len(queue) : queue[j] = a
      BY <2>1, SeqFacts DEF Range, StreamInv, Types, TypeOK
    <3>. QED  BY <3>1 DEF PlacesInv, Ahead
  <2>2. CASE a \in Range(ready)
    <3>1. Live(a.stream)
      BY <2>2 DEF PlacesInv, ToEnd, Live, IsEof, InFlight
    <3>. QED  BY <1>1, <3>1 DEF StreamInv, FlightInv, ActiveInv
  <2>. QED  BY <2>1, <2>2 DEF InFlight
<1>3. ~Drained
  <2>. SUFFICES ASSUME Drained PROVE FALSE
    OBVIOUS
  <2>1. a \in Range(ready) /\ a.stream \in ended
    BY <1>1, EmptyRange DEF Drained, InFlight
  <2>. QED  BY <2>1 DEF StreamInv, FlightInv, EndedInv
<1>. QED  BY <1>2, <1>3

LEMMA ComingStep ==
  ASSUME StreamInv, PlacesInv, Coming, ~stop, [Next]_vars, ~stop'
  PROVE  Coming'
<1>. DEFINE Watched == {"check", "get", "gather", "exited"}
<1>. SUFFICES ASSUME pc' \in Watched, failed' # {}
              PROVE  ManyLines' \/ (pc' \in {"check", "get"} /\ \E a \in InFlight' : a.kind = "error")
  BY DEF Coming
<1>1. CASE Moves
  <2>1. InFlight' = InFlight /\ ManyLines' = ManyLines
    BY <1>1, MovesAreQuiet DEF Quiet, InFlight, ManyLines, StreamInv, Types
  <2>2. /\ failed' = failed
        /\ \/ pc' = pc
           \/ pc \in {"check", "get"} /\ pc' \in {"check", "get"}
           \/ pc \in {"check", "get"} /\ (active = 0 \/ Drained)
           \/ pc = "gather"
    BY <1>1 DEF Moves, ConsumerMoves, ReaderMoves, vars, Exit, Disconnect,
      ReaderLoop, ReaderCall, ReadEof, PopenFails, Check, GetError, GetTimesOut, Gather, WaitProc,
      CloseStdout, CloseStderr, Close, Kill, Join, CleanUp, Leave, Advance, Cancel, Cleaned, consumerVars, historyVars
  <2>. QED  BY <2>1, <2>2, NotLeft DEF Coming
<1>2. CASE Popen
  BY <1>2 DEF Popen
<1>3. CASE GetSentinel \/ GetLine
  <2>1. /\ queue # <<>> /\ queue' = Tail(queue) /\ ready' = ready /\ Head(queue).kind # "error"
        /\ pc = "get" /\ failed' = failed /\ passed' = passed /\ pc' \in {"check", "cleanup"}
    BY <1>3 DEF GetSentinel, GetLine, Leave, historyVars
  <2>2. Range(queue) = Range(queue') \cup {Head(queue)}
    BY <2>1, RangeSplit DEF StreamInv, Types, TypeOK
  <2>. QED  BY <2>1, <2>2 DEF Coming, InFlight, ManyLines
<1>4. CASE RunCallback
  <2>1. pc' = pc /\ failed' = failed /\ passed' = passed
    BY <1>4 DEF RunCallback, consumerVars, historyVars
  <2>. QED  BY <1>4, <2>1, GivenUp DEF Coming, ManyLines
<1>5. ASSUME NEW s \in Streams, ReadLine(s) \/ ReadError(s) \/ ReaderFinal(s)
      PROVE  ManyLines' \/ (pc' \in {"check", "get"} /\ \E a \in InFlight' : a.kind = "error")
  <2>1. /\ queue' = queue /\ pc' = pc /\ reader[s] # "ended"
        /\ failed' = failed \/ ReadError(s)
    BY <1>5 DEF ReadLine, ReadError, ReaderFinal, Goto, consumerVars, historyVars
  <2>2. pc \in {"check", "get"}
    BY <2>1 DEF StreamInv, LeftInv
  <2>3. ready \in Seq(Callbacks) /\ passed \in [Streams -> Nat]
    BY DEF StreamInv, Types, TypeOK
  <2>4. Range(ready) \subseteq Range(ready')
    <3>1. ASSUME NEW q \in Seq(Callbacks), NEW x \in Callbacks
          PROVE  Append(q, x) \in Seq(Callbacks) /\ Range(q) \subseteq Range(Append(q, x))
      BY AppendFacts
    <3>2. Line(s, passed[s] + 1) \in Callbacks /\ Error(s) \in Callbacks /\ Eof(s) \in Callbacks /\ Done(s) \in Callbacks
      BY <2>3 DEF Callbacks, Items, Line, Error, Eof, Done
    <3>3. \/ ready' = Append(ready, Line(s, passed[s] + 1)) \/ ready' = Append(ready, Error(s))
          \/ ready' = Append(Append(ready, Eof(s)), Done(s))
      BY <1>5, <2>3 DEF ReadLine, ReadError, ReaderFinal, Pass
    <3>. QED  BY <2>3, <3>1, <3>2, <3>3
  <2>5. CASE failed' = failed
    <3>1. ManyLines => ManyLines'
      <4>1. \A r \in Streams : passed[r] \in Nat /\ passed'[r] \in Nat /\ passed'[r] >= passed[r]
        <5>1. passed' = passed \/ passed' = [passed EXCEPT ![s] = @ + 1]
          BY <1>5 DEF ReadLine, ReadError, ReaderFinal, historyVars
        <5>2. \A r \in Streams : passed'[r] = passed[r] \/ passed'[r] = passed[r] + 1
          BY <2>3, <5>1
        <5>3. \A r \in Streams : passed[r] \in Nat
          BY <2>3
        <5>. QED  BY <5>2, <5>3
      <4>2. "stdout" \in Streams /\ "stderr" \in Streams
        BY DEF Streams
      <4>. QED  BY <4>1, <4>2, StreamAssumption DEF ManyLines
    <3>. QED  BY <2>1, <2>2, <2>4, <2>5, <3>1 DEF Coming, InFlight
  <2>6. CASE ReadError(s)
    <3>1. ready' = Append(ready, Error(s)) /\ ready \in Seq(Callbacks) /\ Error(s) \in Callbacks
      BY <2>6 DEF ReadError, Pass, StreamInv, Types, TypeOK, Callbacks, Items, Error
    <3>2. Error(s) \in Range(ready') /\ Error(s).kind = "error"
      BY <3>1, AppendFacts DEF Error
    <3>. QED  BY <2>1, <2>2, <3>2 DEF InFlight
  <2>. QED  BY <2>1, <2>5, <2>6
<1>. QED  BY <1>1, <1>2, <1>3, <1>4, <1>5, NextSteps

LEMMA StopStep ==
  ASSUME StopInv, [Next]_vars
  PROVE  StopInv'
<1>1. CASE UNCHANGED vars \/ Exit \/ Disconnect \/ RunCallback
  BY <1>1 DEF StopInv, vars, Exit, Disconnect, RunCallback, consumerVars
<1>2. ASSUME NEW s \in Streams, Read(s) \/ ReadLine(s) \/ ReadError(s)
      PROVE  StopInv'
  BY <1>2 DEF StopInv, Read, ReaderLoop, ReaderCall, ReadEof, ReaderFinal, ReadLine, ReadError, consumerVars
<1>3. CASE Consume \/ Clean \/ Cancel
  BY <1>3 DEF StopInv, Consume, Clean, Popen, PopenFails, Check, GetSentinel, GetError, GetLine, GetTimesOut,
    Gather, WaitProc, CloseStdout, CloseStderr, Close, Kill, Join, CleanUp, Leave, Advance, Cancel, Cleaned
<1>. QED  BY <1>1, <1>2, <1>3 DEF Next

\* A reader's error is told, and not taken for a normal end of the stream, through the full
\* queue, the sentinels put back and the ends counted, unless so many lines came that the
\* other stream's end takes its place (_push, enqueue_output).
THEOREM ErrorsAreTold == Spec => []ErrorsSurface
<1> DEFINE Inv == StreamInv /\ StopInv /\ ErrorInv
<1>1. Init => Inv
  <2>. SUFFICES ASSUME Init PROVE StopInv /\ ErrorInv
    BY StreamInit
  <2>1. Range(ready) = {} /\ Range(queue) = {} /\ Len(ready) = 0 /\ Len(queue) = 0
    BY EmptyRange DEF Init
  <2>2. PlacesInv
    BY <2>1 DEF PlacesInv, ArriveInv, Arriving, ToEnd, Spaced, Ahead, CrossInv, Crossed
  <2>. QED  BY <2>2 DEF Init, StopInv, ErrorInv, Coming
<1>2. Inv /\ [Next]_vars => Inv'
  <2>. SUFFICES ASSUME Inv, [Next]_vars PROVE Inv'
    OBVIOUS
  <2>1. StreamInv' /\ StopInv'
    BY TypesStep, LeftStep, RestStep, StopStep DEF StreamInv
  <2>2. ASSUME ~stop' PROVE PlacesInv' /\ Coming'
    <3>1. PlacesInv'
      BY <2>2, PlacesStep
    <3>2. CASE Popen
      BY <3>1, <3>2 DEF Popen, Coming
    <3>3. CASE ~Popen
      <4>1. ~stop /\ PlacesInv /\ Coming
        BY <2>2, <3>3, StopOnly DEF ErrorInv
      <4>. QED  BY <2>2, <3>1, <4>1, ComingStep
    <3>. QED  BY <3>2, <3>3
  <2>. QED  BY <2>1, <2>2 DEF ErrorInv
<1>3. Inv => ErrorsSurface
  BY DEF StopInv, ErrorInv, Coming, ManyLines, ErrorsSurface
<1>. QED  BY <1>1, <1>2, <1>3, PTL DEF Spec
=============================================================================
