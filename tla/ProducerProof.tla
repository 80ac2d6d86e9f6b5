---------------------------- MODULE ProducerProof ----------------------------
(***************************************************************************)
(* Proofs about Producer, for any number of blobs of any kinds, any queue  *)
(* size and any number of faults and orderly ends of the stream; and about *)
(* what becomes of the payload of one of them (Events), for every set of   *)
(* payloads and event types and every clock.                               *)
(***************************************************************************)
EXTENDS Producer, Events, FiniteSetTheorems, SequenceTheorems, TLAPS

Topic == {"raw", "deadletter"}

-------------------------------------------------------------------------------
(* Sequences and what they hold.                                           *)

Ascending(s) == \A i, j \in 1 .. Len(s) : i < j => s[i] < s[j]

\* The same of copies, by their blobs.
AscendingCopies(q) == \A i, j \in 1 .. Len(q) : i < j => q[i][2] < q[j][2]

\* An element is appended to what a sequence holds.
LEMMA AppendHolds ==
    ASSUME NEW S, NEW s \in Seq(S), NEW e \in S
    PROVE  /\ Append(s, e) \in Seq(S)
           /\ SetOf(Append(s, e)) = SetOf(s) \union {e}
<1>1. /\ Append(s, e) \in Seq(S)
      /\ Len(Append(s, e)) = Len(s) + 1 /\ Len(s) \in Nat
      /\ \A k \in 1 .. Len(s) : Append(s, e)[k] = s[k]
      /\ Append(s, e)[Len(s) + 1] = e
  BY AppendProperties
<1> DEFINE a == Append(s, e)
<1> HIDE DEF a
<1>2. ASSUME NEW x PROVE x \in SetOf(a) <=> x \in SetOf(s) \union {e}
  <2>1. ASSUME x \in SetOf(a) PROVE x \in SetOf(s) \union {e}
    <3>1. PICK k \in 1 .. Len(a) : x = a[k]
      BY <2>1 DEF SetOf
    <3>2. k = Len(s) + 1 \/ k \in 1 .. Len(s)
      BY <1>1, <3>1 DEF a
    <3> QED
      BY <1>1, <3>1, <3>2 DEF a, SetOf
  <2>2. ASSUME x \in SetOf(s) PROVE x \in SetOf(a)
    <3>1. PICK k \in 1 .. Len(s) : x = s[k]
      BY <2>2 DEF SetOf
    <3>2. k \in 1 .. Len(a) /\ a[k] = x
      BY <1>1, <3>1 DEF a
    <3> QED
      BY <3>2 DEF SetOf
  <2>3. Len(s) + 1 \in 1 .. Len(a) /\ a[Len(s) + 1] = e
    BY <1>1 DEF a
  <2>4. e \in SetOf(a)
    BY <2>3 DEF SetOf
  <2> QED
    BY <2>1, <2>2, <2>4
<1> QED
  BY <1>1, <1>2 DEF a

\* What follows the head of a sequence, and the head itself.
LEMMA TailHolds ==
    ASSUME NEW S, NEW s \in Seq(S), s # <<>>
    PROVE  /\ Tail(s) \in Seq(S) /\ Head(s) \in S
           /\ SetOf(s) = SetOf(Tail(s)) \union {Head(s)}
<1>1. /\ Tail(s) \in Seq(S) /\ Head(s) = s[1] /\ s[1] \in S
      /\ Len(s) \in Nat /\ Len(s) > 0 /\ Len(Tail(s)) = Len(s) - 1
      /\ \A k \in 1 .. Len(s) - 1 : Tail(s)[k] = s[k + 1]
  BY HeadTailProperties, EmptySeq
<1> DEFINE r == Tail(s)
<1> HIDE DEF r
<1>2. ASSUME NEW x PROVE x \in SetOf(s) <=> x \in SetOf(r) \union {s[1]}
  <2>1. ASSUME x \in SetOf(s) PROVE x \in SetOf(r) \union {s[1]}
    <3>1. PICK k \in 1 .. Len(s) : x = s[k]
      BY <2>1 DEF SetOf
    <3>2. CASE k > 1
      <4>1. k - 1 \in 1 .. Len(r) /\ r[k - 1] = x
        BY <1>1, <3>1, <3>2 DEF r
      <4> QED
        BY <4>1 DEF SetOf
    <3> QED
      BY <1>1, <3>1, <3>2
  <2>2. ASSUME x \in SetOf(r) PROVE x \in SetOf(s)
    <3>1. PICK k \in 1 .. Len(r) : x = r[k]
      BY <2>2 DEF SetOf
    <3>2. k + 1 \in 1 .. Len(s) /\ s[k + 1] = x
      BY <1>1, <3>1 DEF r
    <3> QED
      BY <3>2 DEF SetOf
  <2>3. s[1] \in SetOf(s)
    BY <1>1 DEF SetOf
  <2> QED
    BY <2>1, <2>2, <2>3
<1> QED
  BY <1>1, <1>2 DEF r

\* Taking one element out shifts what follows it.
LEMMA WithoutShifts ==
    ASSUME NEW S, NEW s \in Seq(S), NEW i \in 1 .. Len(s)
    PROVE  /\ Without(s, i) \in Seq(S)
           /\ Len(Without(s, i)) = Len(s) - 1
           /\ \A k \in 1 .. Len(s) - 1 :
                 Without(s, i)[k] = IF k < i THEN s[k] ELSE s[k + 1]
<1> DEFINE a == SubSeq(s, 1, i - 1)
           b == SubSeq(s, i + 1, Len(s))
<1>1. /\ a \in Seq(S) /\ Len(a) = i - 1
      /\ \A k \in 1 .. i - 1 : a[k] = s[k]
  BY SubSeqProperties
<1>2. /\ b \in Seq(S) /\ Len(b) = Len(s) - i
      /\ \A k \in 1 .. Len(s) - i : b[k] = s[i + k]
  BY SubSeqProperties
<1> HIDE DEF a, b
<1> DEFINE c == a \o b
<1>3. /\ c \in Seq(S) /\ Len(c) = Len(a) + Len(b)
      /\ \A k \in 1 .. Len(a) + Len(b) :
            c[k] = IF k <= Len(a) THEN a[k] ELSE b[k - Len(a)]
  BY <1>1, <1>2, ConcatProperties
<1>5. Len(a) + Len(b) = Len(s) - 1 /\ Len(s) \in Nat
  BY <1>1, <1>2
<1> HIDE DEF c
<1>4. ASSUME NEW k \in 1 .. Len(s) - 1
      PROVE  c[k] = IF k < i THEN s[k] ELSE s[k + 1]
  <2>1. CASE k < i
    <3>1. k \in 1 .. Len(a) + Len(b) /\ k <= Len(a) /\ k \in 1 .. i - 1
      BY <1>1, <1>5, <2>1
    <3> QED
      BY <1>1, <1>3, <2>1, <3>1
  <2>2. CASE k >= i
    <3>1. /\ k \in 1 .. Len(a) + Len(b) /\ ~(k <= Len(a)) /\ ~(k < i)
          /\ k - Len(a) = k - i + 1 /\ k - i + 1 \in 1 .. Len(s) - i
          /\ i + (k - i + 1) = k + 1
      BY <1>1, <1>5, <2>2
    <3>2. c[k] = b[k - i + 1]
      BY <1>3, <3>1
    <3>3. b[k - i + 1] = s[i + (k - i + 1)]
      BY <1>2, <3>1
    <3> QED
      BY <3>1, <3>2, <3>3
  <2> QED
    BY <2>1, <2>2
<1> QED
  BY <1>3, <1>4, <1>5 DEF Without, a, b, c

\* What is left is what was there at the other places, and it is in order if the
\* whole was.
LEMMA WithoutHolds ==
    ASSUME NEW S, NEW s \in Seq(S), NEW i \in 1 .. Len(s)
    PROVE  /\ Without(s, i) \in Seq(S)
           /\ SetOf(Without(s, i)) = {s[j] : j \in (1 .. Len(s)) \ {i}}
           /\ AscendingCopies(s) => AscendingCopies(Without(s, i))
<1> DEFINE w == Without(s, i)
           from(k) == IF k < i THEN k ELSE k + 1
<1>1. /\ w \in Seq(S) /\ Len(w) = Len(s) - 1 /\ Len(s) \in Nat
      /\ \A k \in 1 .. Len(s) - 1 : w[k] = IF k < i THEN s[k] ELSE s[k + 1]
  <2>1. /\ Without(s, i) \in Seq(S) /\ Len(Without(s, i)) = Len(s) - 1
        /\ \A k \in 1 .. Len(s) - 1 :
              Without(s, i)[k] = IF k < i THEN s[k] ELSE s[k + 1]
    BY WithoutShifts, Zenon
  <2>2. Len(s) \in Nat
    OBVIOUS
  <2> QED
    BY <2>1, <2>2, Zenon
<1> HIDE DEF w
<1>2. ASSUME NEW k \in 1 .. Len(w)
      PROVE  from(k) \in (1 .. Len(s)) \ {i} /\ w[k] = s[from(k)]
  <2>1. CASE k < i
    BY <1>1, <2>1
  <2>2. CASE k >= i
    BY <1>1, <2>2
  <2> QED
    BY <2>1, <2>2
<1>3. ASSUME NEW j \in (1 .. Len(s)) \ {i}
      PROVE  \E k \in 1 .. Len(w) : w[k] = s[j]
  <2>1. CASE j < i
    <3>1. j \in 1 .. Len(w) /\ w[j] = s[j]
      BY <1>1, <2>1
    <3> QED
      BY <3>1
  <2>2. CASE j > i
    <3>1. j - 1 \in 1 .. Len(w) /\ ~(j - 1 < i) /\ (j - 1) + 1 = j
      BY <1>1, <2>2
    <3>2. w[j - 1] = s[j]
      BY <1>1, <3>1
    <3> QED
      BY <3>1, <3>2
  <2> QED
    BY <2>1, <2>2
<1>4. SetOf(w) = {s[j] : j \in (1 .. Len(s)) \ {i}}
  <2> HIDE DEF from
  <2> QED
    BY <1>2, <1>3, ZenonT(60) DEF SetOf
<1>5. ASSUME AscendingCopies(s) PROVE AscendingCopies(w)
  <2> SUFFICES ASSUME NEW j \in 1 .. Len(w), NEW k \in 1 .. Len(w), j < k
               PROVE  w[j][2] < w[k][2]
    BY DEF AscendingCopies
  <2>1. from(j) < from(k)
    OBVIOUS
  <2>2. /\ from(j) \in 1 .. Len(s) /\ from(k) \in 1 .. Len(s)
        /\ w[j] = s[from(j)] /\ w[k] = s[from(k)]
    BY <1>2
  <2> HIDE DEF from
  <2> QED
    BY <1>5, <2>1, <2>2 DEF AscendingCopies
<1> QED
  BY <1>1, <1>4, <1>5 DEF w

\* A larger number at the end of an ascending sequence keeps it ascending.
LEMMA AppendAscends ==
    ASSUME NEW s \in Seq(Int), Ascending(s), NEW e \in Int,
           \A b \in SetOf(s) : b < e
    PROVE  Ascending(Append(s, e))
<1>1. /\ Len(Append(s, e)) = Len(s) + 1 /\ Len(s) \in Nat
      /\ \A k \in 1 .. Len(s) : Append(s, e)[k] = s[k]
      /\ Append(s, e)[Len(s) + 1] = e
  BY AppendProperties
<1> DEFINE a == Append(s, e)
<1> HIDE DEF a
<1> SUFFICES ASSUME NEW i \in 1 .. Len(a), NEW j \in 1 .. Len(a), i < j
             PROVE  a[i] < a[j]
  BY DEF Ascending, a
<1>2. i \in 1 .. Len(s) /\ a[i] = s[i]
  BY <1>1 DEF a
<1>3. CASE j = Len(s) + 1
  <2>1. s[i] \in SetOf(s)
    BY <1>2 DEF SetOf
  <2> QED
    BY <1>1, <1>2, <1>3, <2>1 DEF a
<1>4. CASE j \in 1 .. Len(s)
  BY <1>1, <1>2, <1>4 DEF Ascending, a
<1> QED
  BY <1>1, <1>3, <1>4 DEF a

\* The same for the copies in the queue.
LEMMA AppendAscendsCopies ==
    ASSUME NEW S, NEW s \in Seq(S), AscendingCopies(s), NEW e \in S,
           \A c \in SetOf(s) : c[2] < e[2]
    PROVE  AscendingCopies(Append(s, e))
<1>1. /\ Len(Append(s, e)) = Len(s) + 1 /\ Len(s) \in Nat
      /\ \A k \in 1 .. Len(s) : Append(s, e)[k] = s[k]
      /\ Append(s, e)[Len(s) + 1] = e
  BY AppendProperties
<1> DEFINE a == Append(s, e)
<1> HIDE DEF a
<1> SUFFICES ASSUME NEW i \in 1 .. Len(a), NEW j \in 1 .. Len(a), i < j
             PROVE  a[i][2] < a[j][2]
  BY DEF AscendingCopies, a
<1>2. i \in 1 .. Len(s) /\ a[i] = s[i]
  BY <1>1 DEF a
<1>3. CASE j = Len(s) + 1
  <2>1. s[i] \in SetOf(s)
    BY <1>2 DEF SetOf
  <2>2. a[j] = e
    BY <1>1, <1>3 DEF a
  <2> QED
    BY <1>2, <2>1, <2>2
<1>4. CASE j \in 1 .. Len(s)
  BY <1>1, <1>2, <1>4 DEF AscendingCopies, a
<1> QED
  BY <1>1, <1>3, <1>4 DEF a

\* The head of an ascending sequence comes before the rest, which is ascending.
LEMMA TailAscends ==
    ASSUME NEW s \in Seq(Int), s # <<>>, Ascending(s)
    PROVE  /\ Ascending(Tail(s))
           /\ \A b \in SetOf(Tail(s)) : Head(s) < b
<1>1. /\ Head(s) = s[1] /\ Len(s) \in Nat /\ Len(s) > 0 /\ Len(Tail(s)) = Len(s) - 1
      /\ \A k \in 1 .. Len(s) - 1 : Tail(s)[k] = s[k + 1]
  BY HeadTailProperties, EmptySeq
<1> DEFINE r == Tail(s)
<1> HIDE DEF r
<1>2. Ascending(r)
  <2> SUFFICES ASSUME NEW i \in 1 .. Len(r), NEW j \in 1 .. Len(r), i < j
               PROVE  r[i] < r[j]
    BY DEF Ascending
  <2>1. /\ i + 1 \in 1 .. Len(s) /\ j + 1 \in 1 .. Len(s) /\ i + 1 < j + 1
        /\ r[i] = s[i + 1] /\ r[j] = s[j + 1]
    BY <1>1 DEF r
  <2> QED
    BY <2>1 DEF Ascending
<1>3. ASSUME NEW b \in SetOf(r) PROVE Head(s) < b
  <2>1. PICK k \in 1 .. Len(r) : b = r[k]
    BY DEF SetOf
  <2>2. k + 1 \in 1 .. Len(s) /\ 1 \in 1 .. Len(s) /\ 1 < k + 1 /\ b = s[k + 1]
    BY <1>1, <2>1 DEF r
  <2> QED
    BY <1>1, <2>2 DEF Ascending
<1> QED
  BY <1>2, <1>3 DEF r

\* An empty sequence holds nothing, and nothing in it is out of order.
LEMMA EmptyHolds ==
    /\ SetOf(<<>>) = {} /\ Ascending(<<>>) /\ AscendingCopies(<<>>)
    /\ \A S : <<>> \in Seq(S)
<1>1. Len(<<>>) = 0
  OBVIOUS
<1>2. 1 .. Len(<<>>) = {}
  BY <1>1
<1>3. SetOf(<<>>) = {} /\ Ascending(<<>>) /\ AscendingCopies(<<>>)
  BY <1>2 DEF SetOf, Ascending, AscendingCopies
<1>4. \A S : <<>> \in Seq(S)
  BY EmptySeq
<1> QED
  BY <1>3, <1>4

-------------------------------------------------------------------------------
(* Types.                                                                  *)

TypeInv ==
    /\ sent \in 0 .. Len(Kinds)
    /\ pc \in {"down", "top", "connect", "stream", "backoff", "flush", "stopped"}
    /\ wire \in Seq(Blob)
    /\ wire # <<>> => pc = "stream"
    /\ queue \in Seq(Copy)
    /\ log \in [Topic -> Seq(Blob)]
    /\ backoff \in MinBackoff .. MaxBackoff
    /\ stop \in BOOLEAN
    /\ missed \subseteq Blob /\ dropped \subseteq Blob
    /\ lost \subseteq Copy
    /\ ends \in Nat /\ faults \in Nat

\* The stream has a length.
LEMMA LengthOfKinds == Len(Kinds) \in Nat
  BY KindAssumption DEF KindAssumption

\* The backoff starts within its bounds.
LEMMA LeastBackoff == MinBackoff \in MinBackoff .. MaxBackoff
  BY BackoffAssumption DEF BackoffAssumption, MinBackoff

\* The variables have their types before the producer starts.
LEMMA TypeInit == Init => TypeInv
<1> SUFFICES ASSUME Init PROVE TypeInv
  OBVIOUS
<1>1. wire \in Seq(Blob) /\ queue \in Seq(Copy)
  BY EmptyHolds DEF Init
<1>2. log \in [Topic -> Seq(Blob)]
  BY EmptyHolds DEF Init, Topic
<1>3. backoff \in MinBackoff .. MaxBackoff
  BY LeastBackoff DEF Init
<1>4. sent \in 0 .. Len(Kinds)
  BY LengthOfKinds DEF Init
<1> QED
  BY <1>1, <1>2, <1>3, <1>4 DEF Init, TypeInv

\* What the head of the connection and what an entry of the queue is.
LEMMA HeadType ==
    ASSUME TypeInv, wire # <<>>
    PROVE  /\ Head(wire) \in Blob /\ Tail(wire) \in Seq(Blob)
           /\ SetOf(wire) = SetOf(Tail(wire)) \union {Head(wire)}
           /\ \A t \in Topic : <<t, Head(wire)>> \in Copy
<1>1. wire \in Seq(Blob)
  BY DEF TypeInv
<1>2. /\ Head(wire) \in Blob /\ Tail(wire) \in Seq(Blob)
      /\ SetOf(wire) = SetOf(Tail(wire)) \union {Head(wire)}
  BY <1>1, TailHolds
<1> QED
  BY <1>2 DEF Copy, Topic

\* Each entry of the queue is a copy of a blob for a topic.
LEMMA EntryType ==
    ASSUME TypeInv, NEW i \in 1 .. Len(queue)
    PROVE  /\ queue[i] \in Copy /\ queue[i] \in SetOf(queue)
           /\ queue[i][1] \in Topic /\ queue[i][2] \in Blob
           /\ queue[i] = <<queue[i][1], queue[i][2]>>
<1>1. queue[i] \in Copy
  BY DEF TypeInv
<1> QED
  BY <1>1 DEF Copy, Topic, SetOf

\* A sequence holds elements of the set it is over.
LEMMA HeldType ==
    ASSUME NEW S, NEW s \in Seq(S)
    PROVE  SetOf(s) \subseteq S
  BY DEF SetOf

\* Each step keeps the types, and leaves a connection only with an empty wire.
LEMMA TypeStep == TypeInv /\ [Next]_vars => TypeInv'
<1> SUFFICES ASSUME TypeInv, [Next]_vars
             PROVE  TypeInv'
  OBVIOUS
<1> USE LengthOfKinds, BackoffAssumption, BoundAssumption
    DEF BackoffAssumption, BoundAssumption
<1>1. CASE Send
  <2>1. sent + 1 \in Blob /\ sent' = sent + 1 /\ sent' \in 0 .. Len(Kinds)
    BY <1>1 DEF Send, TypeInv, Blob
  <2>2. wire' \in Seq(Blob)
    <3>1. wire \in Seq(Blob) /\ Append(wire, sent') \in Seq(Blob)
      BY <2>1, AppendHolds DEF TypeInv
    <3> QED
      BY <1>1, <3>1 DEF Send
  <2>3. missed' \subseteq Blob
    BY <1>1, <2>1 DEF Send, TypeInv
  <2>4. wire' # <<>> => pc = "stream"
    BY <1>1 DEF Send, TypeInv
  <2> QED
    BY <1>1, <2>1, <2>2, <2>3, <2>4 DEF Send, TypeInv
<1>2. CASE Start
  <2>1. wire' = <<>>
    BY <1>2 DEF Start, TypeInv, Running
  <2> QED
    BY <1>2, <2>1, LeastBackoff DEF Start, TypeInv
<1>3. CASE LoopHead
  BY <1>3 DEF LoopHead, TypeInv
<1>4. CASE Connect
  BY <1>4 DEF Connect, TypeInv
<1>5. CASE HandleValid
  <2>1. queue' \in Seq(Copy)
    BY <1>5, HeadType, AppendHolds DEF HandleValid, Enqueue, TypeInv, Topic
  <2> QED
    BY <1>5, <2>1, HeadType DEF HandleValid, TypeInv
<1>6. CASE HandleInvalid
  <2>1. queue' \in Seq(Copy)
    BY <1>6, HeadType, AppendHolds DEF HandleInvalid, Enqueue, TypeInv, Topic
  <2> QED
    BY <1>6, <2>1, HeadType DEF HandleInvalid, TypeInv
<1>7. CASE HandleRaises
  BY <1>7, HeadType DEF HandleRaises, TypeInv
<1>8. CASE StreamEnds
  BY <1>8 DEF StreamEnds, TypeInv, MinBackoff
<1>9. CASE StreamBreaks
  <2>1. SetOf(wire) \subseteq Blob
    BY HeldType DEF TypeInv
  <2> QED
    BY <1>9, <2>1, EmptyHolds DEF StreamBreaks, TypeInv
<1>10. CASE BackoffOver
  <2>1. AfterBackoff(backoff) \in MinBackoff .. MaxBackoff
    BY DEF TypeInv, AfterBackoff, MinBackoff
  <2> QED
    BY <1>10, <2>1 DEF BackoffOver, TypeInv
<1>11. CASE RequestStop
  BY <1>11 DEF RequestStop, TypeInv
<1>12. CASE FlushReturns
  <2>1. SetOf(queue) \subseteq Copy
    BY HeldType DEF TypeInv
  <2> QED
    BY <1>12, <2>1, EmptyHolds DEF FlushReturns, TypeInv
<1>13. CASE Deliver
  <2>1. PICK i \in 1 .. Len(queue) :
           /\ log' = [log EXCEPT ![queue[i][1]] = Append(@, queue[i][2])]
           /\ queue' = Without(queue, i)
    BY <1>13 DEF Deliver
  <2>2. queue[i][1] \in Topic /\ queue[i][2] \in Blob
    BY EntryType
  <2>3. Append(log[queue[i][1]], queue[i][2]) \in Seq(Blob)
    BY <2>2, AppendHolds DEF TypeInv
  <2>4. log' \in [Topic -> Seq(Blob)]
    BY <2>1, <2>2, <2>3 DEF TypeInv
  <2>5. queue' \in Seq(Copy)
    BY <2>1, WithoutHolds DEF TypeInv
  <2> QED
    BY <1>13, <2>4, <2>5 DEF Deliver, TypeInv
<1>14. CASE DeliveryFails
  <2>1. PICK i \in 1 .. Len(queue) :
           /\ lost' = lost \union {queue[i]}
           /\ queue' = Without(queue, i)
    BY <1>14 DEF DeliveryFails
  <2>2. queue[i] \in Copy
    BY EntryType
  <2>3. queue' \in Seq(Copy)
    BY <2>1, WithoutHolds DEF TypeInv
  <2> QED
    BY <1>14, <2>1, <2>2, <2>3 DEF DeliveryFails, TypeInv
<1>15. CASE Crash
  <2>1. SetOf(wire) \subseteq Blob /\ SetOf(queue) \subseteq Copy
    BY HeldType DEF TypeInv
  <2> QED
    BY <1>15, <2>1, EmptyHolds DEF Crash, TypeInv
<1>16. CASE UNCHANGED vars
  BY <1>16 DEF vars, TypeInv
<1> QED
  BY <1>1, <1>2, <1>3, <1>4, <1>5, <1>6, <1>7, <1>8, <1>9, <1>10, <1>11, <1>12,
     <1>13, <1>14, <1>15, <1>16 DEF Next, Handle

\* Every variable of the producer has its type, the backoff stays between its
\* bounds, and what is on a connection belongs to an open one.
THEOREM TypeHolds == Spec => []TypeInv
  BY TypeInit, TypeStep, PTL DEF Spec

-------------------------------------------------------------------------------
(* The order of a topic.                                                   *)

\* What the connection holds comes after what is queued, and what is queued for
\* a topic after what the topic has.  The wire and the queue are in order, and
\* all there is was sent.
Ahead ==
    /\ Ascending(wire) /\ AscendingCopies(queue)
    /\ \A b \in SetOf(wire) : b <= sent
    /\ \A c \in SetOf(queue) : c[2] <= sent /\ \A w \in SetOf(wire) : c[2] < w
    /\ \A t \in Topic : \A b \in SetOf(log[t]) :
          /\ b <= sent
          /\ \A w \in SetOf(wire) : b < w
          /\ \A c \in SetOf(queue) : c[1] = t => b < c[2]

TopicsAscend == \A t \in Topic : Ascending(log[t])

OrderInv == TypeInv /\ Ahead /\ TopicsAscend

\* The order holds at first.
LEMMA OrderInit == Init => OrderInv
<1> SUFFICES ASSUME Init PROVE OrderInv
  OBVIOUS
<1>1. wire = <<>> /\ queue = <<>> /\ \A t \in Topic : log[t] = <<>>
  BY DEF Init, Topic
<1>2. Ahead /\ TopicsAscend
  BY <1>1, EmptyHolds DEF Ahead, TopicsAscend
<1> QED
  BY <1>2, TypeInit DEF OrderInv

\* When neither the topics grow nor the queue and the wire gain anything, they
\* need only stay in order.
LEMMA FewerStayAhead ==
    ASSUME Ahead, sent' = sent, log' = log,
           SetOf(wire)' \subseteq SetOf(wire), SetOf(queue)' \subseteq SetOf(queue),
           Ascending(wire)', AscendingCopies(queue)'
    PROVE  Ahead'
<1> DEFINE W == SetOf(wire)
           Q == SetOf(queue)
           L(t) == SetOf(log[t])
<1>1. \A t \in Topic : L(t)' = L(t)
  BY DEF SetOf
<1>2. W' \subseteq W /\ Q' \subseteq Q
  OBVIOUS
<1>3. /\ \A b \in W : b <= sent
      /\ \A c \in Q : c[2] <= sent /\ \A w \in W : c[2] < w
      /\ \A t \in Topic : \A b \in L(t) :
          /\ b <= sent
          /\ \A w \in W : b < w
          /\ \A c \in Q : c[1] = t => b < c[2]
  BY DEF Ahead
<1> SUFFICES
      /\ \A b \in W' : b <= sent'
      /\ \A c \in Q' : c[2] <= sent' /\ \A w \in W' : c[2] < w
      /\ \A t \in Topic : \A b \in L(t)' :
          /\ b <= sent'
          /\ \A w \in W' : b < w
          /\ \A c \in Q' : c[1] = t => b < c[2]
  BY DEF Ahead
<1> HIDE DEF W, Q, L
<1> QED
  BY <1>1, <1>2, <1>3

\* The order of the topics is kept by a step that leaves the topics alone.
LEMMA TopicsStay ==
    ASSUME TopicsAscend, log' = log
    PROVE  TopicsAscend'
  BY DEF TopicsAscend, Ascending

\* The stream sends the next blob, after all it has sent.
LEMMA SendStaysAhead ==
    ASSUME OrderInv, Send
    PROVE  Ahead'
<1>1. /\ sent' = sent + 1 /\ queue' = queue /\ log' = log
      /\ wire' = wire \/ wire' = Append(wire, sent + 1)
  BY DEF Send
<1>2. /\ sent \in Int /\ sent + 1 \in Int /\ sent + 1 \in Blob /\ wire \in Seq(Blob)
      /\ wire \in Seq(Int) /\ queue \in Seq(Copy) /\ log \in [Topic -> Seq(Blob)]
  BY DEF OrderInv, TypeInv, Send, Blob
<1> DEFINE W == SetOf(wire)
           Q == SetOf(queue)
           L(t) == SetOf(log[t])
<1>3. /\ \A b \in W : b \in Int /\ b <= sent
      /\ \A c \in Q : c[2] \in Int /\ c[2] <= sent /\ \A w \in W : c[2] < w
      /\ \A t \in Topic : \A b \in L(t) :
          /\ b \in Int /\ b <= sent
          /\ \A w \in W : b < w
          /\ \A c \in Q : c[1] = t => b < c[2]
  <2>1. W \subseteq Blob /\ Q \subseteq Copy /\ \A t \in Topic : L(t) \subseteq Blob
    BY <1>2, HeldType
  <2>2. \A b \in Blob : b \in Int
    BY DEF Blob
  <2>3. \A c \in Copy : c[2] \in Blob
    BY DEF Copy
  <2>4. Ahead
    BY DEF OrderInv
  <2> QED
    BY <2>1, <2>2, <2>3, <2>4 DEF Ahead
<1>4. Q' = Q /\ \A t \in Topic : L(t)' = L(t)
  BY <1>1 DEF SetOf
<1>5. W' \subseteq W \union {sent + 1}
  BY <1>1, <1>2, AppendHolds, ZenonT(60)
<1>6. Ascending(wire)'
  <2>1. Ascending(wire)
    BY DEF OrderInv, Ahead
  <2>2. \A b \in SetOf(wire) : b < sent + 1
    BY <1>2, <1>3
  <2>3. Ascending(Append(wire, sent + 1))
    BY <1>2, <2>1, <2>2, AppendAscends
  <2> QED
    BY <1>1, <2>1, <2>3
<1>7. AscendingCopies(queue)'
  BY <1>1 DEF OrderInv, Ahead
<1> SUFFICES
      /\ \A b \in W' : b <= sent'
      /\ \A c \in Q' : c[2] <= sent' /\ \A w \in W' : c[2] < w
      /\ \A t \in Topic : \A b \in L(t)' :
          /\ b <= sent'
          /\ \A w \in W' : b < w
          /\ \A c \in Q' : c[1] = t => b < c[2]
  BY <1>6, <1>7 DEF Ahead
<1> HIDE DEF W, Q, L
<1>8. \A b \in W' : b <= sent'
  BY <1>1, <1>2, <1>3, <1>5
<1>9. \A c \in Q' : c[2] <= sent' /\ \A w \in W' : c[2] < w
  BY <1>1, <1>2, <1>3, <1>4, <1>5
<1>10. \A t \in Topic : \A b \in L(t)' :
          /\ b <= sent'
          /\ \A w \in W' : b < w
          /\ \A c \in Q' : c[1] = t => b < c[2]
  BY <1>1, <1>2, <1>3, <1>4, <1>5
<1> QED
  BY <1>8, <1>9, <1>10

\* The head of the wire moves to the end of the queue.
LEMMA EnqueueStaysAhead ==
    ASSUME OrderInv, wire # <<>>, NEW t \in Topic, Enqueue(t), wire' = Tail(wire),
           sent' = sent, log' = log
    PROVE  Ahead'
<1> DEFINE h == Head(wire)
           W == SetOf(wire)
           Q == SetOf(queue)
           L(u) == SetOf(log[u])
<1>1. /\ h \in Blob /\ W = SetOf(Tail(wire)) \union {h} /\ <<t, h>> \in Copy
      /\ wire \in Seq(Int) /\ queue \in Seq(Copy) /\ queue' = Append(queue, <<t, h>>)
      /\ <<t, h>>[1] = t /\ <<t, h>>[2] = h
  BY HeadType DEF OrderInv, TypeInv, Enqueue, Blob
<1>2. /\ \A b \in W : b <= sent
      /\ \A c \in Q : c[2] <= sent /\ \A w \in W : c[2] < w
      /\ \A u \in Topic : \A b \in L(u) :
          /\ b <= sent
          /\ \A w \in W : b < w
          /\ \A c \in Q : c[1] = u => b < c[2]
      /\ Ascending(wire) /\ AscendingCopies(queue)
  BY DEF OrderInv, Ahead
<1>3. /\ Ascending(Tail(wire))
      /\ \A b \in SetOf(Tail(wire)) : h < b
  BY <1>1, <1>2, TailAscends
<1>4. W' = SetOf(Tail(wire)) /\ Q' = Q \union {<<t, h>>} /\ \A u \in Topic : L(u)' = L(u)
  <2>1. PICK e \in Copy : e = <<t, h>>
    BY <1>1
  <2>3. SetOf(Append(queue, e)) = SetOf(queue) \union {e}
    BY <1>1, AppendHolds
  <2>2. Q' = SetOf(Append(queue, e))
    BY <1>1, <2>1 DEF SetOf
  <2> QED
    BY <2>1, <2>2, <2>3 DEF SetOf
<1>5. Ascending(wire)'
  BY <1>3
<1>6. AscendingCopies(queue)'
  <2>1. \A c \in SetOf(queue) : c[2] < <<t, h>>[2]
    BY <1>1, <1>2
  <2>2. AscendingCopies(Append(queue, <<t, h>>))
    BY <1>1, <1>2, <2>1, AppendAscendsCopies
  <2> QED
    BY <1>1, <2>2
<1> SUFFICES
      /\ \A b \in W' : b <= sent'
      /\ \A c \in Q' : c[2] <= sent' /\ \A w \in W' : c[2] < w
      /\ \A u \in Topic : \A b \in L(u)' :
          /\ b <= sent'
          /\ \A w \in W' : b < w
          /\ \A c \in Q' : c[1] = u => b < c[2]
  BY <1>5, <1>6 DEF Ahead
<1> DEFINE new == <<t, h>>
           rest == SetOf(Tail(wire))
<1>7. /\ W = rest \union {h} /\ W' = rest /\ Q' = Q \union {new}
      /\ new[1] = t /\ new[2] = h /\ \A b \in rest : h < b
  BY <1>1, <1>3, <1>4
<1> HIDE DEF W, Q, L, h, new, rest
<1> QED
  BY <1>2, <1>4, <1>7

\* A copy leaves the queue, delivered or lost.
LEMMA RemovalLeaves ==
    ASSUME OrderInv, NEW i \in 1 .. Len(queue), queue' = Without(queue, i)
    PROVE  /\ SetOf(queue)' \subseteq SetOf(queue)
           /\ SetOf(queue)' = {queue[j] : j \in (1 .. Len(queue)) \ {i}}
           /\ AscendingCopies(queue)'
<1>1. queue \in Seq(Copy) /\ AscendingCopies(queue)
  BY DEF OrderInv, TypeInv, Ahead
<1>2. /\ SetOf(Without(queue, i)) = {queue[j] : j \in (1 .. Len(queue)) \ {i}}
      /\ AscendingCopies(Without(queue, i))
  BY <1>1, WithoutHolds
<1>3. {queue[j] : j \in (1 .. Len(queue)) \ {i}} \subseteq SetOf(queue)
  BY DEF SetOf
<1> QED
  BY <1>2, <1>3

\* The first queued copy of a topic is what the topic gets next.
LEMMA DeliverStaysAhead ==
    ASSUME OrderInv, NEW i \in 1 .. Len(queue), InOrder(i),
           log' = [log EXCEPT ![queue[i][1]] = Append(@, queue[i][2])],
           queue' = Without(queue, i), wire' = wire, sent' = sent
    PROVE  Ahead' /\ TopicsAscend'
<1>1. PICK top, blob : /\ top = queue[i][1] /\ blob = queue[i][2]
                       /\ top \in Topic /\ blob \in Blob
                       /\ queue[i] \in SetOf(queue)
  BY EntryType DEF OrderInv
<1> DEFINE W == SetOf(wire)
           Q == SetOf(queue)
           L(t) == SetOf(log[t])
<1>2. log \in [Topic -> Seq(Blob)]
  BY DEF OrderInv, TypeInv
<1>3. /\ log'[top] = Append(log[top], blob)
      /\ \A t \in Topic : t # top => log'[t] = log[t]
  BY <1>1, <1>2
<1>4. L(top)' = L(top) \union {blob} /\ \A t \in Topic : t # top => L(t)' = L(t)
  <2>1. SetOf(Append(log[top], blob)) = SetOf(log[top]) \union {blob}
    BY <1>1, <1>2, AppendHolds
  <2> QED
    BY <1>3, <2>1 DEF SetOf
<1>5. /\ \A b \in W : b <= sent
      /\ \A c \in Q : c[2] <= sent /\ \A w \in W : c[2] < w
      /\ \A t \in Topic : \A b \in L(t) :
          /\ b <= sent
          /\ \A w \in W : b < w
          /\ \A c \in Q : c[1] = t => b < c[2]
      /\ Ascending(wire)
  BY DEF OrderInv, Ahead
<1>6. /\ Q' \subseteq Q /\ AscendingCopies(queue)'
      /\ Q' = {queue[j] : j \in (1 .. Len(queue)) \ {i}}
  BY RemovalLeaves
<1>7. W' = W
  BY DEF SetOf
<1>8. \A c \in Q' : c[1] = top => blob < c[2]
  <2> SUFFICES ASSUME NEW c \in Q', c[1] = top PROVE blob < c[2]
    OBVIOUS
  <2>1. PICK j \in (1 .. Len(queue)) \ {i} : c = queue[j]
    BY <1>6
  <2>2. ~(j < i)
    <3>1. j < i => j \in 1 .. (i - 1)
      OBVIOUS
    <3> QED
      BY <1>1, <2>1, <3>1 DEF InOrder
  <2>3. i < j
    BY <2>2
  <2> QED
    BY <1>1, <2>1, <2>3 DEF OrderInv, Ahead, AscendingCopies
<1>9. /\ blob <= sent /\ \A w \in W : blob < w
      /\ \A b \in L(top) : b < blob
  BY <1>1, <1>5
<1>10. TopicsAscend'
  <2>1. \A t \in Topic : Ascending(log[t])
    BY DEF OrderInv, TopicsAscend
  <2>2. Ascending(Append(log[top], blob))
    <3>1. log[top] \in Seq(Int) /\ blob \in Int
      BY <1>1, <1>2 DEF Blob
    <3>2. \A b \in SetOf(log[top]) : b < blob
      BY <1>9
    <3>3. Ascending(log[top])
      BY <1>1, <2>1
    <3> QED
      BY <3>1, <3>2, <3>3, AppendAscends
  <2>3. \A t \in Topic : Ascending(log'[t])
    BY <1>3, <2>1, <2>2
  <2> QED
    BY <2>3 DEF TopicsAscend
<1>11. Ahead'
  <2>1. Ascending(wire)'
    BY <1>5
  <2> SUFFICES
        /\ \A b \in W' : b <= sent'
        /\ \A c \in Q' : c[2] <= sent' /\ \A w \in W' : c[2] < w
        /\ \A t \in Topic : \A b \in L(t)' :
            /\ b <= sent'
            /\ \A w \in W' : b < w
            /\ \A c \in Q' : c[1] = t => b < c[2]
    BY <1>6, <2>1 DEF Ahead
  <2> HIDE DEF W, Q, L
  <2> QED
    BY <1>4, <1>5, <1>6, <1>7, <1>8, <1>9
<1> QED
  BY <1>10, <1>11

\* Each step keeps the order.
LEMMA OrderStep == OrderInv /\ [Next]_vars => OrderInv'
<1> SUFFICES ASSUME OrderInv, [Next]_vars
             PROVE  OrderInv'
  OBVIOUS
<1>1. TypeInv /\ TypeInv' /\ Ahead /\ TopicsAscend
  BY TypeStep DEF OrderInv
<1>2. Ascending(wire) /\ AscendingCopies(queue)
  BY <1>1 DEF Ahead
<1>3. wire # <<>> => /\ Ascending(Tail(wire))
                     /\ SetOf(Tail(wire)) \subseteq SetOf(wire)
  <2>1. wire \in Seq(Int)
    BY <1>1 DEF TypeInv, Blob
  <2> QED
    BY <1>1, <1>2, <2>1, TailAscends, HeadType
<1> SUFFICES Ahead' /\ TopicsAscend'
  BY <1>1 DEF OrderInv
<1>4. CASE Send
  BY <1>1, <1>4, SendStaysAhead, TopicsStay DEF Send
<1>5. CASE HandleValid
  BY <1>1, <1>5, EnqueueStaysAhead, TopicsStay DEF HandleValid, Topic
<1>6. CASE HandleInvalid
  BY <1>1, <1>6, EnqueueStaysAhead, TopicsStay DEF HandleInvalid, Topic
<1>7. CASE HandleRaises
  <2>1. Ascending(wire)' /\ SetOf(wire)' \subseteq SetOf(wire)
    BY <1>3, <1>7 DEF HandleRaises
  <2>2. AscendingCopies(queue)' /\ SetOf(queue)' \subseteq SetOf(queue)
    BY <1>2, <1>7 DEF HandleRaises
  <2> QED
    BY <1>1, <1>7, <2>1, <2>2, FewerStayAhead, TopicsStay DEF HandleRaises
<1>8. CASE Deliver
  <2>1. PICK i \in 1 .. Len(queue) :
           /\ InOrder(i)
           /\ log' = [log EXCEPT ![queue[i][1]] = Append(@, queue[i][2])]
           /\ queue' = Without(queue, i)
    BY <1>8 DEF Deliver
  <2> QED
    BY <1>8, <2>1, DeliverStaysAhead DEF Deliver
<1>9. CASE DeliveryFails
  <2>1. PICK i \in 1 .. Len(queue) : queue' = Without(queue, i)
    BY <1>9 DEF DeliveryFails
  <2>2. AscendingCopies(queue)' /\ SetOf(queue)' \subseteq SetOf(queue)
    BY <2>1, RemovalLeaves
  <2>3. Ascending(wire)' /\ SetOf(wire)' \subseteq SetOf(wire)
    BY <1>2, <1>9 DEF DeliveryFails
  <2> QED
    BY <1>1, <1>9, <2>2, <2>3, FewerStayAhead, TopicsStay DEF DeliveryFails
<1>10. CASE StreamBreaks \/ FlushReturns \/ Crash
  <2>1. /\ wire' \in {wire, <<>>} /\ queue' \in {queue, <<>>}
        /\ sent' = sent /\ log' = log
    BY <1>10 DEF StreamBreaks, FlushReturns, Crash
  <2>2. Ascending(wire)' /\ SetOf(wire)' \subseteq SetOf(wire)
    BY <1>2, <2>1, EmptyHolds
  <2>3. AscendingCopies(queue)' /\ SetOf(queue)' \subseteq SetOf(queue)
    BY <1>2, <2>1, EmptyHolds
  <2> QED
    BY <1>1, <2>1, <2>2, <2>3, FewerStayAhead, TopicsStay
<1>11. CASE \/ Start \/ LoopHead \/ Connect \/ StreamEnds \/ BackoffOver \/ RequestStop
            \/ UNCHANGED vars
  <2>1. wire' = wire /\ queue' = queue /\ sent' = sent /\ log' = log
    BY <1>11 DEF Start, LoopHead, Connect, StreamEnds, BackoffOver, RequestStop, vars
  <2>2. Ascending(wire)' /\ SetOf(wire)' \subseteq SetOf(wire)
    BY <1>2, <2>1
  <2>3. AscendingCopies(queue)' /\ SetOf(queue)' \subseteq SetOf(queue)
    BY <1>2, <2>1
  <2> QED
    BY <1>1, <2>1, <2>2, <2>3, FewerStayAhead, TopicsStay
<1> QED
  BY <1>4, <1>5, <1>6, <1>7, <1>8, <1>9, <1>10, <1>11 DEF Next, Handle

\* wiki.raw and the dead-letter topic get the blobs of a language in the order
\* of the stream, across reconnects, timeouts and restarts.
THEOREM StreamOrderHolds == Spec => []StreamOrder
<1>1. OrderInv => StreamOrder
  BY DEF OrderInv, TopicsAscend, Ascending, StreamOrder, Topic
<1> QED
  BY <1>1, OrderInit, OrderStep, PTL DEF Spec

-------------------------------------------------------------------------------
(* Every blob is in one place.                                             *)

Place == {"wire", "queue", "raw", "deadletter", "lost", "missed", "dropped"}

BlobsOf(copies) == {c[2] : c \in copies}

\* What each place holds.
Held ==
    [wire |-> SetOf(wire), queue |-> BlobsOf(SetOf(queue)),
     raw |-> SetOf(log["raw"]), deadletter |-> SetOf(log["deadletter"]),
     lost |-> BlobsOf(lost), missed |-> missed, dropped |-> dropped]

\* The places of h divide S between them.
Divides(h, S) ==
    /\ h \in [Place -> SUBSET S]
    /\ \A b \in S : \E k \in Place : b \in h[k]
    /\ \A k, l \in Place : \A b \in S : b \in h[k] /\ b \in h[l] => k = l

\* b moves from one place to another.
Moved(h, k, l, X) == [h EXCEPT ![k] = @ \ X, ![l] = @ \union X]

\* Blobs that move from one place to another are in one place still.
LEMMA MovedDivides ==
    ASSUME NEW S, NEW h, Divides(h, S), NEW k \in Place, NEW l \in Place, k # l,
           NEW X, X \subseteq h[k]
    PROVE  Divides(Moved(h, k, l, X), S)
<1> DEFINE g == Moved(h, k, l, X)
<1>1. h \in [Place -> SUBSET S]
  BY DEF Divides
<1>2. /\ g \in [Place -> SUBSET S]
      /\ g[k] = h[k] \ X /\ g[l] = h[l] \union X
      /\ \A m \in Place : m # k /\ m # l => g[m] = h[m]
  BY <1>1 DEF Moved
<1> HIDE DEF g
<1>3. ASSUME NEW b \in S PROVE \E m \in Place : b \in g[m]
  <2>1. PICK m \in Place : b \in h[m]
    BY DEF Divides
  <2> QED
    BY <1>2, <2>1
<1>4. ASSUME NEW m \in Place, NEW n \in Place, NEW b \in S, b \in g[m], b \in g[n]
      PROVE  m = n
  <2>1. CASE b \in X
    <3>1. \A p \in Place : b \in h[p] => p = k
      BY <2>1 DEF Divides
    <3>2. \A p \in Place : b \in g[p] => p = l
      BY <1>2, <2>1, <3>1
    <3> QED
      BY <1>4, <3>2
  <2>2. CASE b \notin X
    <3>1. \A p \in Place : b \in g[p] => b \in h[p]
      BY <1>2, <2>2
    <3> QED
      BY <1>4, <3>1 DEF Divides
  <2> QED
    BY <2>1, <2>2
<1> QED
  BY <1>2, <1>3, <1>4 DEF Divides, g

\* A new blob that one place gets is in one place.
LEMMA AddedDivides ==
    ASSUME NEW S, NEW h, Divides(h, S), NEW l \in Place, NEW b, b \notin S
    PROVE  Divides([h EXCEPT ![l] = @ \union {b}], S \union {b})
<1> DEFINE g == [h EXCEPT ![l] = @ \union {b}]
           T == S \union {b}
<1>1. h \in [Place -> SUBSET S]
  BY DEF Divides
<1>2. /\ g \in [Place -> SUBSET T]
      /\ g[l] = h[l] \union {b}
      /\ \A m \in Place : m # l => g[m] = h[m]
  BY <1>1
<1> HIDE DEF g
<1>3. ASSUME NEW c \in T PROVE \E m \in Place : c \in g[m]
  <2>1. CASE c = b
    BY <1>2, <2>1
  <2>2. CASE c \in S
    <3>1. PICK m \in Place : c \in h[m]
      BY <2>2 DEF Divides
    <3> QED
      BY <1>2, <3>1
  <2> QED
    BY <2>1, <2>2
<1>4. ASSUME NEW m \in Place, NEW n \in Place, NEW c \in T, c \in g[m], c \in g[n]
      PROVE  m = n
  <2>1. CASE c = b
    <3>1. \A p \in Place : b \notin h[p]
      BY <1>1
    <3>2. \A p \in Place : b \in g[p] => p = l
      BY <1>2, <3>1
    <3> QED
      BY <1>4, <2>1, <3>2
  <2>2. CASE c # b
    <3>1. c \in S /\ \A p \in Place : c \in g[p] => c \in h[p]
      BY <1>2, <2>2
    <3> QED
      BY <1>4, <3>1 DEF Divides
  <2> QED
    BY <2>1, <2>2
<1> HIDE DEF T
<1> QED
  BY <1>2, <1>3, <1>4 DEF Divides, g, T

\* A lost copy is the only one of its blob.
OneLoss == \A c, d \in lost : c[2] = d[2] => c = d

PlaceInv == OrderInv /\ OneLoss /\ Divides(Held, 1 .. sent)

\* At first there is no blob to place.
LEMMA PlaceInit == Init => PlaceInv
<1> SUFFICES ASSUME Init PROVE PlaceInv
  OBVIOUS
<1>1. 1 .. sent = {}
  BY DEF Init
<1>2. Held = [k \in Place |-> {}]
  <2>1. /\ SetOf(wire) = {} /\ SetOf(queue) = {} /\ lost = {} /\ missed = {} /\ dropped = {}
        /\ SetOf(log["raw"]) = {} /\ SetOf(log["deadletter"]) = {}
    BY EmptyHolds DEF Init
  <2>2. BlobsOf({}) = {}
    BY DEF BlobsOf
  <2> QED
    BY <2>1, <2>2 DEF Held, Place
<1>3. Divides(Held, 1 .. sent)
  BY <1>1, <1>2 DEF Divides
<1>4. OneLoss
  BY DEF Init, OneLoss
<1> QED
  BY <1>3, <1>4, OrderInit DEF PlaceInv

\* What a place holds, by name.
LEMMA HeldMeans ==
    /\ DOMAIN Held = Place
    /\ Held["wire"] = SetOf(wire)
    /\ Held["queue"] = BlobsOf(SetOf(queue))
    /\ \A t \in Topic : t \in Place /\ Held[t] = SetOf(log[t])
    /\ Held["lost"] = BlobsOf(lost)
    /\ Held["missed"] = missed /\ Held["dropped"] = dropped
  BY DEF Held, Place, Topic

\* Copies that join the lost ones are the only ones of their blobs, when they
\* were queued.
LEMMA QueueLostOnce ==
    ASSUME PlaceInv, NEW X, X \subseteq SetOf(queue), lost' = lost \union X
    PROVE  OneLoss'
<1>1. \A c \in X : c[2] \in Held["queue"]
  BY HeldMeans DEF BlobsOf
<1>2. \A c \in lost : c[2] \in Held["lost"]
  BY HeldMeans DEF BlobsOf
<1>3. Divides(Held, 1 .. sent) /\ "queue" \in Place /\ "lost" \in Place
  BY DEF PlaceInv, Place
<1>4. Held["queue"] \subseteq 1 .. sent
  BY <1>3 DEF Divides
<1>5. \A c \in X : \A d \in lost : c[2] # d[2]
  BY <1>1, <1>2, <1>3, <1>4 DEF Divides
<1>6. \A c, d \in X : c[2] = d[2] => c = d
  <2> SUFFICES ASSUME NEW c \in X, NEW d \in X, c[2] = d[2] PROVE c = d
    OBVIOUS
  <2>1. PICK i \in 1 .. Len(queue) : c = queue[i]
    BY DEF SetOf
  <2>2. PICK j \in 1 .. Len(queue) : d = queue[j]
    BY DEF SetOf
  <2>3. AscendingCopies(queue) /\ queue[i][2] \in Int /\ queue[j][2] \in Int
    BY EntryType DEF PlaceInv, OrderInv, Ahead, Blob
  <2>4. ~(i < j) /\ ~(j < i)
    BY <2>1, <2>2, <2>3 DEF AscendingCopies
  <2>5. i = j
    BY <2>4
  <2> QED
    BY <2>1, <2>2, <2>5
<1>7. \A c, d \in lost : c[2] = d[2] => c = d
  BY DEF PlaceInv, OneLoss
<1> QED
  BY <1>5, <1>6, <1>7 DEF OneLoss

\* A place holds what it held when its variable has not changed.
LEMMA HeldStays ==
    /\ wire' = wire => Held'["wire"] = Held["wire"]
    /\ queue' = queue => Held'["queue"] = Held["queue"]
    /\ \A t \in Topic : log'[t] = log[t] => Held'[t] = Held[t]
    /\ lost' = lost => Held'["lost"] = Held["lost"]
    /\ missed' = missed => Held'["missed"] = Held["missed"]
    /\ dropped' = dropped => Held'["dropped"] = Held["dropped"]
  BY DEF Held, SetOf, BlobsOf, Topic

\* A step after which two places differ by the blobs X, and no other place
\* differs, is a move.
LEMMA HeldMoves ==
    ASSUME PlaceInv, OneLoss', sent' = sent, OrderInv',
           NEW k \in Place, NEW l \in Place, k # l, NEW X, X \subseteq Held[k],
           Held'[k] = Held[k] \ X, Held'[l] = Held[l] \union X,
           \A m \in Place : m # k /\ m # l => Held'[m] = Held[m]
    PROVE  PlaceInv'
<1>1. Held \in [Place -> SUBSET (1 .. sent)]
  BY DEF PlaceInv, Divides
<1>2. Held' = [m \in Place |-> Held'[m]]
  BY DEF Held, Place
<1>3. Held' = Moved(Held, k, l, X)
  <2> DEFINE g == Moved(Held, k, l, X)
  <2>1. /\ g = [m \in Place |-> g[m]]
        /\ g[k] = Held[k] \ X /\ g[l] = Held[l] \union X
        /\ \A m \in Place : m # k /\ m # l => g[m] = Held[m]
    BY <1>1 DEF Moved
  <2>2. \A m \in Place : Held'[m] = g[m]
    BY <2>1
  <2> HIDE DEF g
  <2>3. Held' = g
    BY <1>2, <2>1, <2>2
  <2> QED
    BY <2>3 DEF g
<1>4. Divides(Moved(Held, k, l, X), 1 .. sent)
  BY MovedDivides DEF PlaceInv
<1>5. Divides(Held', 1 .. sent')
  BY <1>3, <1>4
<1> QED
  BY <1>5 DEF PlaceInv

\* The head of the connection is on it once.
LEMMA HeadLeaves ==
    ASSUME PlaceInv, wire # <<>>, wire' = Tail(wire)
    PROVE  /\ {Head(wire)} \subseteq Held["wire"]
           /\ Held'["wire"] = Held["wire"] \ {Head(wire)}
<1>1. /\ Head(wire) \in Blob /\ SetOf(wire) = SetOf(Tail(wire)) \union {Head(wire)}
      /\ wire \in Seq(Int) /\ Ascending(wire)
  BY HeadType DEF PlaceInv, OrderInv, TypeInv, Ahead, Blob
<1>2. \A b \in SetOf(Tail(wire)) : Head(wire) < b
  BY <1>1, TailAscends
<1>3. Head(wire) \notin SetOf(Tail(wire))
  BY <1>1, <1>2 DEF Blob
<1>4. Held["wire"] = SetOf(wire) /\ Held'["wire"] = SetOf(Tail(wire))
  BY HeldMeans DEF Held
<1> QED
  BY <1>1, <1>3, <1>4

\* A copy that leaves the queue is the only one there of its blob.
LEMMA CopyLeaves ==
    ASSUME PlaceInv, NEW i \in 1 .. Len(queue), queue' = Without(queue, i)
    PROVE  /\ {queue[i][2]} \subseteq Held["queue"]
           /\ Held'["queue"] = Held["queue"] \ {queue[i][2]}
<1>1. SetOf(queue)' = {queue[j] : j \in (1 .. Len(queue)) \ {i}}
  BY RemovalLeaves DEF PlaceInv
<1>2. \A j \in 1 .. Len(queue) : queue[j][2] \in Int
  BY EntryType DEF PlaceInv, OrderInv, Blob
<1>3. AscendingCopies(queue)
  BY DEF PlaceInv, OrderInv, Ahead
<1>4. ASSUME NEW j \in 1 .. Len(queue), queue[j][2] = queue[i][2] PROVE j = i
  <2>1. ~(i < j) /\ ~(j < i)
    BY <1>2, <1>3, <1>4 DEF AscendingCopies
  <2> QED
    BY <2>1
<1>5. /\ Held["queue"] = BlobsOf(SetOf(queue))
      /\ Held'["queue"] = BlobsOf(SetOf(queue)')
  BY DEF Held
<1>6. BlobsOf(SetOf(queue)) = {queue[j][2] : j \in 1 .. Len(queue)}
  BY DEF BlobsOf, SetOf
<1>7. BlobsOf(SetOf(queue)') = {queue[j][2] : j \in (1 .. Len(queue)) \ {i}}
  BY <1>1 DEF BlobsOf
<1> QED
  BY <1>4, <1>5, <1>6, <1>7

\* Adding copies to some adds their blobs.
LEMMA BlobsOfUnion ==
    ASSUME NEW A, NEW B
    PROVE  BlobsOf(A \union B) = BlobsOf(A) \union BlobsOf(B)
  BY DEF BlobsOf

\* The blob of one copy.
LEMMA BlobsOfOne == \A c : BlobsOf({c}) = {c[2]}
  BY DEF BlobsOf

\* The stream's next blob gets its place.
LEMMA SendDivides ==
    ASSUME PlaceInv, Send, OrderInv'
    PROVE  PlaceInv'
<1>1. sent \in Nat /\ sent' = sent + 1 /\ sent + 1 \notin 1 .. sent
      /\ 1 .. sent' = (1 .. sent) \union {sent + 1}
  BY LengthOfKinds DEF PlaceInv, OrderInv, TypeInv, Send
<1>2. Divides(Held, 1 .. sent) /\ Held \in [Place -> SUBSET (1 .. sent)]
  BY DEF PlaceInv, Divides
<1>3. /\ Held'["queue"] = Held["queue"] /\ Held'["raw"] = Held["raw"]
      /\ Held'["deadletter"] = Held["deadletter"] /\ Held'["lost"] = Held["lost"]
      /\ Held'["dropped"] = Held["dropped"]
  BY HeldStays DEF Send, Topic
<1>4. PICK l \in Place : /\ Held'[l] = Held[l] \union {sent + 1}
                         /\ \A m \in Place : m # l => Held'[m] = Held[m]
  <2>1. CASE pc = "stream"
    <3>1. wire' = Append(wire, sent + 1) /\ missed' = missed
      BY <2>1 DEF Send
    <3>2. SetOf(Append(wire, sent + 1)) = SetOf(wire) \union {sent + 1}
      <4>1. wire \in Seq(Blob) /\ sent + 1 \in Blob
        BY <1>1 DEF PlaceInv, OrderInv, TypeInv, Send, Blob
      <4> QED
        BY <4>1, AppendHolds
    <3>3. /\ Held'["wire"] = Held["wire"] \union {sent + 1}
          /\ Held'["missed"] = Held["missed"]
      BY <3>1, <3>2 DEF Held
    <3> QED
      BY <1>3, <3>3 DEF Place
  <2>2. CASE pc # "stream"
    <3>1. wire' = wire /\ missed' = missed \union {sent + 1}
      BY <2>2 DEF Send
    <3>2. /\ Held'["missed"] = Held["missed"] \union {sent + 1}
          /\ Held'["wire"] = Held["wire"]
      BY <3>1 DEF Held
    <3> QED
      BY <1>3, <3>2 DEF Place
  <2> QED
    BY <2>1, <2>2
<1>5. Held' = [Held EXCEPT ![l] = @ \union {sent + 1}]
  <2> DEFINE g == [Held EXCEPT ![l] = @ \union {sent + 1}]
  <2>1. /\ g = [m \in Place |-> g[m]]
        /\ g[l] = Held[l] \union {sent + 1}
        /\ \A m \in Place : m # l => g[m] = Held[m]
    BY <1>2
  <2>2. Held' = [m \in Place |-> Held'[m]]
    BY DEF Held, Place
  <2>3. \A m \in Place : Held'[m] = g[m]
    BY <1>4, <2>1
  <2> HIDE DEF g
  <2>4. Held' = g
    BY <2>1, <2>2, <2>3
  <2> QED
    BY <2>4 DEF g
<1>6. Divides(Held', 1 .. sent')
  <2>1. Divides([Held EXCEPT ![l] = @ \union {sent + 1}], (1 .. sent) \union {sent + 1})
    BY <1>1, <1>2, AddedDivides
  <2> QED
    BY <1>1, <1>5, <2>1
<1>7. OneLoss'
  BY DEF PlaceInv, OneLoss, Send
<1> QED
  BY <1>6, <1>7 DEF PlaceInv

\* The head of the connection is queued, for either topic.
LEMMA EnqueueDivides ==
    ASSUME PlaceInv, wire # <<>>, NEW t \in Topic, Enqueue(t), wire' = Tail(wire),
           UNCHANGED <<sent, log, missed, dropped, lost>>, OrderInv'
    PROVE  PlaceInv'
<1> DEFINE h == Head(wire)
<1>1. <<t, h>> \in Copy /\ queue \in Seq(Copy)
  BY HeadType DEF PlaceInv, OrderInv, TypeInv
<1>2. SetOf(queue)' = SetOf(queue) \union {<<t, h>>}
  BY <1>1, AppendHolds DEF Enqueue
<1>3. BlobsOf(SetOf(queue)') = BlobsOf(SetOf(queue)) \union {h}
  <2>1. BlobsOf({<<t, h>>}) = {h}
    BY DEF BlobsOf
  <2> QED
    BY <1>2, <2>1, BlobsOfUnion, ZenonT(60)
<1>4. Held'["queue"] = Held["queue"] \union {h}
  BY <1>3 DEF Held
<1>5. {h} \subseteq Held["wire"] /\ Held'["wire"] = Held["wire"] \ {h}
  BY HeadLeaves
<1>6. \A m \in Place : m # "wire" /\ m # "queue" => Held'[m] = Held[m]
  BY HeldStays DEF Place, Topic
<1>7. OneLoss'
  BY DEF PlaceInv, OneLoss
<1>8. "wire" \in Place /\ "queue" \in Place
  BY DEF Place
<1> HIDE DEF h
<1> QED
  BY <1>4, <1>5, <1>6, <1>7, <1>8, HeldMoves

\* What is on the connection is lost with it.
LEMMA WireBreaks ==
    ASSUME PlaceInv, wire' = <<>>, missed' = missed \union SetOf(wire),
           UNCHANGED <<sent, log, queue, dropped, lost>>, OrderInv'
    PROVE  PlaceInv'
<1>1. /\ Held["wire"] = SetOf(wire) /\ Held'["wire"] = {}
      /\ Held'["missed"] = Held["missed"] \union SetOf(wire)
  BY EmptyHolds DEF Held
<1>2. \A m \in Place : m # "wire" /\ m # "missed" => Held'[m] = Held[m]
  BY HeldStays DEF Place, Topic
<1>3. OneLoss' /\ "wire" \in Place /\ "missed" \in Place
  BY DEF PlaceInv, OneLoss, Place
<1>4. Held'["wire"] = Held["wire"] \ SetOf(wire)
  BY <1>1
<1> QED
  BY <1>1, <1>2, <1>3, <1>4, HeldMoves

\* Copies leave the queue and are lost.
LEMMA LossDivides ==
    ASSUME PlaceInv, NEW X, X \subseteq SetOf(queue), lost' = lost \union X,
           Held'["queue"] = Held["queue"] \ BlobsOf(X),
           UNCHANGED <<sent, wire, log, missed, dropped>>, OrderInv'
    PROVE  PlaceInv'
<1>1. OneLoss'
  BY QueueLostOnce
<1>2. BlobsOf(X) \subseteq Held["queue"]
  BY HeldMeans DEF BlobsOf
<1>3. Held'["lost"] = Held["lost"] \union BlobsOf(X)
  BY BlobsOfUnion DEF Held
<1>4. \A m \in Place : m # "queue" /\ m # "lost" => Held'[m] = Held[m]
  BY HeldStays DEF Place, Topic
<1>5. "queue" \in Place /\ "lost" \in Place
  BY DEF Place
<1> QED
  BY <1>1, <1>2, <1>3, <1>4, <1>5, HeldMoves

\* A copy goes from the queue to the log of its topic.
LEMMA DeliverDivides ==
    ASSUME PlaceInv, NEW i \in 1 .. Len(queue),
           log' = [log EXCEPT ![queue[i][1]] = Append(@, queue[i][2])],
           queue' = Without(queue, i),
           UNCHANGED <<sent, wire, missed, dropped, lost>>, OrderInv'
    PROVE  PlaceInv'
<1>1. PICK t, b : t = queue[i][1] /\ b = queue[i][2] /\ t \in Topic /\ b \in Blob
  BY EntryType DEF PlaceInv, OrderInv
<1>2. log \in [Topic -> Seq(Blob)]
  BY DEF PlaceInv, OrderInv, TypeInv
<1>3. /\ log'[t] = Append(log[t], b)
      /\ \A u \in Topic : u # t => log'[u] = log[u]
  BY <1>1, <1>2
<1>4. SetOf(log'[t]) = SetOf(log[t]) \union {b}
  BY <1>1, <1>2, <1>3, AppendHolds
<1>5. Held'[t] = SetOf(log'[t])
  BY <1>1 DEF Held, Topic
<1>6. Held'[t] = Held[t] \union {b}
  BY <1>1, <1>4, <1>5, HeldMeans
<1>7. {b} \subseteq Held["queue"] /\ Held'["queue"] = Held["queue"] \ {b}
  BY <1>1, CopyLeaves
<1>8. \A m \in Place : m # "queue" /\ m # t => Held'[m] = Held[m]
  BY <1>3, HeldStays DEF Place, Topic
<1>9. OneLoss'
  BY DEF PlaceInv, OneLoss
<1>10. "queue" \in Place /\ t \in Place /\ t # "queue"
  BY <1>1 DEF Place, Topic
<1> QED
  BY <1>6, <1>7, <1>8, <1>9, <1>10, HeldMoves

\* A crash loses the connection and the queue at once.
LEMMA CrashDivides ==
    ASSUME PlaceInv, Crash, OrderInv'
    PROVE  PlaceInv'
<1> DEFINE W == SetOf(wire)
           Q == BlobsOf(SetOf(queue))
           one == Moved(Held, "wire", "missed", W)
           two == Moved(one, "queue", "lost", Q)
<1>1. OneLoss'
  BY QueueLostOnce DEF Crash
<1>2. Divides(Held, 1 .. sent) /\ Held \in [Place -> SUBSET (1 .. sent)]
  BY DEF PlaceInv, Divides
<1>3. {"wire", "missed", "queue", "lost"} \subseteq Place
  BY DEF Place
<1>4. Held["wire"] = W /\ Held["queue"] = Q
  BY HeldMeans
<1>5. Divides(one, 1 .. sent)
  BY <1>2, <1>3, <1>4, MovedDivides
<1>6. one["queue"] = Q
  BY <1>2, <1>3, <1>4 DEF Moved
<1>7. Divides(two, 1 .. sent)
  <2> HIDE DEF one
  <2> QED
    BY <1>3, <1>5, <1>6, MovedDivides
<1>8. /\ Held'["wire"] = {} /\ Held'["queue"] = {}
      /\ Held'["missed"] = Held["missed"] \union W
      /\ Held'["lost"] = Held["lost"] \union Q
  <2>1. SetOf(wire)' = {} /\ BlobsOf(SetOf(queue)') = {}
    BY EmptyHolds DEF Crash, BlobsOf
  <2>2. BlobsOf(lost)' = BlobsOf(lost) \union Q
    BY BlobsOfUnion DEF Crash
  <2> QED
    BY <2>1, <2>2 DEF Held, Crash
<1>9. \A m \in Place \ {"wire", "missed", "queue", "lost"} : Held'[m] = Held[m]
  BY HeldStays DEF Place, Topic, Crash
<1>10. Held' = two
  <2>1. /\ two = [m \in Place |-> two[m]]
        /\ two["wire"] = {} /\ two["queue"] = {}
        /\ two["missed"] = Held["missed"] \union W
        /\ two["lost"] = Held["lost"] \union Q
        /\ \A m \in Place \ {"wire", "missed", "queue", "lost"} : two[m] = Held[m]
    BY <1>2, <1>3, <1>4 DEF Moved
  <2>2. Held' = [m \in Place |-> Held'[m]]
    BY DEF Held, Place
  <2> HIDE DEF two, one, W, Q
  <2>3. \A m \in Place : Held'[m] = two[m]
    BY <1>8, <1>9, <2>1
  <2> QED
    BY <2>1, <2>2, <2>3
<1>11. sent' = sent
  BY DEF Crash
<1> HIDE DEF two
<1>12. Divides(Held', 1 .. sent')
  BY <1>7, <1>10, <1>11
<1> QED
  BY <1>1, <1>12 DEF PlaceInv

\* Each step keeps every blob in one place.
LEMMA PlaceStep == PlaceInv /\ [Next]_vars => PlaceInv'
<1> SUFFICES ASSUME PlaceInv, [Next]_vars
             PROVE  PlaceInv'
  OBVIOUS
<1>1. OrderInv'
  BY OrderStep DEF PlaceInv
<1>2. CASE Send
  BY <1>1, <1>2, SendDivides
<1>3. CASE HandleValid
  BY <1>1, <1>3, EnqueueDivides DEF HandleValid, Topic
<1>4. CASE HandleInvalid
  BY <1>1, <1>4, EnqueueDivides DEF HandleInvalid, Topic
<1>5. CASE HandleRaises
  <2>1. {Head(wire)} \subseteq Held["wire"] /\ Held'["wire"] = Held["wire"] \ {Head(wire)}
    BY <1>5, HeadLeaves DEF HandleRaises
  <2>2. Held'["dropped"] = Held["dropped"] \union {Head(wire)}
    BY <1>5 DEF HandleRaises, Held
  <2>3. \A m \in Place : m # "wire" /\ m # "dropped" => Held'[m] = Held[m]
    BY <1>5, HeldStays DEF HandleRaises, Place, Topic
  <2>4. OneLoss' /\ sent' = sent /\ "wire" \in Place /\ "dropped" \in Place
    BY <1>5 DEF HandleRaises, PlaceInv, OneLoss, Place
  <2> QED
    BY <1>1, <2>1, <2>2, <2>3, <2>4, HeldMoves
<1>6. CASE StreamBreaks
  BY <1>1, <1>6, WireBreaks DEF StreamBreaks
<1>7. CASE FlushReturns
  <2>1. Held'["queue"] = Held["queue"] \ BlobsOf(SetOf(queue))
    <3>1. BlobsOf(SetOf(queue)') = {}
      BY <1>7, EmptyHolds DEF FlushReturns, BlobsOf
    <3> QED
      BY <3>1, HeldMeans DEF Held
  <2> QED
    BY <1>1, <1>7, <2>1, LossDivides DEF FlushReturns
<1>8. CASE Deliver
  <2>1. PICK i \in 1 .. Len(queue) :
           /\ log' = [log EXCEPT ![queue[i][1]] = Append(@, queue[i][2])]
           /\ queue' = Without(queue, i)
    BY <1>8 DEF Deliver
  <2> QED
    BY <1>1, <1>8, <2>1, DeliverDivides DEF Deliver
<1>9. CASE DeliveryFails
  <2>1. PICK i \in 1 .. Len(queue) :
           /\ lost' = lost \union {queue[i]}
           /\ queue' = Without(queue, i)
    BY <1>9 DEF DeliveryFails
  <2>2. queue[i] \in SetOf(queue)
    BY DEF SetOf
  <2>3. BlobsOf({queue[i]}) = {queue[i][2]}
    BY BlobsOfOne
  <2>4. Held'["queue"] = Held["queue"] \ BlobsOf({queue[i]})
    BY <2>1, <2>3, CopyLeaves
  <2>5. PICK X : X = {queue[i]}
    OBVIOUS
  <2>6. UNCHANGED <<sent, wire, log, missed, dropped>>
    BY <1>9 DEF DeliveryFails
  <2>7. X \subseteq SetOf(queue)
    BY <2>2, <2>5
  <2>8. Held'["queue"] = Held["queue"] \ BlobsOf(X)
    BY <2>4, <2>5
  <2>9. lost' = lost \union X
    BY <2>1, <2>5
  <2> QED
    BY <1>1, <2>6, <2>7, <2>8, <2>9, LossDivides
<1>10. CASE Crash
  BY <1>1, <1>10, CrashDivides
<1>11. CASE \/ Start \/ LoopHead \/ Connect \/ StreamEnds \/ BackoffOver \/ RequestStop
            \/ UNCHANGED vars
  <2>1. UNCHANGED <<sent, wire, queue, log, missed, dropped, lost>>
    BY <1>11 DEF Start, LoopHead, Connect, StreamEnds, BackoffOver, RequestStop, vars
  <2>2. Held' = Held /\ OneLoss'
    BY <2>1 DEF Held, SetOf, BlobsOf, PlaceInv, OneLoss
  <2>3. Divides(Held', 1 .. sent')
    BY <2>1, <2>2 DEF PlaceInv
  <2> QED
    BY <1>1, <2>2, <2>3 DEF PlaceInv
<1> QED
  BY <1>2, <1>3, <1>4, <1>5, <1>6, <1>7, <1>8, <1>9, <1>10, <1>11 DEF Next, Handle

-------------------------------------------------------------------------------
(* Counting the places.                                                    *)

\* A set of at most one element has as many.
LEMMA AtMostOne ==
    ASSUME NEW T, \A x, y \in T : x = y
    PROVE  Cardinality(T) = IF T = {} THEN 0 ELSE 1
<1>1. CASE T = {}
  BY <1>1, FS_EmptySet
<1>2. CASE T # {}
  <2>1. PICK x : T = {x}
    BY <1>2
  <2> QED
    BY <1>2, <2>1, FS_Singleton
<1> QED
  BY <1>1, <1>2

\* An ascending sequence has each of its elements at one place.
LEMMA CountAscending ==
    ASSUME NEW s \in Seq(Int), Ascending(s), NEW b
    PROVE  Cardinality({i \in 1 .. Len(s) : s[i] = b}) = IF b \in SetOf(s) THEN 1 ELSE 0
<1> DEFINE T == {i \in 1 .. Len(s) : s[i] = b}
<1>1. ASSUME NEW i \in T, NEW j \in T PROVE i = j
  <2>1. s[i] \in Int /\ s[i] = s[j]
    OBVIOUS
  <2>2. ~(i < j) /\ ~(j < i)
    BY <2>1 DEF Ascending
  <2> QED
    BY <2>2
<1>2. T = {} <=> b \notin SetOf(s)
  BY DEF SetOf
<1> HIDE DEF T
<1>3. Cardinality(T) = IF T = {} THEN 0 ELSE 1
  BY <1>1, AtMostOne
<1> QED
  BY <1>2, <1>3 DEF T

\* Places counts, for each place, whether the blob is there.
LEMMA PlacesMeans ==
    ASSUME PlaceInv, NEW b
    PROVE  LET one(k) == IF b \in Held[k] THEN 1 ELSE 0
           IN  Places(b) = one("wire") + one("raw") + one("deadletter") + one("queue")
                           + one("lost") + one("missed") + one("dropped")
<1>1. /\ wire \in Seq(Int) /\ Ascending(wire)
      /\ log["raw"] \in Seq(Int) /\ Ascending(log["raw"])
      /\ log["deadletter"] \in Seq(Int) /\ Ascending(log["deadletter"])
  BY DEF PlaceInv, OrderInv, TypeInv, Ahead, TopicsAscend, Topic, Blob
<1> DEFINE Q == {i \in 1 .. Len(queue) : queue[i][2] = b}
           L == {c \in lost : c[2] = b}
           in(s) == Cardinality({i \in 1 .. Len(s) : s[i] = b})
<1>2. /\ in(wire) = IF b \in Held["wire"] THEN 1 ELSE 0
      /\ in(log["raw"]) = IF b \in Held["raw"] THEN 1 ELSE 0
      /\ in(log["deadletter"]) = IF b \in Held["deadletter"] THEN 1 ELSE 0
  <2>1. /\ Held["wire"] = SetOf(wire) /\ Held["raw"] = SetOf(log["raw"])
        /\ Held["deadletter"] = SetOf(log["deadletter"])
    BY DEF Held
  <2> QED
    BY <1>1, <2>1, CountAscending
<1>3. Cardinality(Q) = IF b \in Held["queue"] THEN 1 ELSE 0
  <2>1. ASSUME NEW i \in Q, NEW j \in Q PROVE i = j
    <3>1. AscendingCopies(queue) /\ queue[i][2] \in Int /\ queue[i][2] = queue[j][2]
      BY EntryType DEF PlaceInv, OrderInv, Ahead, Blob
    <3>2. ~(i < j) /\ ~(j < i)
      BY <3>1 DEF AscendingCopies
    <3> QED
      BY <3>2
  <2>2. Q = {} <=> b \notin Held["queue"]
    BY HeldMeans DEF SetOf, BlobsOf
  <2> HIDE DEF Q
  <2>3. Cardinality(Q) = IF Q = {} THEN 0 ELSE 1
    BY <2>1, AtMostOne
  <2> QED
    BY <2>2, <2>3
<1>4. Cardinality(L) = IF b \in Held["lost"] THEN 1 ELSE 0
  <2>1. \A c, d \in L : c = d
    BY DEF PlaceInv, OneLoss
  <2>2. L = {} <=> b \notin Held["lost"]
    BY HeldMeans DEF BlobsOf
  <2> HIDE DEF L
  <2>3. Cardinality(L) = IF L = {} THEN 0 ELSE 1
    BY <2>1, AtMostOne
  <2> QED
    BY <2>2, <2>3
<1>5. Held["missed"] = missed /\ Held["dropped"] = dropped
  BY HeldMeans
<1>6. Places(b) = in(wire) + in(log["raw"]) + in(log["deadletter"])
                  + Cardinality(Q) + Cardinality(L)
                  + (IF b \in missed THEN 1 ELSE 0) + (IF b \in dropped THEN 1 ELSE 0)
  BY DEF Places
<1> HIDE DEF Q, L, in
<1> QED
  BY <1>2, <1>3, <1>4, <1>5, <1>6

\* Every blob the stream has sent is in one place: on the connection, queued,
\* published, or lost in one of the ways the code knows of.
THEOREM EveryBlobOnceHolds == Spec => []EveryBlobOnce
<1>1. PlaceInv => EveryBlobOnce
  <2> SUFFICES ASSUME PlaceInv, NEW b \in 1 .. sent
               PROVE  Places(b) = 1
    BY DEF EveryBlobOnce
  <2>1. PICK k \in Place : b \in Held[k]
    BY DEF PlaceInv, Divides
  <2>2. \A l \in Place : l # k => b \notin Held[l]
    BY <2>1 DEF PlaceInv, Divides
  <2> DEFINE one(l) == IF b \in Held[l] THEN 1 ELSE 0
  <2>3. Places(b) = one("wire") + one("raw") + one("deadletter") + one("queue")
                    + one("lost") + one("missed") + one("dropped")
    BY PlacesMeans
  <2>4. \A l \in Place : one(l) = IF l = k THEN 1 ELSE 0
    BY <2>1, <2>2
  <2> HIDE DEF one
  <2> QED
    BY <2>1, <2>3, <2>4 DEF Place
<1> QED
  BY <1>1, PlaceInit, PlaceStep, PTL DEF Spec

-------------------------------------------------------------------------------
(* A payload.                                                              *)

SuspectRow == [flagged |-> ScoreEvent(event) >= Threshold,
               hour    |-> HourFloor(event.timestamp)]

CountRow == [hour    |-> HourFloor(event.timestamp),
             added   |-> Max({event.bytes_added, 0}),
             removed |-> Max({event.bytes_removed, 0})]

\* Every output is a function of the published event, and that is the normalised
\* form of a payload that nothing was wrong with.
OutputsFollow ==
    /\ raw \in Payloads
    /\ stage = "dropped" => Breaks(raw)
    /\ stage = "published" =>
          /\ ~Breaks(raw) /\ ~Rejected(raw) /\ Validated(Normalized(raw))
          /\ event = ToKafkaPayload(Normalized(raw))
    /\ indexed # None => stage = "published" /\ indexed = [at |-> Instant(event.timestamp)]
    /\ counted # None => stage = "published" /\ counted = CountRow
    /\ scored # None => stage = "published" /\ scored = SuspectRow

-------------------------------------------------------------------------------
(* The conversions.                                                        *)

\* max(x, 0) of a number that is not negative is that number.
LEMMA MaxWithZero ==
    ASSUME NEW x \in Nat
    PROVE  Max({x, 0}) = x
<1>1. \A y \in {x, 0} : x >= y
  OBVIOUS
<1>2. \A z \in {x, 0} : (\A y \in {x, 0} : z >= y) => z = x
  OBVIOUS
<1> QED
  BY <1>1, <1>2 DEF Max

\* A payload that normalize() accepts has a length difference that is a number.
LEMMA DeltaIsNumber ==
    ASSUME NEW r \in Payloads, ~Breaks(r), ~Rejected(r)
    PROVE  Delta(r) \in Int
<1>1. r.object
  BY DEF Rejected
<1>2. CASE r.length
  <2>1. AsInt(r.old) \in Int /\ AsInt(r.new) \in Int
    BY <1>1, <1>2 DEF Breaks
  <2> QED
    BY <1>2, <2>1 DEF Delta
<1>3. CASE ~r.length
  BY <1>3 DEF Delta
<1> QED
  BY <1>2, <1>3

\* What an event adds and what it removes balance, and one of them is nothing.
LEMMA BytesOfDelta ==
    ASSUME NEW d \in Int
    PROVE  /\ BytesAdded(d) \in Nat /\ BytesRemoved(d) \in Nat
           /\ BytesAdded(d) - BytesRemoved(d) = d
           /\ BytesAdded(d) = 0 \/ BytesRemoved(d) = 0
  BY DEF BytesAdded, BytesRemoved

\* The times of a payload are numbers of half hours.
LEMMA TimeIsNumber ==
    ASSUME NEW r \in Payloads, ~Rejected(r)
    PROVE  /\ ParseTimestamp(r.time).at \in Int
           /\ ParseTimestamp(r.time).zone \in Int
<1>1. r.object
  BY DEF Rejected
<1>2. r.time.at \in Int /\ r.time.zone \in Int
  BY <1>1, PayloadAssumption DEF PayloadAssumption
<1>3. Now \in Int
  BY ClockAssumption DEF ClockAssumption
<1> DEFINE t == r.time
<1> HIDE DEF t
<1>4. t.at \in Int /\ t.zone \in Int => ParseTimestamp(t).at \in Int /\ ParseTimestamp(t).zone \in Int
  BY <1>3 DEF ParseTimestamp
<1> QED
  BY <1>2, <1>4 DEF t

\* The text a time is published as tells the instant it was, and the hour it is
\* counted in is the full hour of the local time.
LEMMA HourOfText ==
    ASSUME NEW at \in Int, NEW zone \in Int,
           NEW text, text = [local |-> at + zone, zone |-> zone]
    PROVE  /\ Instant(text) = at
           /\ HourFloor(text) <= at /\ at < HourFloor(text) + 2
           /\ zone % 2 = 0 => HourFloor(text) = at - (at % 2)
<1>1. text.local = at + zone /\ text.zone = zone
  OBVIOUS
<1>2. Instant(text) = at
  BY <1>1 DEF Instant
<1>3. HourFloor(text) = at - ((at + zone) % 2)
  BY <1>1, <1>2 DEF HourFloor
<1>4. (at + zone) % 2 \in {0, 1} /\ (zone % 2 = 0 => (at + zone) % 2 = at % 2)
  OBVIOUS
<1> QED
  BY <1>2, <1>3, <1>4

-------------------------------------------------------------------------------
(* The invariant.                                                          *)

\* At first nothing was put out,
LEMMA OutputsFollowInit == PayloadInit => OutputsFollow
  BY DEF PayloadInit, OutputsFollow

\* and what a step puts out follows from the payload.
LEMMA OutputsFollowStep == OutputsFollow /\ [PayloadNext]_payloadVars => OutputsFollow'
<1> SUFFICES ASSUME OutputsFollow, [PayloadNext]_payloadVars
             PROVE  OutputsFollow'
  OBVIOUS
<1> USE DEF OutputsFollow
<1>1. CASE HandleRaw
  BY <1>1 DEF HandleRaw, CountRow, SuspectRow
<1>2. CASE Index
  BY <1>2 DEF Index, CountRow, SuspectRow
<1>3. CASE Count
  BY <1>3 DEF Count, CountRow, SuspectRow
<1>4. CASE Score
  BY <1>4 DEF Score, CountRow, SuspectRow
<1>5. CASE UNCHANGED payloadVars
  BY <1>5 DEF payloadVars, CountRow, SuspectRow
<1> QED
  BY <1>1, <1>2, <1>3, <1>4, <1>5 DEF PayloadNext

\* Whatever is published, counted or flagged follows from the payload by the code.
THEOREM OutputsFollowHolds == PayloadSpec => []OutputsFollow
  BY OutputsFollowInit, OutputsFollowStep, PTL DEF PayloadSpec
-------------------------------------------------------------------------------
(* The properties.                                                         *)

\* What is not kept had an odd meta or an infinite number.
LEMMA DroppedIsOdd ==
    ASSUME NEW r \in Payloads, Breaks(r)
    PROVE  r.meta = "other" \/ Infinite \in {r.user_id, r.old, r.new}
<1> SUFFICES ASSUME r.meta # "other"
             PROVE  Infinite \in {r.user_id, r.old, r.new}
  OBVIOUS
<1>1. r.object /\ \E n \in {r.user_id, r.old, r.new} : AsInt(n) \notin Int
  BY DEF Breaks
<1>2. PICK n \in {r.user_id, r.old, r.new} : AsInt(n) \notin Int
  BY <1>1
<1>3. n \in Int \union {Absent, Text, Infinite}
  BY <1>1, PayloadAssumption DEF PayloadAssumption, Number
<1>4. n = Infinite
  BY <1>2, <1>3 DEF AsInt
<1> QED
  BY <1>2, <1>4

\* Never silently dropped (producer.py:5-6), whatever the payload.
THEOREM MalformedIsKeptHolds == PayloadSpec => []MalformedIsKept
<1>1. OutputsFollow => MalformedIsKept
  BY DroppedIsOdd DEF OutputsFollow, MalformedIsKept
<1> QED
  BY <1>1, OutputsFollowHolds, PTL

\* The bytes of a counted event balance with the lengths it was sent with, for
\* lengths of any size.
THEOREM BytesBalanceHolds == PayloadSpec => []BytesBalance
<1>1. OutputsFollow => BytesBalance
  <2> SUFFICES ASSUME OutputsFollow, counted # None, raw.length, {raw.old, raw.new} \subseteq Int
               PROVE  /\ counted.added - counted.removed = raw.new - raw.old
                      /\ counted.added = 0 \/ counted.removed = 0
    BY DEF BytesBalance
  <2> DEFINE d == Delta(raw)
  <2>1. d \in Int
    BY DeltaIsNumber DEF OutputsFollow
  <2>2. d = raw.new - raw.old
    BY NoNumberAssumption DEF Delta, AsInt, NoNumberAssumption
  <2>3. event = ToKafkaPayload(Normalized(raw)) /\ counted = CountRow
    BY DEF OutputsFollow
  <2>4. event.bytes_added = BytesAdded(d) /\ event.bytes_removed = BytesRemoved(d)
    BY <2>3 DEF ToKafkaPayload, Normalized
  <2> HIDE DEF d
  <2>5. /\ BytesAdded(d) \in Nat /\ BytesRemoved(d) \in Nat
        /\ BytesAdded(d) - BytesRemoved(d) = d
        /\ BytesAdded(d) = 0 \/ BytesRemoved(d) = 0
    BY <2>1, BytesOfDelta
  <2>6. counted.added = BytesAdded(d) /\ counted.removed = BytesRemoved(d)
    BY <2>3, <2>4, <2>5, MaxWithZero DEF CountRow
  <2> QED
    BY <2>2, <2>5, <2>6
<1> QED
  BY <1>1, OutputsFollowHolds, PTL

\* All stores agree on the hour of an event, for any instant and any zone.
THEOREM SameHourHolds == PayloadSpec => []SameHour
<1>1. OutputsFollow => SameHour
  <2> SUFFICES ASSUME OutputsFollow PROVE SameHour
    OBVIOUS
  <2> DEFINE time == ParseTimestamp(raw.time)
             text == event.timestamp
  <2>1. CASE stage = "published"
    <3>1. event = ToKafkaPayload(Normalized(raw)) /\ ~Rejected(raw)
      BY <2>1 DEF OutputsFollow
    <3>2. text = [local |-> time.at + time.zone, zone |-> time.zone]
      BY <3>1 DEF ToKafkaPayload, Normalized
    <3>3. time.at \in Int /\ time.zone \in Int
      BY <3>1, TimeIsNumber DEF OutputsFollow
    <3>4. raw.time.form # "naive"
      BY <2>1 DEF OutputsFollow, Validated, Normalized, ParseTimestamp
    <3>5. /\ indexed # None => indexed.at = Instant(text)
          /\ counted # None => counted.hour = HourFloor(text)
          /\ scored # None => scored.hour = HourFloor(text)
      BY DEF OutputsFollow, CountRow, SuspectRow
    <3>6. text.zone = time.zone
      BY <3>2
    <3> HIDE DEF time, text
    <3>7. /\ Instant(text) = time.at
          /\ HourFloor(text) <= time.at /\ time.at < HourFloor(text) + 2
          /\ time.zone % 2 = 0 => HourFloor(text) = time.at - (time.at % 2)
      BY <3>2, <3>3, HourOfText, ZenonT(60)
    <3> QED
      BY <3>4, <3>5, <3>6, <3>7 DEF SameHour, text
  <2>2. CASE stage # "published"
    BY <2>2 DEF OutputsFollow, SameHour
  <2> QED
    BY <2>1, <2>2
<1> QED
  BY <1>1, OutputsFollowHolds, PTL

\* The least of a hundred and a score is what the score is compared by.
LEMMA CappedScore ==
    ASSUME NEW x \in Nat
    PROVE  Min({100, x}) = IF x < 100 THEN x ELSE 100
<1> DEFINE m == IF x < 100 THEN x ELSE 100
<1>1. m \in {100, x} /\ \A y \in {100, x} : m <= y
  OBVIOUS
<1>2. \A z \in {100, x} : (\A y \in {100, x} : z <= y) => z = m
  OBVIOUS
<1> HIDE DEF m
<1>3. Min({100, x}) = m
  BY <1>1, <1>2 DEF Min
<1> QED
  BY <1>3 DEF m

\* Which weights add up to half a point.
LEMMA ScoreMeans ==
    ASSUME NEW e, NEW removed \in Nat, NEW added \in Nat,
           e.bytes_removed = removed, e.bytes_added = added,
           added = 0 \/ removed = 0,
           e.bot \in BOOLEAN, e.is_anonymous \in BOOLEAN
    PROVE  ScoreEvent(e) >= 50 <=>
              /\ ~e.bot
              /\ \/ removed >= 500
                 \/ /\ e.is_anonymous
                    /\ e.comment = "" \/ e.event_type = "new" \/ Offensive(e)
                 \/ e.comment = "" /\ Offensive(e)
<1> DEFINE points(s) == IF Signals(e)[s] THEN Weight[s] ELSE 0
           anon      == e.is_anonymous
           silent    == e.comment = ""
           new       == e.event_type = "new"
           offensive == Offensive(e)
           gibberish == e.title = "gibberish"
           total == points("anonymous_editor") + points("no_edit_summary")
                    + points("massive_removal") + points("large_removal")
                    + points("page_blank") + points("anon_new_page")
                    + points("offensive_pattern") + points("gibberish_title")
<1>1. /\ points("anonymous_editor") = IF anon THEN 30 ELSE 0
      /\ points("no_edit_summary") = IF silent THEN 20 ELSE 0
      /\ points("large_removal") = IF removed \in 500 .. 1999 THEN 25 ELSE 0
      /\ points("massive_removal") = IF removed >= 2000 THEN 40 ELSE 0
      /\ points("page_blank") = IF removed >= 500 /\ added = 0 THEN 35 ELSE 0
      /\ points("anon_new_page") = IF anon /\ new THEN 20 ELSE 0
      /\ points("offensive_pattern") = IF offensive THEN 30 ELSE 0
      /\ points("gibberish_title") = IF gibberish /\ ~offensive THEN 10 ELSE 0
  <2> DEFINE large   == removed \in 500 .. 1999
             massive == removed >= 2000
             blanked == removed >= 500 /\ added = 0
             created == anon /\ new
             padded  == gibberish /\ ~offensive
  <2>1. /\ Signals(e)["anonymous_editor"] = anon
        /\ Signals(e)["no_edit_summary"] = silent
        /\ Signals(e)["large_removal"] = large
        /\ Signals(e)["massive_removal"] = massive
        /\ Signals(e)["page_blank"] = blanked
        /\ Signals(e)["anon_new_page"] = created
        /\ Signals(e)["offensive_pattern"] = offensive
        /\ Signals(e)["gibberish_title"] = padded
    BY DEF Signals
  <2>2. /\ Weight["anonymous_editor"] = 30 /\ Weight["no_edit_summary"] = 20
        /\ Weight["large_removal"] = 25 /\ Weight["massive_removal"] = 40
        /\ Weight["page_blank"] = 35 /\ Weight["anon_new_page"] = 20
        /\ Weight["offensive_pattern"] = 30 /\ Weight["gibberish_title"] = 10
    BY DEF Weight
  <2>3. ASSUME NEW s, NEW found \in BOOLEAN, Signals(e)[s] = found
        PROVE  points(s) = IF found THEN Weight[s] ELSE 0
    BY <2>3
  <2>4. anon \in BOOLEAN /\ silent \in BOOLEAN /\ offensive \in BOOLEAN
    BY DEF Offensive
  <2>5. large \in BOOLEAN /\ massive \in BOOLEAN /\ blanked \in BOOLEAN
    OBVIOUS
  <2>6. created \in BOOLEAN /\ padded \in BOOLEAN
    OBVIOUS
  <2> HIDE DEF anon, silent, offensive, large, massive, blanked, created, padded, points
  <2>7. /\ points("anonymous_editor") = IF anon THEN 30 ELSE 0
        /\ points("no_edit_summary") = IF silent THEN 20 ELSE 0
        /\ points("large_removal") = IF large THEN 25 ELSE 0
        /\ points("massive_removal") = IF massive THEN 40 ELSE 0
        /\ points("page_blank") = IF blanked THEN 35 ELSE 0
        /\ points("anon_new_page") = IF created THEN 20 ELSE 0
        /\ points("offensive_pattern") = IF offensive THEN 30 ELSE 0
        /\ points("gibberish_title") = IF padded THEN 10 ELSE 0
    BY <2>1, <2>2, <2>3, <2>4, <2>5, <2>6
  <2> QED
    BY <2>7 DEF large, massive, blanked, created, padded
<1>2. ScoreEvent(e) = IF e.bot THEN 0 ELSE Min({100, total})
  BY DEF ScoreEvent
<1> HIDE DEF points, anon, silent, new, offensive, gibberish
<1>3. total \in Nat
  BY <1>1
<1>4. total >= 50 <=> \/ removed >= 500
                      \/ anon /\ (silent \/ new \/ offensive)
                      \/ silent /\ offensive
  <2>1. CASE removed >= 500
    <3>1. points("page_blank") = 35 /\ points("large_removal") + points("massive_removal") >= 25
      BY <1>1, <2>1
    <3> QED
      BY <1>1, <2>1, <3>1
  <2>2. CASE removed < 500
    <3>1. /\ points("page_blank") = 0 /\ points("large_removal") = 0
          /\ points("massive_removal") = 0
      BY <1>1, <2>2
    <3>2. CASE anon
      BY <1>1, <2>2, <3>1, <3>2
    <3>3. CASE ~anon
      BY <1>1, <2>2, <3>1, <3>3
    <3> QED
      BY <3>2, <3>3
  <2> QED
    BY <2>1, <2>2
<1> HIDE DEF total
<1>5. Min({100, total}) >= 50 <=> total >= 50
  BY <1>3, CappedScore
<1>6. CASE e.bot
  BY <1>2, <1>6
<1>7. CASE ~e.bot
  BY <1>2, <1>4, <1>5, <1>7 DEF anon, silent, new, offensive
<1> QED
  BY <1>6, <1>7

\* What the weights amount to, for a removal of any size.
THEOREM FlaggedMeansHolds == PayloadSpec => []FlaggedMeans
<1>1. OutputsFollow => FlaggedMeans
  <2> SUFFICES ASSUME OutputsFollow, stage = "published", Threshold = 50, scored # None
               PROVE  scored.flagged <=>
                        /\ ~event.bot
                        /\ \/ event.bytes_removed >= 500
                           \/ /\ event.is_anonymous
                              /\ \/ event.comment = "" \/ event.event_type = "new"
                                 \/ Offensive(event)
                           \/ event.comment = "" /\ Offensive(event)
    BY DEF FlaggedMeans
  <2> DEFINE d == Delta(raw)
  <2>1. /\ event = ToKafkaPayload(Normalized(raw)) /\ raw \in Payloads
        /\ ~Breaks(raw) /\ ~Rejected(raw) /\ scored = SuspectRow
    BY DEF OutputsFollow
  <2>2. d \in Int
    BY <2>1, DeltaIsNumber
  <2>3. /\ event.bytes_added = BytesAdded(d) /\ event.bytes_removed = BytesRemoved(d)
        /\ event.bot = raw.bot /\ event.is_anonymous = IsAnonymous(raw)
    BY <2>1 DEF ToKafkaPayload, Normalized
  <2>4. raw.bot \in BOOLEAN /\ IsAnonymous(raw) \in BOOLEAN
    BY <2>1, PayloadAssumption DEF PayloadAssumption, Rejected, IsAnonymous
  <2> HIDE DEF d
  <2>5. /\ BytesAdded(d) \in Nat /\ BytesRemoved(d) \in Nat
        /\ BytesAdded(d) = 0 \/ BytesRemoved(d) = 0
    BY <2>2, BytesOfDelta
  <2>6. scored.flagged <=> ScoreEvent(event) >= 50
    BY <2>1 DEF SuspectRow
  <2> QED
    BY <2>3, <2>4, <2>5, <2>6, ScoreMeans, ZenonT(60)
<1> QED
  BY <1>1, OutputsFollowHolds, PTL
===============================================================================
