------------------------------ MODULE DemuxProof ------------------------------
(***************************************************************************)
(* Proofs about Demux, for any number of partitions, messages, topics and  *)
(* faults and any length of the producer queue, and that no event vanishes *)
(* between wiki.raw and a store, for all sinks that keep the promise       *)
(* Pipeline takes from them.                                               *)
(***************************************************************************)
EXTENDS Pipeline, SequenceTheorems, TLAPS

USE OffsetAssumption, GarbageAssumption, QueueAssumption, FaultAssumption,
    TopicAssumption

-------------------------------------------------------------------------------
(* Sequences.                                                              *)

\* What a queue holds besides its i-th element is still there without it.
LEMMA WithoutKeeps ==
    ASSUME NEW S, NEW s \in Seq(S), NEW i \in 1 .. Len(s)
    PROVE  /\ Without(s, i) \in Seq(S)
           /\ \A j \in 1 .. Len(s) : j # i =>
                 \E k \in 1 .. Len(Without(s, i)) : Without(s, i)[k] = s[j]
<1> DEFINE a == SubSeq(s, 1, i - 1)
           b == SubSeq(s, i + 1, Len(s))
<1>1. /\ a \in Seq(S) /\ Len(a) = i - 1
      /\ \A k \in 1 .. i - 1 : a[k] = s[k]
  BY SubSeqProperties
<1>2. /\ b \in Seq(S) /\ Len(b) = Len(s) - i
      /\ \A k \in 1 .. Len(s) - i : b[k] = s[i + k]
  BY SubSeqProperties
<1> HIDE DEF a, b
<1> DEFINE c == a \o b
<1>3. /\ c \in Seq(S) /\ Len(c) = Len(a) + Len(b)
      /\ \A k \in 1 .. Len(a) + Len(b) :
            c[k] = IF k <= Len(a) THEN a[k] ELSE b[k - Len(a)]
  BY <1>1, <1>2, ConcatProperties
<1>5. Len(a) + Len(b) = Len(s) - 1
  BY <1>1, <1>2
<1> HIDE DEF c
<1>4. ASSUME NEW j \in 1 .. Len(s), j # i
      PROVE  \E k \in 1 .. Len(c) : c[k] = s[j]
  <2>1. CASE j < i
    <3>1. j \in 1 .. Len(a) + Len(b) /\ j <= Len(a) /\ j \in 1 .. i - 1
      BY <1>1, <1>5, <2>1
    <3>2. c[j] = s[j]
      BY <1>1, <1>3, <3>1
    <3> QED
      BY <1>3, <3>1, <3>2
  <2>2. CASE j > i
    <3>1. /\ j - 1 \in 1 .. Len(a) + Len(b)
          /\ ~(j - 1 <= Len(a))
          /\ j - i \in 1 .. Len(s) - i
          /\ (j - 1) - Len(a) = j - i
          /\ i + (j - i) = j
      BY <1>1, <1>5, <2>2
    <3>2. c[j - 1] = b[(j - 1) - Len(a)]
      BY <1>3, <3>1
    <3>3. b[j - i] = s[i + (j - i)]
      BY <1>2, <3>1
    <3>4. c[j - 1] = s[j]
      BY <3>1, <3>2, <3>3
    <3> QED
      BY <1>3, <3>1, <3>4
  <2> QED
    BY <1>4, <2>1, <2>2
<1> QED
  BY <1>3, <1>4 DEF Without, a, b, c

\* An appended element joins what the sequence holds.
LEMMA AppendKeeps ==
    ASSUME NEW S, NEW s \in Seq(S), NEW e \in S
    PROVE  /\ Append(s, e) \in Seq(S)
           /\ \A j \in 1 .. Len(s) : \E k \in 1 .. Len(Append(s, e)) : Append(s, e)[k] = s[j]
           /\ \E k \in 1 .. Len(Append(s, e)) : Append(s, e)[k] = e
  BY AppendProperties

-------------------------------------------------------------------------------
(* Types.                                                                  *)

TypeInv ==
    /\ end \in [Partitions -> 0 .. MaxOffset]
    /\ committed \in [Partitions -> OffsetOrNone(MaxOffset)]
    /\ log \in [Topic -> Seq(Message)]
    /\ position \in [Partitions -> 0 .. MaxOffset]
    /\ pc \in {"down", "poll", "fanout", "flush", "stopped"}
    /\ current \in Message \union {NoMessage}
    /\ pc = "fanout" => current \in Message
    /\ next \in 1 .. Len(FanoutTopics) + 1
    /\ queue \in Seq(Copy)
    /\ pc \in {"down", "stopped"} => queue = <<>>
    /\ faults \in Nat

\* The producer queue may be empty.
LEMMA EmptyQueue == <<>> \in Seq(Copy)
  OBVIOUS

\* The process starts with well-typed variables.
LEMMA TypeInit == Init => TypeInv
<1>1. \A t \in Topic : <<>> \in Seq(Message)
  OBVIOUS
<1> QED
  BY <1>1, EmptyQueue DEF Init, TypeInv, OffsetOrNone, NoMessage

\* An assignment starts each partition at an offset of its log.
LEMMA AssignType ==
    ASSUME TypeInv, Assign
    PROVE  position' \in [Partitions -> 0 .. MaxOffset]
  BY DEF TypeInv, Assign, StartEarliest, OffsetOrNone, NoOffset

\* A commit, lost or not, leaves offsets of the log.
LEMMA CommitType ==
    ASSUME TypeInv, NEW m \in Message, CommitMessage(m)
    PROVE  /\ committed' \in [Partitions -> OffsetOrNone(MaxOffset)]
           /\ faults' \in Nat
<1>1. m[1] \in Partitions /\ m[2] \in 0 .. MaxOffset - 1
  BY DEF Message
<1>2. m[2] + 1 \in OffsetOrNone(MaxOffset)
  BY <1>1 DEF OffsetOrNone
<1>3. CASE committed' = Replace(committed, m[1], m[2] + 1) /\ faults' = faults
  BY <1>1, <1>2, <1>3 DEF TypeInv, Replace
<1>4. CASE faults' = faults + 1 /\ committed' = committed
  BY <1>4 DEF TypeInv
<1> QED
  BY <1>3, <1>4 DEF CommitMessage

\* Every step keeps the types.
LEMMA TypeStep == TypeInv /\ [Next]_vars => TypeInv'
<1> SUFFICES ASSUME TypeInv, [Next]_vars PROVE TypeInv'
  OBVIOUS
<1> USE DEF TypeInv
<1>1. ASSUME NEW p \in Partitions, Publish(p) PROVE TypeInv'
  BY <1>1 DEF Publish, Replace
<1>2. ASSUME NEW p \in Partitions, Poll(p) PROVE TypeInv'
  <2>1. <<p, position[p]>> \in Message
    BY <1>2 DEF Poll, Message
  <2>2. position' \in [Partitions -> 0 .. MaxOffset]
    BY <1>2 DEF Poll, Replace
  <2>3. 1 \in 1 .. Len(FanoutTopics) + 1
    OBVIOUS
  <2> QED
    BY <1>2, <2>1, <2>2, <2>3 DEF Poll
<1>3. ASSUME NEW p \in Partitions, PollGarbage(p) PROVE TypeInv'
  <2>1. <<p, position[p]>> \in Message
    BY <1>3 DEF PollGarbage, Message
  <2>2. position' \in [Partitions -> 0 .. MaxOffset]
    BY <1>3 DEF PollGarbage, Replace
  <2>3. committed' \in [Partitions -> OffsetOrNone(MaxOffset)] /\ faults' \in Nat
    BY <1>3, <2>1, CommitType DEF PollGarbage
  <2> QED
    BY <1>3, <2>2, <2>3 DEF PollGarbage
<1>4. CASE Start
  BY <1>4, AssignType DEF Start, Running
<1>5. CASE Produce
  <2>1. FanoutTopics[next] \in Topic
    BY <1>5 DEF Produce, Topic
  <2>2. <<FanoutTopics[next], current>> \in Copy
    BY <1>5, <2>1 DEF Produce, Copy
  <2>3. queue' \in Seq(Copy)
    BY <1>5, <2>2, AppendKeeps DEF Produce
  <2>4. next' \in 1 .. Len(FanoutTopics) + 1
    BY <1>5 DEF Produce
  <2> QED
    BY <1>5, <2>3, <2>4 DEF Produce
<1>6. CASE QueueFull
  <2>1. 1 \in 1 .. Len(FanoutTopics) + 1
    OBVIOUS
  <2> QED
    BY <1>6, <2>1 DEF QueueFull, EndIteration
<1>7. CASE CommitCurrent
  <2>1. committed' \in [Partitions -> OffsetOrNone(MaxOffset)] /\ faults' \in Nat
    BY <1>7, CommitType DEF CommitCurrent
  <2>2. 1 \in 1 .. Len(FanoutTopics) + 1
    OBVIOUS
  <2> QED
    BY <1>7, <2>1, <2>2 DEF CommitCurrent, EndIteration
<1>8. CASE Deliver
  <2>1. PICK i \in 1 .. Len(queue) :
          /\ log' = Replace(log, queue[i][1], Append(log[queue[i][1]], queue[i][2]))
          /\ queue' = Without(queue, i)
    BY <1>8 DEF Deliver
  <2>2. queue[i][1] \in Topic /\ queue[i][2] \in Message
    BY DEF Copy
  <2>3. Append(log[queue[i][1]], queue[i][2]) \in Seq(Message)
    BY <2>2, AppendKeeps
  <2>4. log' \in [Topic -> Seq(Message)]
    BY <2>1, <2>2, <2>3 DEF Replace
  <2>5. queue' \in Seq(Copy)
    BY <2>1, WithoutKeeps
  <2>6. queue # <<>>
    OBVIOUS
  <2> QED
    BY <1>8, <2>4, <2>5, <2>6 DEF Deliver
<1>9. CASE DeliveryFails
  <2>1. PICK i \in 1 .. Len(queue) : queue' = Without(queue, i)
    BY <1>9 DEF DeliveryFails
  <2>2. queue' \in Seq(Copy) /\ queue # <<>>
    BY <2>1, WithoutKeeps
  <2> QED
    BY <1>9, <2>2 DEF DeliveryFails
<1>10. CASE RequestStop
  BY <1>10 DEF RequestStop
<1>11. CASE CloseConsumer
  BY <1>11 DEF CloseConsumer
<1>12. CASE FlushReturns
  BY <1>12, EmptyQueue DEF FlushReturns
<1>13. CASE Crash
  <2>1. 1 \in 1 .. Len(FanoutTopics) + 1
    OBVIOUS
  <2> QED
    BY <1>13, <2>1, EmptyQueue DEF Crash
<1>14. CASE Rebalance
  BY <1>14, AssignType DEF Rebalance
<1>15. CASE UNCHANGED vars
  BY <1>15 DEF vars
<1> QED
  BY <1>1, <1>2, <1>3, <1>4, <1>5, <1>6, <1>7, <1>8, <1>9, <1>10, <1>11, <1>12,
     <1>13, <1>14, <1>15 DEF Next

\* Every variable the demux acts on has its type, the producer queue holds
\* copies of messages, and it is empty when the process is not there.
THEOREM TypeHolds == Spec => []TypeInv
  BY TypeInit, TypeStep, PTL DEF Spec

-------------------------------------------------------------------------------
(* What is committed is forwarded.                                         *)

\* The copy of message m for topic t is there, on its way, or known to be lost.
Accounted(t, m) == Delivered(t, m) \/ <<t, m>> \in InQueue \union lost \union refused

\* Every message the running process has read is accounted for in every topic,
\* but for the one in hand.
ReadIsForwarded ==
    Running => \A p \in Partitions : \A o \in 0 .. position[p] - 1 :
        \/ <<p, o>> \in Garbage
        \/ Forwarded(p, o)
        \/ pc = "fanout" /\ current = <<p, o>>

\* The message in hand is the last one read from its partition, and it is
\* accounted for in the topics it was handed to.
FanoutUnderWay ==
    pc = "fanout" =>
        /\ position[current[1]] = current[2] + 1
        /\ \A i \in 1 .. next - 1 : Accounted(FanoutTopics[i], current)

ForwardInv ==
    /\ TypeInv
    /\ CommittedIsForwarded
    /\ ReadIsForwarded
    /\ FanoutUnderWay

\* Forwarded, topic by topic.
LEMMA ForwardedMeans ==
    ASSUME NEW p, NEW o
    PROVE  Forwarded(p, o) <=> \A t \in Topic : Accounted(t, <<p, o>>)
  BY DEF Forwarded, Accounted

\* Handing a copy to the producer keeps those it holds and adds this one.
LEMMA ProduceKeeps ==
    ASSUME TypeInv, Produce
    PROVE  InQueue \union {<<FanoutTopics[next], current>>} \subseteq InQueue'
<1> DEFINE c == <<FanoutTopics[next], current>>
<1>1. FanoutTopics[next] \in Topic
  BY DEF Produce, Topic, TypeInv
<1>2. c \in Copy
  BY <1>1 DEF Produce, Copy, TypeInv
<1> HIDE DEF c
<1>3. queue' = Append(queue, c) /\ queue \in Seq(Copy)
  BY DEF Produce, TypeInv, c
<1>4. /\ Len(queue') = Len(queue) + 1 /\ Len(queue) \in Nat
      /\ \A j \in 1 .. Len(queue) : queue'[j] = queue[j]
      /\ queue'[Len(queue) + 1] = c
  BY <1>2, <1>3, AppendProperties
<1>5. c \in InQueue'
  BY <1>4 DEF InQueue
<1>6. InQueue \subseteq InQueue'
  BY <1>4 DEF InQueue
<1> QED
  BY <1>5, <1>6 DEF c

\* A delivered message joins those the topic holds.
LEMMA AppendKeepsMessages ==
    ASSUME NEW s \in Seq(Message), NEW e \in Message
    PROVE  /\ \A j \in 1 .. Len(s) : \E k \in 1 .. Len(Append(s, e)) : Append(s, e)[k] = s[j]
           /\ \E k \in 1 .. Len(Append(s, e)) : Append(s, e)[k] = e
<1>1. /\ Len(Append(s, e)) = Len(s) + 1 /\ Len(s) \in Nat
      /\ \A j \in 1 .. Len(s) : Append(s, e)[j] = s[j]
      /\ Append(s, e)[Len(s) + 1] = e
  BY AppendProperties
<1>2. Len(s) + 1 \in 1 .. Len(Append(s, e)) /\ 1 .. Len(s) \subseteq 1 .. Len(Append(s, e))
  BY <1>1
<1> QED
  BY <1>1, <1>2

\* No step loses sight of a copy: one that leaves the queue is delivered or lost.
LEMMA AccountedStays ==
    ASSUME TypeInv, [Next]_vars, NEW t \in Topic, NEW m, Accounted(t, m)
    PROVE  Accounted(t, m)'
<1> USE DEF TypeInv
<1>1. CASE UNCHANGED <<log, queue, lost>> /\ refused \subseteq refused'
  BY <1>1 DEF Accounted, Delivered, InQueue
<1>2. CASE Produce
  BY <1>2, ProduceKeeps DEF Produce, Accounted, Delivered
<1>3. CASE Deliver
  <2>1. PICK i \in 1 .. Len(queue) :
          /\ log' = Replace(log, queue[i][1], Append(log[queue[i][1]], queue[i][2]))
          /\ queue' = Without(queue, i)
    BY <1>3 DEF Deliver
  <2>2. queue[i][1] \in Topic /\ queue[i][2] \in Message
    BY DEF Copy
  <2>3. queue[i] = <<queue[i][1], queue[i][2]>>
    BY DEF Copy
  <2> DEFINE s == log[queue[i][1]]
             e == queue[i][2]
  <2>4. s \in Seq(Message) /\ e \in Message
    BY <2>2
  <2>5. log' = [log EXCEPT ![queue[i][1]] = Append(s, e)]
    BY <2>1 DEF Replace
  <2> HIDE DEF s, e
  <2>6. /\ \A j \in 1 .. Len(s) : \E k \in 1 .. Len(Append(s, e)) : Append(s, e)[k] = s[j]
        /\ \E k \in 1 .. Len(Append(s, e)) : Append(s, e)[k] = e
    BY <2>4, AppendKeepsMessages
  <2>7. CASE Delivered(t, m)
    <3>1. PICK j \in 1 .. Len(log[t]) : log[t][j] = m
      BY <2>7 DEF Delivered
    <3>2. CASE t = queue[i][1]
      <4>1. log'[t] = Append(s, e) /\ log[t] = s
        BY <2>2, <2>5, <3>2 DEF s
      <4> QED
        BY <2>6, <3>1, <4>1 DEF Accounted, Delivered
    <3>3. CASE t # queue[i][1]
      <4>1. log'[t] = log[t]
        BY <2>5, <3>3
      <4> QED
        BY <3>1, <4>1 DEF Accounted, Delivered
    <3> QED
      BY <3>2, <3>3
  <2>8. CASE <<t, m>> \in InQueue
    <3>1. PICK j \in 1 .. Len(queue) : queue[j] = <<t, m>>
      BY <2>8 DEF InQueue
    <3>2. CASE j = i
      <4>1. t = queue[i][1] /\ m = e
        BY <2>3, <3>1, <3>2 DEF e
      <4>2. log'[t] = Append(s, e)
        BY <2>2, <2>5, <4>1
      <4> QED
        BY <2>6, <4>1, <4>2 DEF Accounted, Delivered
    <3>3. CASE j # i
      <4>1. \E k \in 1 .. Len(queue') : queue'[k] = queue[j]
        BY <2>1, <3>3, WithoutKeeps
      <4> QED
        BY <3>1, <4>1 DEF Accounted, InQueue
    <3> QED
      BY <3>2, <3>3
  <2>9. CASE <<t, m>> \in lost \union refused
    BY <1>3, <2>9 DEF Deliver, Accounted
  <2> QED
    BY <2>7, <2>8, <2>9 DEF Accounted
<1>4. CASE DeliveryFails
  <2>1. PICK i \in 1 .. Len(queue) :
          lost' = lost \union {queue[i]} /\ queue' = Without(queue, i)
    BY <1>4 DEF DeliveryFails
  <2>2. \A j \in 1 .. Len(queue) : j # i => \E k \in 1 .. Len(queue') : queue'[k] = queue[j]
    BY <2>1, WithoutKeeps, ZenonT(60)
  <2>3. InQueue \subseteq InQueue' \union lost'
    BY <2>1, <2>2, ZenonT(60) DEF InQueue
  <2> QED
    BY <1>4, <2>1, <2>3 DEF DeliveryFails, Accounted, Delivered
<1>5. CASE FlushReturns
  BY <1>5 DEF FlushReturns, Accounted, Delivered
<1>6. CASE Crash
  BY <1>6 DEF Crash, Accounted, Delivered
<1>7. ASSUME NEW p \in Partitions, Publish(p) \/ Poll(p) \/ PollGarbage(p)
      PROVE  UNCHANGED <<log, queue, lost>> /\ refused \subseteq refused'
  BY <1>7 DEF Publish, Poll, PollGarbage
<1>8. CASE Start \/ QueueFull \/ CommitCurrent \/ RequestStop \/ CloseConsumer \/ Rebalance
  <2>1. UNCHANGED <<log, queue, lost>> /\ refused \subseteq refused'
    BY <1>8 DEF Start, QueueFull, CommitCurrent, RequestStop, CloseConsumer, Rebalance
  <2> QED
    BY <1>1, <2>1
<1>9. CASE UNCHANGED vars
  BY <1>1, <1>9 DEF vars
<1> QED
  BY <1>1, <1>2, <1>3, <1>4, <1>5, <1>6, <1>7, <1>8, <1>9 DEF Next

\* What is accounted for in every topic stays so.
LEMMA ForwardedStays ==
    ASSUME TypeInv, [Next]_vars, NEW p, NEW o, Forwarded(p, o)
    PROVE  Forwarded(p, o)'
<1>1. \A t \in Topic : Accounted(t, <<p, o>>)'
  BY ForwardedMeans, AccountedStays
<1> QED
  BY <1>1 DEF Forwarded, Accounted

\* When the fan-out is through, the message in hand is accounted for everywhere.
LEMMA FanoutDone ==
    ASSUME ForwardInv, pc = "fanout", next > Len(FanoutTopics)
    PROVE  Forwarded(current[1], current[2])
<1>1. current = <<current[1], current[2]>>
  BY DEF ForwardInv, TypeInv, Message
<1>2. \A i \in 1 .. Len(FanoutTopics) : Accounted(FanoutTopics[i], current)
  BY DEF ForwardInv, FanoutUnderWay, TypeInv
<1>3. \A t \in Topic : Accounted(t, <<current[1], current[2]>>)
  BY <1>1, <1>2 DEF Topic
<1> QED
  BY <1>3, ForwardedMeans

\* At the start nothing is read and nothing is committed.
LEMMA ForwardInit == Init => ForwardInv
<1> SUFFICES ASSUME Init PROVE ForwardInv
  OBVIOUS
<1>1. TypeInv
  BY TypeInit
<1>2. CommittedIsForwarded
  BY DEF Init, CommittedIsForwarded, NoOffset
<1>3. ReadIsForwarded /\ FanoutUnderWay
  BY DEF Init, ReadIsForwarded, FanoutUnderWay, Running
<1> QED
  BY <1>1, <1>2, <1>3 DEF ForwardInv

\* A commit of message m is right when everything up to m is accounted for.
LEMMA CommitForwards ==
    ASSUME ForwardInv, [Next]_vars, NEW m \in Message, CommitMessage(m),
           \A o \in 0 .. m[2] : <<m[1], o>> \in Garbage \/ Forwarded(m[1], o)
    PROVE  CommittedIsForwarded'
<1> SUFFICES ASSUME NEW p \in Partitions, NEW o \in 0 .. committed'[p] - 1
             PROVE  <<p, o>> \in Garbage \/ Forwarded(p, o)'
  BY DEF CommittedIsForwarded, Forwarded, Delivered, InQueue
<1>1. m[1] \in Partitions /\ m[2] \in Nat
  BY DEF Message
<1>2. CASE o \in 0 .. committed[p] - 1
  <2>1. <<p, o>> \in Garbage \/ Forwarded(p, o)
    BY <1>2 DEF ForwardInv, CommittedIsForwarded
  <2> QED
    BY <2>1, ForwardedStays DEF ForwardInv
<1>3. CASE o \notin 0 .. committed[p] - 1
  <2>1. committed' = [committed EXCEPT ![m[1]] = m[2] + 1]
    BY <1>3 DEF CommitMessage, Replace
  <2>2. p = m[1] /\ o \in 0 .. m[2]
    BY <1>1, <1>3, <2>1 DEF ForwardInv, TypeInv
  <2>3. <<p, o>> \in Garbage \/ Forwarded(p, o)
    BY <2>2
  <2> QED
    BY <2>3, ForwardedStays DEF ForwardInv
<1> QED
  BY <1>2, <1>3

\* A step that leaves the offsets alone leaves what was forwarded so.
LEMMA CommittedStays ==
    ASSUME ForwardInv, [Next]_vars, committed' = committed
    PROVE  CommittedIsForwarded'
<1> SUFFICES ASSUME NEW p \in Partitions, NEW o \in 0 .. committed[p] - 1
             PROVE  <<p, o>> \in Garbage \/ Forwarded(p, o)'
  BY DEF CommittedIsForwarded, Forwarded, Delivered, InQueue
<1>1. <<p, o>> \in Garbage \/ Forwarded(p, o)
  BY DEF ForwardInv, CommittedIsForwarded
<1> QED
  BY <1>1, ForwardedStays DEF ForwardInv

\* A step that reads nothing leaves what was read accounted for.
LEMMA ReadStays ==
    ASSUME ForwardInv, [Next]_vars, Running, position' = position,
           pc = "fanout" => pc' = "fanout" /\ current' = current
    PROVE  ReadIsForwarded'
<1> SUFFICES ASSUME NEW p \in Partitions, NEW o \in 0 .. position[p] - 1
             PROVE  \/ <<p, o>> \in Garbage
                    \/ Forwarded(p, o)'
                    \/ pc' = "fanout" /\ current' = <<p, o>>
  BY DEF ReadIsForwarded, Forwarded, Delivered, InQueue
<1>1. <<p, o>> \in Garbage \/ Forwarded(p, o) \/ (pc = "fanout" /\ current = <<p, o>>)
  BY DEF ForwardInv, ReadIsForwarded
<1> QED
  BY <1>1, ForwardedStays DEF ForwardInv

\* (Re)assigned partitions are read from the committed offsets.
LEMMA ReadFromCommitted ==
    ASSUME ForwardInv, [Next]_vars, Assign, committed' = committed
    PROVE  ReadIsForwarded'
<1> SUFFICES ASSUME NEW p \in Partitions, NEW o \in 0 .. position'[p] - 1
             PROVE  <<p, o>> \in Garbage \/ Forwarded(p, o)'
  BY DEF ReadIsForwarded, Forwarded, Delivered, InQueue
<1>1. o \in 0 .. committed[p] - 1
  BY DEF Assign, StartEarliest, NoOffset, ForwardInv, TypeInv, OffsetOrNone
<1>2. <<p, o>> \in Garbage \/ Forwarded(p, o)
  BY <1>1 DEF ForwardInv, CommittedIsForwarded
<1> QED
  BY <1>2, ForwardedStays DEF ForwardInv

\* After the fan-out, or its end by a full queue, the next message is polled.
LEMMA ReadWhenHanded ==
    ASSUME ForwardInv, [Next]_vars, pc = "fanout", position' = position, pc' = "poll",
           NEW CONSTANT q, NEW CONSTANT n, current = <<q, n>>, Forwarded(q, n)'
    PROVE  ReadIsForwarded'
<1> SUFFICES ASSUME NEW p \in Partitions, NEW o \in 0 .. position[p] - 1
             PROVE  <<p, o>> \in Garbage \/ Forwarded(p, o)'
  BY DEF ReadIsForwarded, Forwarded, Delivered, InQueue
<1>1. CASE <<p, o>> \in Garbage \/ Forwarded(p, o)
  BY <1>1, ForwardedStays DEF ForwardInv
<1>2. CASE current = <<p, o>>
  BY <1>2
<1> QED
  BY <1>1, <1>2 DEF ForwardInv, ReadIsForwarded, Running

\* Every step of the demux keeps the inductive invariant.
LEMMA ForwardStep == ForwardInv /\ [Next]_vars => ForwardInv'
<1> SUFFICES ASSUME ForwardInv, [Next]_vars PROVE ForwardInv'
  OBVIOUS
<1> USE DEF ForwardInv
<1>a. TypeInv'
  BY TypeStep
<1>1. ASSUME NEW p \in Partitions, Publish(p) PROVE ForwardInv'
  <2>1. CommittedIsForwarded' /\ FanoutUnderWay'
    <3>1. CommittedIsForwarded'
      BY <1>1, CommittedStays DEF Publish
    <3>2. FanoutUnderWay'
      BY <1>1 DEF Publish, FanoutUnderWay, Accounted, Delivered, InQueue
    <3> QED
      BY <3>1, <3>2
  <2>2. ReadIsForwarded'
    BY <1>1 DEF Publish, ReadIsForwarded, Running, Forwarded, Delivered, InQueue
  <2> QED
    BY <1>a, <2>1, <2>2
<1>2. ASSUME NEW p \in Partitions, Poll(p) PROVE ForwardInv'
  <2>1. CommittedIsForwarded'
    BY <1>2, CommittedStays DEF Poll
  <2>2. position' = [position EXCEPT ![p] = position[p] + 1]
    BY <1>2 DEF Poll, Replace
  <2>3. ReadIsForwarded'
    <3> SUFFICES ASSUME NEW q \in Partitions, NEW o \in 0 .. position'[q] - 1
                 PROVE  \/ <<q, o>> \in Garbage \/ Forwarded(q, o)'
                        \/ pc' = "fanout" /\ current' = <<q, o>>
      BY DEF ReadIsForwarded, Forwarded, Delivered, InQueue
    <3>1. CASE o \in 0 .. position[q] - 1
      <4>1. <<q, o>> \in Garbage \/ Forwarded(q, o)
        BY <1>2, <3>1 DEF Poll, ReadIsForwarded, Running
      <4> QED
        BY <4>1, ForwardedStays
    <3>2. CASE o \notin 0 .. position[q] - 1
      <4>1. q = p /\ o = position[p]
        BY <2>2, <3>2 DEF TypeInv
      <4> QED
        BY <1>2, <4>1 DEF Poll
    <3> QED
      BY <3>1, <3>2
  <2>4. FanoutUnderWay'
    BY <1>2, <2>2 DEF Poll, FanoutUnderWay, TypeInv
  <2> QED
    BY <1>a, <2>1, <2>3, <2>4
<1>3. ASSUME NEW p \in Partitions, PollGarbage(p) PROVE ForwardInv'
  <2> DEFINE m == <<p, position[p]>>
  <2>1. m \in Message /\ m \in Garbage /\ m[1] = p /\ m[2] = position[p]
    BY <1>3 DEF PollGarbage
  <2>2. position' = [position EXCEPT ![p] = position[p] + 1]
    BY <1>3 DEF PollGarbage, Replace
  <2>3. \A o \in 0 .. position[p] : <<p, o>> \in Garbage \/ Forwarded(p, o)
    <3> TAKE o \in 0 .. position[p]
    <3>1. CASE o = position[p]
      BY <2>1, <3>1
    <3>2. CASE o \in 0 .. position[p] - 1
      BY <1>3, <3>2 DEF PollGarbage, ReadIsForwarded, Running
    <3> QED
      BY <3>1, <3>2 DEF TypeInv
  <2>4. CommittedIsForwarded'
    BY <1>3, <2>1, <2>3, CommitForwards DEF PollGarbage
  <2>5. ReadIsForwarded'
    <3> SUFFICES ASSUME NEW q \in Partitions, NEW o \in 0 .. position'[q] - 1
                 PROVE  <<q, o>> \in Garbage \/ Forwarded(q, o)'
      BY DEF ReadIsForwarded, Forwarded, Delivered, InQueue
    <3>1. <<q, o>> \in Garbage \/ Forwarded(q, o)
      <4>1. CASE q = p
        BY <2>2, <2>3, <4>1 DEF TypeInv
      <4>2. CASE q # p
        BY <1>3, <2>2, <4>2 DEF TypeInv, PollGarbage, ReadIsForwarded, Running
      <4> QED
        BY <4>1, <4>2
    <3> QED
      BY <3>1, ForwardedStays
  <2>6. FanoutUnderWay'
    BY <1>3 DEF PollGarbage, FanoutUnderWay
  <2> QED
    BY <1>a, <2>4, <2>5, <2>6
<1>4. CASE Start
  <2>1. CommittedIsForwarded' /\ ReadIsForwarded'
    BY <1>4, CommittedStays, ReadFromCommitted DEF Start
  <2>2. FanoutUnderWay'
    BY <1>4 DEF Start, FanoutUnderWay
  <2> QED
    BY <1>a, <2>1, <2>2
<1>5. CASE Produce
  <2>1. CommittedIsForwarded' /\ ReadIsForwarded'
    BY <1>5, CommittedStays, ReadStays DEF Produce, Running
  <2>2. FanoutUnderWay'
    <3>1. ASSUME NEW i \in 1 .. next' - 1 PROVE Accounted(FanoutTopics[i], current)'
      <4>1. FanoutTopics[i] \in Topic
        BY <1>5 DEF Produce, Topic, TypeInv
      <4>2. CASE i \in 1 .. next - 1
        BY <1>5, <4>1, <4>2, AccountedStays DEF Produce, FanoutUnderWay, Accounted, Delivered, InQueue
      <4>3. CASE i = next
        BY <1>5, <4>3, ProduceKeeps DEF Produce, Accounted
      <4> QED
        BY <1>5, <4>2, <4>3 DEF Produce, TypeInv
    <3> QED
      BY <1>5, <3>1 DEF Produce, FanoutUnderWay, Accounted, Delivered, InQueue
  <2> QED
    BY <1>a, <2>1, <2>2
<1>6. CASE QueueFull
  <2>1. CommittedIsForwarded'
    BY <1>6, CommittedStays DEF QueueFull
  <2>2. PICK q \in Partitions, n \in 0 .. MaxOffset - 1 : current = <<q, n>>
    BY <1>6 DEF QueueFull, TypeInv, Message
  <2>3. Forwarded(q, n)'
    <3> SUFFICES ASSUME NEW t \in Topic PROVE Accounted(t, current) \/ <<t, current>> \in refused'
      <4>1. ASSUME NEW t \in Topic PROVE Accounted(t, <<q, n>>)'
        BY <1>6, <2>2, AccountedStays DEF Accounted
      <4> QED
        BY <4>1 DEF Forwarded, Accounted
    <3>1. PICK i \in 1 .. Len(FanoutTopics) : t = FanoutTopics[i]
      BY DEF Topic
    <3>2. CASE i \in 1 .. next - 1
      BY <1>6, <3>1, <3>2 DEF QueueFull, FanoutUnderWay
    <3>3. CASE i \in next .. Len(FanoutTopics)
      BY <1>6, <3>1, <3>3 DEF QueueFull
    <3> QED
      BY <3>2, <3>3 DEF TypeInv
  <2>5. ReadIsForwarded'
    BY <1>6, <2>2, <2>3, ReadWhenHanded DEF QueueFull, EndIteration
  <2>4. FanoutUnderWay'
    BY <1>6 DEF QueueFull, EndIteration, FanoutUnderWay
  <2> QED
    BY <1>a, <2>1, <2>4, <2>5
<1>7. CASE CommitCurrent
  <2>1. PICK q \in Partitions, n \in 0 .. MaxOffset - 1 : current = <<q, n>>
    BY <1>7 DEF CommitCurrent, TypeInv, Message
  <2>2. current \in Message /\ current[1] = q /\ current[2] = n
    BY <1>7, <2>1 DEF CommitCurrent, TypeInv
  <2>3. Forwarded(q, n)
    BY <1>7, <2>2, FanoutDone DEF CommitCurrent
  <2>4. \A o \in 0 .. n : <<q, o>> \in Garbage \/ Forwarded(q, o)
    <3> TAKE o \in 0 .. n
    <3>1. o \in 0 .. position[q] - 1
      BY <1>7, <2>2 DEF CommitCurrent, FanoutUnderWay, TypeInv
    <3>2. <<q, o>> \in Garbage \/ Forwarded(q, o) \/ current = <<q, o>>
      BY <1>7, <3>1 DEF CommitCurrent, ReadIsForwarded, Running
    <3>3. CASE current = <<q, o>>
      <4>1. o = n
        BY <2>2, <3>3
      <4> QED
        BY <2>3, <4>1
    <3> QED
      BY <3>2, <3>3
  <2>5. CommittedIsForwarded'
    BY <1>7, <2>2, <2>4, CommitForwards DEF CommitCurrent
  <2>6. Forwarded(q, n)'
    BY <2>3, ForwardedStays
  <2>7. ReadIsForwarded'
    BY <1>7, <2>1, <2>6, ReadWhenHanded DEF CommitCurrent, EndIteration
  <2>8. FanoutUnderWay'
    BY <1>7 DEF CommitCurrent, EndIteration, FanoutUnderWay
  <2> QED
    BY <1>a, <2>5, <2>7, <2>8
<1>8. CASE Deliver \/ DeliveryFails
  <2>1. CommittedIsForwarded'
    BY <1>8, CommittedStays DEF Deliver, DeliveryFails
  <2>2. UNCHANGED <<position, pc, current, next>>
    BY <1>8 DEF Deliver, DeliveryFails
  <2>3. ReadIsForwarded'
    <3>1. CASE Running
      BY <2>2, <3>1, ReadStays
    <3>2. CASE ~Running
      BY <2>2, <3>2 DEF ReadIsForwarded, Running
    <3> QED
      BY <3>1, <3>2
  <2>4. FanoutUnderWay'
    <3>1. ASSUME pc = "fanout", NEW i \in 1 .. next - 1
          PROVE  Accounted(FanoutTopics[i], current)'
      <4>1. FanoutTopics[i] \in Topic
        BY DEF TypeInv, Topic
      <4>2. PICK m : m = current
        OBVIOUS
      <4>3. Accounted(FanoutTopics[i], m)
        BY <3>1, <4>2 DEF FanoutUnderWay
      <4>4. Accounted(FanoutTopics[i], m)'
        BY <4>1, <4>3, AccountedStays
      <4> QED
        BY <2>2, <4>2, <4>4 DEF Accounted
    <3> QED
      BY <2>2, <3>1 DEF FanoutUnderWay
  <2> QED
    BY <1>a, <2>1, <2>3, <2>4
<1>9. CASE RequestStop \/ CloseConsumer
  <2>1. CommittedIsForwarded' /\ ReadIsForwarded'
    BY <1>9, CommittedStays, ReadStays DEF RequestStop, CloseConsumer, Running
  <2>2. FanoutUnderWay'
    BY <1>9 DEF RequestStop, CloseConsumer, FanoutUnderWay, Accounted, Delivered, InQueue
  <2> QED
    BY <1>a, <2>1, <2>2
<1>10. CASE FlushReturns \/ Crash
  <2>1. CommittedIsForwarded'
    BY <1>10, CommittedStays DEF FlushReturns, Crash
  <2>2. ReadIsForwarded' /\ FanoutUnderWay'
    BY <1>10 DEF FlushReturns, Crash, ReadIsForwarded, FanoutUnderWay, Running
  <2> QED
    BY <1>a, <2>1, <2>2
<1>11. CASE Rebalance
  <2>1. CommittedIsForwarded' /\ ReadIsForwarded'
    BY <1>11, CommittedStays, ReadFromCommitted DEF Rebalance
  <2>2. FanoutUnderWay'
    BY <1>11 DEF Rebalance, FanoutUnderWay
  <2> QED
    BY <1>a, <2>1, <2>2
<1>12. CASE UNCHANGED vars
  <2>1. CommittedIsForwarded'
    BY <1>12, CommittedStays DEF vars
  <2>2. ReadIsForwarded'
    <3>1. CASE Running
      BY <1>12, <3>1, ReadStays DEF vars
    <3>2. CASE ~Running
      BY <1>12, <3>2 DEF vars, ReadIsForwarded, Running
    <3> QED
      BY <3>1, <3>2
  <2>3. FanoutUnderWay'
    BY <1>12 DEF vars, FanoutUnderWay, Accounted, Delivered, InQueue
  <2> QED
    BY <1>a, <2>1, <2>2, <2>3
<1> QED
  BY <1>1, <1>2, <1>3, <1>4, <1>5, <1>6, <1>7, <1>8, <1>9, <1>10, <1>11, <1>12 DEF Next

\* At least once, as far as the demux can promise it: whatever precedes a
\* committed offset is in every topic, on its way, or in one of the known ways
\* lost, for every number of crashes, rebalances and lost commits.
THEOREM CommittedIsForwardedHolds == Spec => []CommittedIsForwarded
<1>1. ForwardInv => CommittedIsForwarded
  BY DEF ForwardInv
<1> QED
  BY <1>1, ForwardInit, ForwardStep, PTL DEF Spec

-------------------------------------------------------------------------------
(* A clean stop.                                                           *)

\* As long as nothing has gone wrong, what the demux has read is committed but
\* for the message in hand.
NothingLeft ==
    faults = 0 /\ refused = {} =>
        \A p \in Partitions : \A o \in 0 .. position[p] - 1 :
            o < committed[p] \/ (pc = "fanout" /\ current = <<p, o>>)

CleanInv == ForwardInv /\ NothingLeft

\* Without a fault and a full queue, only a message in hand is read and not
\* committed, after every step.
LEMMA NothingLeftStep == CleanInv /\ [Next]_vars => NothingLeft'
<1> SUFFICES ASSUME CleanInv, [Next]_vars, faults' = 0, refused' = {},
                    NEW p \in Partitions, NEW o \in 0 .. position'[p] - 1
             PROVE  o < committed'[p] \/ (pc' = "fanout" /\ current' = <<p, o>>)
  BY DEF NothingLeft
<1> USE DEF CleanInv, ForwardInv
<1>a. TypeInv /\ TypeInv'
  BY TypeStep
<1>1. CASE UNCHANGED <<position, committed, pc, current, refused, faults>>
  BY <1>1 DEF NothingLeft
<1>2. CASE UNCHANGED <<position, committed, refused, faults>> /\ pc # "fanout"
  BY <1>2 DEF NothingLeft
<1>3. ASSUME NEW q \in Partitions, Publish(q)
      PROVE  UNCHANGED <<position, committed, pc, current, refused, faults>>
  BY <1>3 DEF Publish
<1>4. ASSUME NEW q \in Partitions, Poll(q)
      PROVE  o < committed'[p] \/ (pc' = "fanout" /\ current' = <<p, o>>)
  <2>1. position' = [position EXCEPT ![q] = position[q] + 1]
    BY <1>4 DEF Poll, Replace
  <2>2. CASE o \in 0 .. position[p] - 1
    BY <1>4, <2>2 DEF Poll, NothingLeft
  <2>3. CASE o \notin 0 .. position[p] - 1
    <3>1. p = q /\ o = position[q]
      BY <1>a, <2>1, <2>3 DEF TypeInv
    <3> QED
      BY <1>4, <3>1 DEF Poll
  <2> QED
    BY <2>2, <2>3
<1>5. ASSUME NEW q \in Partitions, PollGarbage(q)
      PROVE  o < committed'[p]
  <2>1. position' = [position EXCEPT ![q] = position[q] + 1]
    BY <1>5 DEF PollGarbage, Replace
  <2>2. faults = 0 /\ faults' = faults /\ refused = {} /\ pc = "poll"
    BY <1>5, <1>a DEF PollGarbage, CommitMessage, TypeInv
  <2>3. committed' = [committed EXCEPT ![q] = position[q] + 1]
    BY <1>5, <2>2 DEF PollGarbage, CommitMessage, Replace
  <2>4. CASE p = q
    BY <1>a, <2>1, <2>3, <2>4 DEF TypeInv
  <2>5. CASE p # q
    BY <1>a, <2>1, <2>2, <2>3, <2>5 DEF TypeInv, NothingLeft
  <2> QED
    BY <2>4, <2>5
<1>6. CASE Start
  BY <1>6, <1>a DEF Start, Assign, StartEarliest, TypeInv, OffsetOrNone, NoOffset
<1>7. CASE Produce \/ RequestStop
  BY <1>1, <1>7 DEF Produce, RequestStop
<1>8. ~QueueFull
  <2> SUFFICES ASSUME QueueFull PROVE FALSE
    OBVIOUS
  <2>1. next \in next .. Len(FanoutTopics)
    BY <1>a, TopicAssumption DEF QueueFull, TypeInv
  <2>2. <<FanoutTopics[next], current>> \in refused'
    BY <2>1 DEF QueueFull
  <2> QED
    BY <1>a, <2>2
<1>9. CASE CommitCurrent
  <2>1. PICK q \in Partitions, n \in 0 .. MaxOffset - 1 : current = <<q, n>>
    BY <1>9 DEF CommitCurrent, TypeInv, Message
  <2>2. current[1] = q /\ current[2] = n /\ position[q] = n + 1
    BY <1>9, <2>1 DEF CommitCurrent, FanoutUnderWay
  <2>3. faults = 0 /\ faults' = faults /\ refused = {}
    BY <1>9, <1>a DEF CommitCurrent, CommitMessage, TypeInv
  <2>4. committed' = [committed EXCEPT ![q] = n + 1] /\ position' = position
    BY <1>9, <2>2, <2>3 DEF CommitCurrent, CommitMessage, Replace
  <2>5. CASE p = q
    BY <1>a, <2>2, <2>4, <2>5 DEF TypeInv
  <2>6. CASE p # q
    <3>1. current # <<p, o>>
      BY <2>2, <2>6
    <3> QED
      BY <1>a, <2>3, <2>4, <2>6, <3>1 DEF TypeInv, NothingLeft
  <2> QED
    BY <2>5, <2>6
<1>10. CASE Deliver
  BY <1>1, <1>10 DEF Deliver
<1>11. ~DeliveryFails /\ ~Crash /\ ~Rebalance
  BY <1>a DEF DeliveryFails, Crash, Rebalance, TypeInv
<1>12. CASE CloseConsumer \/ FlushReturns
  BY <1>2, <1>12 DEF CloseConsumer, FlushReturns
<1>13. CASE UNCHANGED vars
  BY <1>1, <1>13 DEF vars
<1> QED
  BY <1>1, <1>3, <1>4, <1>5, <1>6, <1>7, <1>8, <1>9, <1>10, <1>11, <1>12, <1>13 DEF Next

\* A stop of a process that met no fault and no full queue leaves everything it
\* has read committed, and each copy delivered or named by the final flush.
THEOREM CleanStopHolds == Spec => []CleanStop
<1>1. Init => CleanInv
  BY ForwardInit DEF Init, CleanInv, NothingLeft
<1>2. CleanInv /\ [Next]_vars => CleanInv'
  BY ForwardStep, NothingLeftStep DEF CleanInv
<1>3. CleanInv => CleanStop
  <2> SUFFICES ASSUME CleanInv, pc = "stopped", faults = 0, refused = {},
                      NEW p \in Partitions, NEW o \in 0 .. position[p] - 1
               PROVE  /\ o < committed[p]
                      /\ \/ <<p, o>> \in Garbage
                         \/ \A t \in Topic : Delivered(t, <<p, o>>) \/ <<t, <<p, o>>>> \in lost
    BY DEF CleanStop
  <2>1. o < committed[p]
    BY DEF CleanInv, NothingLeft
  <2>2. <<p, o>> \in Garbage \/ Forwarded(p, o)
    BY <2>1, SMTT(30) DEF CleanInv, ForwardInv, TypeInv, OffsetOrNone, NoOffset, CommittedIsForwarded
  <2>3. InQueue = {}
    BY DEF CleanInv, ForwardInv, TypeInv, InQueue
  <2> QED
    BY <2>1, <2>2, <2>3 DEF Forwarded
<1> QED
  BY <1>1, <1>2, <1>3, PTL DEF Spec

-------------------------------------------------------------------------------
(* The order of a language.  LanguageOrder is about what was delivered; a  *)
(* copy still queued has to follow its predecessors as well.               *)

\* The copy of message m for topic t never gets there.
Excused(t, m) == m \in Garbage \/ <<t, m>> \in lost \union refused

\* The k-th copy of the queue follows the copy of message m for its topic.
Follows(k, m) ==
    LET t == queue[k][1] IN
        \/ Excused(t, m)
        \/ Delivered(t, m)
        \/ \E j \in 1 .. (k - 1) : queue[j] = <<t, m>>

QueueOrder ==
    \A k \in 1 .. Len(queue) : \A o \in 0 .. (queue[k][2][2] - 1) :
        Follows(k, <<queue[k][2][1], o>>)

\* Without its i-th element a sequence is the rest of it, in order.
LEMMA WithoutShifts ==
    ASSUME NEW S, NEW s \in Seq(S), NEW i \in 1 .. Len(s)
    PROVE  /\ Without(s, i) \in Seq(S)
           /\ Len(Without(s, i)) = Len(s) - 1
           /\ \A k \in 1 .. Len(s) - 1 :
                 Without(s, i)[k] = IF k < i THEN s[k] ELSE s[k + 1]
<1> DEFINE a == SubSeq(s, 1, i - 1)
           b == SubSeq(s, i + 1, Len(s))
<1>1. /\ a \in Seq(S) /\ Len(a) = i - 1
      /\ \A k \in 1 .. i - 1 : a[k] = s[k]
  BY SubSeqProperties
<1>2. /\ b \in Seq(S) /\ Len(b) = Len(s) - i
      /\ \A k \in 1 .. Len(s) - i : b[k] = s[i + k]
  BY SubSeqProperties
<1> HIDE DEF a, b
<1> DEFINE c == a \o b
<1>3. /\ c \in Seq(S) /\ Len(c) = Len(a) + Len(b)
      /\ \A k \in 1 .. Len(a) + Len(b) :
            c[k] = IF k <= Len(a) THEN a[k] ELSE b[k - Len(a)]
  BY <1>1, <1>2, ConcatProperties
<1>5. Len(a) + Len(b) = Len(s) - 1 /\ Len(s) \in Nat
  BY <1>1, <1>2
<1> HIDE DEF c
<1>4. ASSUME NEW k \in 1 .. Len(s) - 1
      PROVE  c[k] = IF k < i THEN s[k] ELSE s[k + 1]
  <2>1. CASE k < i
    <3>1. k \in 1 .. Len(a) + Len(b) /\ k <= Len(a) /\ k \in 1 .. i - 1
      BY <1>1, <1>5, <2>1
    <3> QED
      BY <1>1, <1>3, <2>1, <3>1
  <2>2. CASE k >= i
    <3>1. /\ k \in 1 .. Len(a) + Len(b) /\ ~(k <= Len(a)) /\ ~(k < i)
          /\ k - Len(a) = k - i + 1 /\ k - i + 1 \in 1 .. Len(s) - i
          /\ i + (k - i + 1) = k + 1
      BY <1>1, <1>5, <2>2
    <3>2. c[k] = b[k - i + 1]
      BY <1>3, <3>1
    <3>3. b[k - i + 1] = s[i + (k - i + 1)]
      BY <1>2, <3>1
    <3> QED
      BY <3>1, <3>2, <3>3
  <2> QED
    BY <2>1, <2>2
<1> QED
  BY <1>3, <1>4, <1>5 DEF Without, a, b, c

\* What a copy of the queue is.
LEMMA QueuedCopy ==
    ASSUME TypeInv, NEW k \in 1 .. Len(queue)
    PROVE  /\ queue[k] \in Copy
           /\ queue[k][1] \in Topic
           /\ queue[k][2] \in Message
           /\ queue[k][2][1] \in Partitions
           /\ queue[k][2][2] \in 0 .. MaxOffset - 1
           /\ queue[k] = <<queue[k][1], queue[k][2]>>
           /\ queue[k][2] = <<queue[k][2][1], queue[k][2][2]>>
<1>1. queue[k] \in Copy
  BY DEF TypeInv
<1>2. queue[k][1] \in Topic /\ queue[k][2] \in Message /\ queue[k] = <<queue[k][1], queue[k][2]>>
  BY <1>1 DEF Copy
<1>3. /\ queue[k][2][1] \in Partitions /\ queue[k][2][2] \in 0 .. MaxOffset - 1
      /\ queue[k][2] = <<queue[k][2][1], queue[k][2][2]>>
  BY <1>2 DEF Message
<1> QED
  BY <1>1, <1>2, <1>3

\* Taking a copy that is delivered or lost out of the queue keeps its order.
LEMMA RemovalKeepsOrder ==
    ASSUME TypeInv, QueueOrder, NEW i \in 1 .. Len(queue), queue' = Without(queue, i),
           lost \subseteq lost', refused \subseteq refused',
           \A t \in Topic : \A m : Delivered(t, m) => Delivered(t, m)',
           NEW u, NEW n, queue[i] = <<u, n>>,
           Delivered(u, n)' \/ <<u, n>> \in lost'
    PROVE  QueueOrder'
<1>1. /\ Len(queue) \in Nat /\ Len(queue') = Len(queue) - 1
      /\ \A k \in 1 .. Len(queue) - 1 : queue'[k] = IF k < i THEN queue[k] ELSE queue[k + 1]
  <2>1. queue \in Seq(Copy) /\ Len(queue) \in Nat
    BY DEF TypeInv
  <2>2. /\ Len(Without(queue, i)) = Len(queue) - 1
        /\ \A k \in 1 .. Len(queue) - 1 :
              Without(queue, i)[k] = IF k < i THEN queue[k] ELSE queue[k + 1]
    BY <2>1, WithoutShifts
  <2> QED
    BY <2>1, <2>2
<1> SUFFICES ASSUME NEW k \in 1 .. Len(queue'), NEW o \in 0 .. (queue'[k][2][2] - 1)
             PROVE  Follows(k, <<queue[k][2][1], o>>)'
  BY DEF QueueOrder
<1> DEFINE old == IF k < i THEN k ELSE k + 1
<1>2. /\ old \in 1 .. Len(queue) /\ queue'[k] = queue[old] /\ old # i
      /\ \A j \in 1 .. old - 1 :
            j = i \/ (j \in 1 .. k - 1 /\ queue'[j] = queue[j])
                  \/ (j - 1 \in 1 .. k - 1 /\ queue'[j - 1] = queue[j])
  <2>1. CASE k < i
    <3>1. old = k /\ k \in 1 .. Len(queue) - 1 /\ queue'[k] = queue[k]
      BY <1>1, <2>1
    <3>2. \A j \in 1 .. k - 1 : queue'[j] = queue[j]
      BY <1>1, <2>1
    <3> QED
      BY <1>1, <2>1, <3>1, <3>2
  <2>2. CASE k >= i
    <3>1. old = k + 1 /\ k \in 1 .. Len(queue) - 1 /\ queue'[k] = queue[k + 1]
      BY <1>1, <2>2
    <3>2. ASSUME NEW j \in 1 .. i - 1
          PROVE  j \in 1 .. k - 1 /\ queue'[j] = queue[j]
      <4>1. j \in 1 .. k - 1 /\ j \in 1 .. Len(queue) - 1 /\ j < i
        BY <1>1, <2>2
      <4> QED
        BY <1>1, <4>1
    <3>3. \A j \in i + 1 .. k : j - 1 \in 1 .. k - 1 /\ queue'[j - 1] = queue[j]
      BY <1>1, <2>2
    <3>4. \A j \in 1 .. old - 1 : j \in 1 .. i - 1 \/ j = i \/ j \in i + 1 .. k
      BY <1>1, <2>2, <3>1
    <3> QED
      BY <1>1, <2>2, <3>1, <3>2, <3>3, <3>4
  <2> QED
    BY <2>1, <2>2
<1> HIDE DEF old
<1>3. PICK t \in Topic, m \in Message : t = queue[old][1] /\ m = <<queue[old][2][1], o>>
  <2>1. /\ queue[old][1] \in Topic /\ queue[old][2][1] \in Partitions
        /\ queue[old][2][2] \in 0 .. MaxOffset - 1
    BY <1>2, QueuedCopy
  <2>2. o \in 0 .. MaxOffset - 1
    BY <1>2, <2>1
  <2>3. <<queue[old][2][1], o>> \in Message
    BY <2>1, <2>2 DEF Message
  <2> QED
    BY <2>1, <2>3
<1>4. Excused(t, m) \/ Delivered(t, m) \/ \E j \in 1 .. (old - 1) : queue[j] = <<t, m>>
  BY <1>2, <1>3 DEF QueueOrder, Follows
<1>5. queue'[k][1] = t /\ <<queue'[k][2][1], o>> = m
  BY <1>2, <1>3
<1>6. ASSUME Excused(t, m)' \/ Delivered(t, m)' \/ \E j \in 1 .. (k - 1) : queue'[j] = <<t, m>>
      PROVE  Follows(k, <<queue[k][2][1], o>>)'
  BY <1>5, <1>6 DEF Follows, Excused, Delivered
<1>7. CASE Excused(t, m)
  BY <1>6, <1>7 DEF Excused
<1>8. CASE Delivered(t, m)
  BY <1>6, <1>8
<1>9. ASSUME NEW j \in 1 .. (old - 1), queue[j] = <<t, m>>
      PROVE  Follows(k, <<queue[k][2][1], o>>)'
  <2>1. CASE j = i
    <3>1. t = u /\ m = n
      BY <1>9, <2>1
    <3> QED
      BY <1>6, <3>1 DEF Excused
  <2>2. CASE j \in 1 .. k - 1 /\ queue'[j] = queue[j]
    BY <1>6, <1>9, <2>2
  <2>3. CASE j - 1 \in 1 .. k - 1 /\ queue'[j - 1] = queue[j]
    BY <1>6, <1>9, <2>3
  <2> QED
    BY <1>2, <2>1, <2>2, <2>3
<1> QED
  BY <1>4, <1>7, <1>8, <1>9

\* A message is appended to the end of a topic.
LEMMA DeliverLog ==
    ASSUME TypeInv, NEW u \in Topic, NEW n \in Message,
           log' = Replace(log, u, Append(log[u], n))
    PROVE  /\ \A t \in Topic \ {u} : log'[t] = log[t]
           /\ Len(log'[u]) = Len(log[u]) + 1 /\ Len(log[u]) \in Nat
           /\ \A j \in 1 .. Len(log[u]) : log'[u][j] = log[u][j]
           /\ log'[u][Len(log[u]) + 1] = n
           /\ Delivered(u, n)'
           /\ \A t \in Topic : \A m : Delivered(t, m) => Delivered(t, m)'
<1>1. log[u] \in Seq(Message)
  BY DEF TypeInv
<1>2. log'[u] = Append(log[u], n) /\ \A t \in Topic \ {u} : log'[t] = log[t]
  BY DEF TypeInv, Replace
<1>3. /\ Len(log'[u]) = Len(log[u]) + 1 /\ Len(log[u]) \in Nat
      /\ \A j \in 1 .. Len(log[u]) : log'[u][j] = log[u][j]
      /\ log'[u][Len(log[u]) + 1] = n
  BY <1>1, <1>2, AppendProperties
<1>4. Delivered(u, n)'
  BY <1>3 DEF Delivered
<1>5. ASSUME NEW t \in Topic, NEW m, Delivered(t, m) PROVE Delivered(t, m)'
  <2>1. CASE t = u
    BY <1>3, <1>5, <2>1 DEF Delivered
  <2>2. CASE t # u
    BY <1>2, <1>5, <2>2 DEF Delivered
  <2> QED
    BY <2>1, <2>2
<1> QED
  BY <1>2, <1>3, <1>4, <1>5

\* The j-th message of topic t follows message m.
LogFollows(t, j, m) == Excused(t, m) \/ \E i \in 1 .. (j - 1) : log[t][i] = m

\* LanguageOrder, message by message.
LEMMA LanguageOrderMeans ==
    ASSUME LanguageOrder, NEW t \in Topic, NEW j \in 1 .. Len(log[t]),
           NEW o \in 0 .. (log[t][j][2] - 1)
    PROVE  LogFollows(t, j, <<log[t][j][1], o>>)
  BY DEF LanguageOrder, LogFollows, Excused

OrderInv == ForwardInv /\ QueueOrder /\ LanguageOrder

\* Steps that deliver nothing keep the order of the topics.
LEMMA LanguageOrderStays ==
    ASSUME LanguageOrder, log' = log, lost \subseteq lost', refused \subseteq refused'
    PROVE  LanguageOrder'
<1> SUFFICES ASSUME NEW t \in Topic, NEW j \in 1 .. Len(log'[t]),
                    NEW o \in 0 .. (log'[t][j][2] - 1)
             PROVE  \/ <<log'[t][j][1], o>> \in Garbage
                    \/ <<t, <<log'[t][j][1], o>>>> \in lost' \union refused'
                    \/ \E i \in 1 .. (j - 1) : log'[t][i] = <<log'[t][j][1], o>>
  BY DEF LanguageOrder
<1>1. j \in 1 .. Len(log[t]) /\ o \in 0 .. (log[t][j][2] - 1)
  OBVIOUS
<1>2. LogFollows(t, j, <<log[t][j][1], o>>)
  BY <1>1, LanguageOrderMeans
<1> QED
  BY <1>2 DEF LogFollows, Excused

\* Steps that neither queue nor deliver: more may be lost or refused.
LEMMA OrderStays ==
    ASSUME QueueOrder, LanguageOrder, log' = log,
           lost \subseteq lost', refused \subseteq refused',
           queue' = queue \/ queue' = <<>>
    PROVE  QueueOrder' /\ LanguageOrder'
<1>1. LanguageOrder'
  BY LanguageOrderStays
<1>2. CASE queue' = <<>>
  BY <1>1, <1>2, EmptyQueue DEF QueueOrder
<1>3. CASE queue' = queue
  BY <1>1, <1>3, ZenonT(60) DEF QueueOrder, Follows, Excused, Delivered
<1> QED
  BY <1>2, <1>3

\* The copy handed to the producer follows those of the messages read before.
LEMMA ProduceKeepsOrder ==
    ASSUME ForwardInv, QueueOrder, Produce
    PROVE  QueueOrder'
<1> DEFINE t == FanoutTopics[next]
           q == current[1]
           n == current[2]
           l == Len(queue)
<1>1. /\ t \in Topic /\ current \in Message /\ <<t, current>> \in Copy
      /\ q \in Partitions /\ n \in 0 .. MaxOffset - 1 /\ current = <<q, n>>
      /\ pc = "fanout" /\ Running
  BY SMTT(30) DEF Produce, ForwardInv, TypeInv, Topic, Copy, Message, Running
<1>2. queue \in Seq(Copy) /\ queue' = Append(queue, <<t, current>>)
  BY DEF Produce, ForwardInv, TypeInv
<1>3. /\ l \in Nat /\ Len(queue') = l + 1
      /\ \A j \in 1 .. l : queue'[j] = queue[j]
      /\ queue'[l + 1] = <<t, current>>
  BY <1>1, <1>2, AppendProperties
<1>4. UNCHANGED <<log, lost, refused>>
  BY DEF Produce
<1> SUFFICES ASSUME NEW k \in 1 .. l + 1, NEW o \in 0 .. (queue'[k][2][2] - 1)
             PROVE  Follows(k, <<queue[k][2][1], o>>)'
  BY <1>3 DEF QueueOrder
<1>5. CASE k \in 1 .. l
  <2>1. queue'[k] = queue[k] /\ \A j \in 1 .. k - 1 : queue'[j] = queue[j]
    BY <1>3, <1>5
  <2>2. Follows(k, <<queue[k][2][1], o>>)
    BY <1>5, <2>1 DEF QueueOrder
  <2> QED
    BY <1>4, <2>1, <2>2 DEF Follows, Excused, Delivered
<1>6. CASE k = l + 1
  <2>1. queue'[k] = <<t, <<q, n>>>> /\ o \in 0 .. n - 1
    BY <1>1, <1>3, <1>6
  <2>2. position[q] = n + 1
    BY <1>1 DEF ForwardInv, FanoutUnderWay
  <2>3. <<q, o>> \in Garbage \/ Forwarded(q, o)
    <3>1. o \in 0 .. position[q] - 1
      BY <1>1, <2>1, <2>2
    <3>2. current # <<q, o>>
      BY <1>1, <2>1
    <3> QED
      BY <1>1, <3>1, <3>2 DEF ForwardInv, ReadIsForwarded
  <2>4. Excused(t, <<q, o>>) \/ Delivered(t, <<q, o>>) \/ <<t, <<q, o>>>> \in InQueue
    BY <1>1, <2>3 DEF Forwarded, Excused
  <2>5. ASSUME <<t, <<q, o>>>> \in InQueue
        PROVE  \E j \in 1 .. k - 1 : queue'[j] = <<t, <<q, o>>>>
    <3>1. PICK j \in 1 .. l : queue[j] = <<t, <<q, o>>>>
      BY <2>5 DEF InQueue
    <3>2. j \in 1 .. k - 1 /\ queue'[j] = queue[j]
      BY <1>3, <1>6
    <3> QED
      BY <3>1, <3>2
  <2> QED
    BY <1>4, <2>1, <2>4, <2>5 DEF Follows, Excused, Delivered
<1> QED
  BY <1>5, <1>6

\* A delivered copy follows its predecessors in the topic: they were before it
\* in the queue, and the producer keeps the order of a language.
LEMMA DeliverKeepsOrder ==
    ASSUME TypeInv, QueueOrder, LanguageOrder, Deliver
    PROVE  QueueOrder' /\ LanguageOrder'
<1>1. PICK i \in 1 .. Len(queue) :
        /\ InOrder(i)
        /\ log' = Replace(log, queue[i][1], Append(log[queue[i][1]], queue[i][2]))
        /\ queue' = Without(queue, i)
  BY DEF Deliver
<1>2. PICK u \in Topic, q \in Partitions, n \in 0 .. MaxOffset - 1 : queue[i] = <<u, <<q, n>>>>
  <2>1. /\ queue[i][1] \in Topic /\ queue[i][2][1] \in Partitions
        /\ queue[i][2][2] \in 0 .. MaxOffset - 1
        /\ queue[i] = <<queue[i][1], <<queue[i][2][1], queue[i][2][2]>>>>
    BY QueuedCopy
  <2> QED
    BY <2>1
<1>3. /\ log' = Replace(log, u, Append(log[u], <<q, n>>))
      /\ <<q, n>> \in Message
  BY <1>1, <1>2 DEF Message
<1>4. UNCHANGED <<lost, refused>>
  BY DEF Deliver
<1>5. /\ \A t \in Topic \ {u} : log'[t] = log[t]
      /\ Len(log'[u]) = Len(log[u]) + 1 /\ Len(log[u]) \in Nat
      /\ \A j \in 1 .. Len(log[u]) : log'[u][j] = log[u][j]
      /\ log'[u][Len(log[u]) + 1] = <<q, n>>
      /\ Delivered(u, <<q, n>>)'
      /\ \A t \in Topic : \A m : Delivered(t, m) => Delivered(t, m)'
  BY <1>3, DeliverLog
<1>6. QueueOrder'
  BY <1>1, <1>2, <1>4, <1>5, RemovalKeepsOrder, ZenonT(60)
<1>7. ASSUME NEW o \in 0 .. n - 1
      PROVE  Excused(u, <<q, o>>) \/ Delivered(u, <<q, o>>)
  <2>1. Follows(i, <<q, o>>)
    BY <1>2 DEF QueueOrder
  <2>2. ~ \E j \in 1 .. i - 1 : queue[j] = <<u, <<q, o>>>>
    BY <1>1, <1>2 DEF InOrder
  <2> QED
    BY <1>2, <2>1, <2>2 DEF Follows
<1>8. LanguageOrder'
  <2> SUFFICES ASSUME NEW t \in Topic, NEW j \in 1 .. Len(log'[t]),
                      NEW o \in 0 .. (log'[t][j][2] - 1)
               PROVE  \/ Excused(t, <<log'[t][j][1], o>>)
                      \/ \E k \in 1 .. (j - 1) : log'[t][k] = <<log'[t][j][1], o>>
    BY <1>4, ZenonT(60) DEF LanguageOrder, Excused
  <2>0. ASSUME j \in 1 .. Len(log[t]), log'[t][j] = log[t][j],
               \A k \in 1 .. j - 1 : log'[t][k] = log[t][k]
        PROVE  \/ Excused(t, <<log'[t][j][1], o>>)
               \/ \E k \in 1 .. (j - 1) : log'[t][k] = <<log'[t][j][1], o>>
    <3>1. LogFollows(t, j, <<log[t][j][1], o>>)
      BY <2>0, LanguageOrderMeans
    <3> QED
      BY <2>0, <3>1 DEF LogFollows
  <2>1. CASE t # u
    BY <1>5, <2>0, <2>1
  <2>2. CASE t = u /\ j \in 1 .. Len(log[u])
    <3>1. \A k \in 1 .. j : k \in 1 .. Len(log[u])
      BY <1>5, <2>2
    <3>2. \A k \in 1 .. Len(log[u]) : log'[t][k] = log[t][k]
      BY <1>5, <2>2
    <3>3. \A k \in 1 .. j - 1 : log'[t][k] = log[t][k]
      BY <1>5, <2>2, <3>1, <3>2
    <3> QED
      BY <2>0, <2>2, <3>2, <3>3
  <2>3. CASE t = u /\ j = Len(log[u]) + 1
    <3>1. log'[t][j] = <<q, n>>
      BY <1>5, <2>3
    <3>2. o \in 0 .. n - 1
      BY <3>1
    <3>3. Excused(u, <<q, o>>) \/ Delivered(u, <<q, o>>)
      BY <1>7, <3>2
    <3>4. CASE Excused(u, <<q, o>>)
      BY <2>3, <3>1, <3>4
    <3>5. CASE Delivered(u, <<q, o>>)
      <4>1. PICK k \in 1 .. Len(log[u]) : log[u][k] = <<q, o>>
        BY <3>5 DEF Delivered
      <4>2. k \in 1 .. j - 1 /\ log'[u][k] = <<q, o>>
        <5>1. k \in 1 .. j - 1
          BY <1>5, <2>3
        <5>2. log'[u][k] = log[u][k]
          BY <1>5
        <5> QED
          BY <4>1, <5>1, <5>2
      <4>3. log'[t][k] = <<log'[t][j][1], o>>
        BY <2>3, <3>1, <4>2
      <4> QED
        BY <4>2, <4>3
    <3> QED
      BY <3>3, <3>4, <3>5
  <2> QED
    BY <1>5, <2>1, <2>2, <2>3, SMTT(30)
<1> QED
  BY <1>6, <1>8

\* Every step keeps the order of each language.
LEMMA OrderStep == OrderInv /\ [Next]_vars => OrderInv'
<1> SUFFICES ASSUME OrderInv, [Next]_vars PROVE QueueOrder' /\ LanguageOrder'
  BY ForwardStep DEF OrderInv
<1> USE DEF OrderInv
<1>1. ASSUME NEW p \in Partitions, Publish(p) \/ Poll(p) \/ PollGarbage(p)
      PROVE  QueueOrder' /\ LanguageOrder'
  BY <1>1, OrderStays DEF Publish, Poll, PollGarbage
<1>2. CASE Start \/ QueueFull \/ CommitCurrent \/ RequestStop \/ CloseConsumer \/ Rebalance
  BY <1>2, OrderStays
     DEF Start, QueueFull, CommitCurrent, RequestStop, CloseConsumer, Rebalance
<1>3. CASE FlushReturns \/ Crash \/ UNCHANGED vars
  BY <1>3, OrderStays DEF FlushReturns, Crash, vars
<1>4. CASE Produce
  <2>1. LanguageOrder'
    BY <1>4, LanguageOrderStays DEF Produce
  <2> QED
    BY <1>4, <2>1, ProduceKeepsOrder
<1>5. CASE Deliver
  BY <1>5, DeliverKeepsOrder DEF ForwardInv
<1>6. CASE DeliveryFails
  <2>1. PICK i \in 1 .. Len(queue) :
            lost' = lost \union {queue[i]} /\ queue' = Without(queue, i)
    BY <1>6 DEF DeliveryFails
  <2>2. PICK u, n : queue[i] = <<u, n>>
    BY QueuedCopy DEF ForwardInv
  <2>3. UNCHANGED <<log, refused>>
    BY <1>6 DEF DeliveryFails
  <2>4. QueueOrder'
    <3>1. \A t \in Topic : \A m : Delivered(t, m) => Delivered(t, m)'
      BY <2>3 DEF Delivered
    <3> QED
      BY <2>1, <2>2, <2>3, <3>1, RemovalKeepsOrder DEF ForwardInv
  <2>5. LanguageOrder'
    BY <2>1, <2>3, LanguageOrderStays
  <2> QED
    BY <2>4, <2>5
<1> QED
  BY <1>1, <1>2, <1>3, <1>4, <1>5, <1>6 DEF Next

\* Within a topic the first copies of one language's events appear in the order
\* of wiki.raw, unless the earlier event was lost on its way to that topic,
\* whatever is replayed (kafka/client.py:75-76).
THEOREM LanguageOrderHolds == Spec => []LanguageOrder
<1>1. Init => OrderInv
  <2> SUFFICES ASSUME Init PROVE QueueOrder /\ LanguageOrder
    BY ForwardInit DEF OrderInv
  <2>1. \A t \in Topic : log[t] = <<>>
    BY DEF Init
  <2> QED
    BY <2>1, EmptyQueue DEF Init, QueueOrder, LanguageOrder
<1>2. OrderInv => LanguageOrder
  BY DEF OrderInv
<1> QED
  BY <1>1, <1>2, OrderStep, PTL DEF Spec

-------------------------------------------------------------------------------
(* Once.  Without a fault or a refused copy each copy is queued once, and   *)
(* what has been queued was read: a restart reads on from there.           *)

Sent(t, m) == Delivered(t, m) \/ <<t, m>> \in InQueue

EachOnce ==
    /\ \A t \in Topic : \A i, j \in 1 .. Len(log[t]) : log[t][i] = log[t][j] => i = j
    /\ \A i, j \in 1 .. Len(queue) : queue[i] = queue[j] => i = j
    /\ \A t \in Topic, m \in Message : <<t, m>> \in InQueue => ~ Delivered(t, m)

SentIsRead ==
    /\ \A t \in Topic, m \in Message : Sent(t, m) => m[2] < position[m[1]]
    /\ pc = "fanout" =>
          \A i \in next .. Len(FanoutTopics) : ~ Sent(FanoutTopics[i], current)

OnceInv == faults = 0 /\ refused = {} => EachOnce /\ SentIsRead

\* Without the queue, nothing is sent but what was delivered.
LEMMA OnceDropped ==
    ASSUME EachOnce, SentIsRead, queue' = <<>>, log' = log, position' = position,
           pc' # "fanout"
    PROVE  EachOnce' /\ SentIsRead'
<1>1. \A t, m : Delivered(t, m)' <=> Delivered(t, m)
  BY DEF Delivered
<1>2. InQueue' = {}
  BY DEF InQueue
<1>3. EachOnce'
  BY <1>2 DEF EachOnce
<1>4. SentIsRead'
  BY <1>1, <1>2 DEF SentIsRead, Sent
<1> QED
  BY <1>3, <1>4

\* The message in hand was not sent to the topic it is handed to now.
LEMMA OnceProduce ==
    ASSUME ForwardInv, EachOnce, SentIsRead, Produce
    PROVE  EachOnce' /\ SentIsRead'
<1> DEFINE t == FanoutTopics[next]
           c == <<t, current>>
           l == Len(queue)
<1>1. /\ t \in Topic /\ current \in Message /\ c \in Copy /\ pc = "fanout"
      /\ next \in 1 .. Len(FanoutTopics) /\ next' = next + 1
      /\ UNCHANGED <<log, position, pc, current>>
  BY DEF Produce, ForwardInv, TypeInv, Topic, Copy
<1>2. queue \in Seq(Copy) /\ queue' = Append(queue, c)
  BY DEF Produce, ForwardInv, TypeInv
<1> HIDE DEF c
<1>3. /\ l \in Nat /\ Len(queue') = l + 1
      /\ \A j \in 1 .. l : queue'[j] = queue[j]
      /\ queue'[l + 1] = c
  BY <1>1, <1>2, AppendProperties
<1>4. InQueue' = InQueue \union {c}
  <2>1. InQueue' \subseteq InQueue \union {c}
    BY <1>3 DEF InQueue
  <2>2. InQueue \subseteq InQueue'
    BY <1>3 DEF InQueue
  <2>3. c \in InQueue'
    BY <1>3 DEF InQueue
  <2> QED
    BY <2>1, <2>2, <2>3
<1>5. \A u, m : Delivered(u, m)' <=> Delivered(u, m)
  BY <1>1 DEF Delivered
<1>6. c \notin InQueue /\ ~ Delivered(t, current)
  BY <1>1 DEF SentIsRead, Sent, c
<1>7. EachOnce'
  <2>1. \A i, j \in 1 .. Len(queue') : queue'[i] = queue'[j] => i = j
    <3>1. \A i \in 1 .. l : queue[i] # c
      BY <1>6 DEF InQueue
    <3> QED
      BY <1>3, <3>1 DEF EachOnce
  <2>2. \A u \in Topic, m \in Message : <<u, m>> \in InQueue' => ~ Delivered(u, m)
    BY <1>4, <1>6 DEF EachOnce, c
  <2> QED
    BY <1>1, <1>5, <2>1, <2>2 DEF EachOnce
<1>8. SentIsRead'
  <2>1. current[2] < position[current[1]]
    BY <1>1 DEF ForwardInv, FanoutUnderWay, TypeInv, Message
  <2>2. \A u, m : Sent(u, m)' => Sent(u, m) \/ (u = t /\ m = current)
    BY <1>4, <1>5 DEF Sent, c
  <2>3. \A u \in Topic, m \in Message : Sent(u, m)' => m[2] < position[m[1]]
    BY <2>1, <2>2 DEF SentIsRead
  <2>4. ASSUME NEW i \in next + 1 .. Len(FanoutTopics)
        PROVE  FanoutTopics[i] # t /\ ~ Sent(FanoutTopics[i], current)
    <3>1. i \in 1 .. Len(FanoutTopics) /\ i # next /\ i \in next .. Len(FanoutTopics)
      BY <1>1
    <3> QED
      BY <1>1, <3>1, DistinctTopicsAssumption DEF SentIsRead
  <2> QED
    BY <1>1, <2>2, <2>3, <2>4 DEF SentIsRead
<1> QED
  BY <1>7, <1>8

\* A delivered copy leaves the queue for good.
LEMMA OnceDeliver ==
    ASSUME TypeInv, EachOnce, SentIsRead, Deliver
    PROVE  EachOnce' /\ SentIsRead'
<1>1. PICK i \in 1 .. Len(queue) :
        /\ log' = Replace(log, queue[i][1], Append(log[queue[i][1]], queue[i][2]))
        /\ queue' = Without(queue, i)
  BY DEF Deliver
<1>2. PICK u \in Topic, n \in Message : queue[i] = <<u, n>>
  BY QueuedCopy
<1>3. log' = Replace(log, u, Append(log[u], n)) /\ UNCHANGED <<position, pc, current, next>>
  BY <1>1, <1>2 DEF Deliver
<1>4. /\ \A t \in Topic \ {u} : log'[t] = log[t]
      /\ Len(log'[u]) = Len(log[u]) + 1 /\ Len(log[u]) \in Nat
      /\ \A j \in 1 .. Len(log[u]) : log'[u][j] = log[u][j]
      /\ log'[u][Len(log[u]) + 1] = n
  BY <1>3, DeliverLog
<1>5. /\ Len(queue) \in Nat /\ Len(queue') = Len(queue) - 1
      /\ \A k \in 1 .. Len(queue) - 1 : queue'[k] = IF k < i THEN queue[k] ELSE queue[k + 1]
  <2>1. queue \in Seq(Copy) /\ Len(queue) \in Nat
    BY DEF TypeInv
  <2>2. /\ Len(Without(queue, i)) = Len(queue) - 1
        /\ \A k \in 1 .. Len(queue) - 1 :
              Without(queue, i)[k] = IF k < i THEN queue[k] ELSE queue[k + 1]
    BY <2>1, WithoutShifts
  <2> QED
    BY <1>1, <2>1, <2>2
<1>6. \A t \in Topic : \A m : Delivered(t, m)' <=> Delivered(t, m) \/ (t = u /\ m = n)
  <2> SUFFICES ASSUME NEW t \in Topic, NEW m
               PROVE  Delivered(t, m)' <=> Delivered(t, m) \/ (t = u /\ m = n)
    OBVIOUS
  <2>1. CASE t = u
    <3>1. Delivered(u, m)' => Delivered(u, m) \/ m = n
      BY <1>4, SMTT(30) DEF Delivered
    <3>2. Delivered(u, m) => Delivered(u, m)'
      BY <1>4 DEF Delivered
    <3>3. Delivered(u, n)'
      BY <1>4 DEF Delivered
    <3> QED
      BY <2>1, <3>1, <3>2, <3>3
  <2>2. CASE t # u
    BY <1>4, <2>2 DEF Delivered
  <2> QED
    BY <2>1, <2>2
<1>7. ~ Delivered(u, n) /\ <<u, n>> \in InQueue
  BY <1>2 DEF EachOnce, InQueue
<1>8. \A k \in 1 .. Len(queue') :
         \E j \in 1 .. Len(queue) : j # i /\ queue'[k] = queue[j] /\ j = IF k < i THEN k ELSE k + 1
  <2> TAKE k \in 1 .. Len(queue')
  <2>1. CASE k < i
    BY <1>5, <2>1
  <2>2. CASE k >= i
    BY <1>5, <2>2
  <2> QED
    BY <2>1, <2>2
<1>9. InQueue' \subseteq InQueue \ {<<u, n>>}
  <2>1. \A j \in 1 .. Len(queue) : j # i => queue[j] \in InQueue \ {<<u, n>>}
    BY <1>2 DEF InQueue, EachOnce
  <2>2. \A k \in 1 .. Len(queue') : queue'[k] \in InQueue \ {<<u, n>>}
    BY <1>8, <2>1
  <2> QED
    BY <2>2 DEF InQueue
<1>10. EachOnce'
  <2>1. ASSUME NEW t \in Topic, NEW j \in 1 .. Len(log'[t]), NEW k \in 1 .. Len(log'[t]),
               log'[t][j] = log'[t][k]
        PROVE  j = k
    <3>1. CASE t # u
      BY <1>4, <2>1, <3>1 DEF EachOnce
    <3>2. CASE t = u
      <4>1. \A o \in 1 .. Len(log[u]) : log[u][o] # n
        BY <1>7 DEF Delivered
      <4>2. \A x, y \in 1 .. Len(log[u]) : log[u][x] = log[u][y] => x = y
        BY DEF EachOnce
      <4>3. \A x \in 1 .. Len(log'[u]) : x \in 1 .. Len(log[u]) \/ x = Len(log[u]) + 1
        BY <1>4
      <4>4. \A x \in 1 .. Len(log[u]) : log'[u][x] # log'[u][Len(log[u]) + 1]
        BY <1>4, <4>1
      <4>5. \A x, y \in 1 .. Len(log[u]) : log'[u][x] = log'[u][y] => x = y
        BY <1>4, <4>2
      <4> QED
        BY <2>1, <3>2, <4>3, <4>4, <4>5
    <3> QED
      BY <3>1, <3>2
  <2>2. ASSUME NEW j \in 1 .. Len(queue'), NEW k \in 1 .. Len(queue'), queue'[j] = queue'[k]
        PROVE  j = k
    <3>1. PICK x \in 1 .. Len(queue) : queue'[j] = queue[x] /\ x = IF j < i THEN j ELSE j + 1
      BY <1>8
    <3>2. PICK y \in 1 .. Len(queue) : queue'[k] = queue[y] /\ y = IF k < i THEN k ELSE k + 1
      BY <1>8
    <3>3. x = y
      BY <2>2, <3>1, <3>2 DEF EachOnce
    <3> QED
      BY <1>5, <3>1, <3>2, <3>3
  <2>3. \A t \in Topic, m \in Message : <<t, m>> \in InQueue' => ~ Delivered(t, m)'
    BY <1>6, <1>9 DEF EachOnce
  <2> QED
    BY <2>1, <2>2, <2>3 DEF EachOnce
<1>11. \A t \in Topic, m \in Message : Sent(t, m)' => Sent(t, m)
  BY <1>6, <1>7, <1>9 DEF Sent
<1>12. SentIsRead'
  <2>1. pc = "fanout" => current \in Message
    BY DEF TypeInv
  <2>2. next \in Nat /\ \A k \in next .. Len(FanoutTopics) : FanoutTopics[k] \in Topic
    BY DEF TypeInv, Topic
  <2> QED
    BY <1>3, <1>11, <2>1, <2>2 DEF SentIsRead
<1> QED
  BY <1>10, <1>12

\* A message that is read now was not sent before.
LEMMA OncePoll ==
    ASSUME TypeInv, EachOnce, SentIsRead, NEW p \in Partitions, Poll(p) \/ PollGarbage(p)
    PROVE  EachOnce' /\ SentIsRead'
<1>1. /\ UNCHANGED <<log, queue>>
      /\ position' = [position EXCEPT ![p] = position[p] + 1]
      /\ pc' = "fanout" => current' = <<p, position[p]>>
      /\ position[p] < end[p]
  BY DEF Poll, PollGarbage, Replace
<1>2. ASSUME NEW t \in Topic, NEW m \in Message, Sent(t, m)
      PROVE  m[2] < position'[m[1]] /\ m # <<p, position[p]>>
  <2>1. m[2] < position[m[1]] /\ m[1] \in Partitions /\ m[2] \in Int
    BY <1>2 DEF SentIsRead, Message
  <2> QED
    BY <1>1, <2>1 DEF TypeInv
<1>3. <<p, position[p]>> \in Message
  BY <1>1 DEF TypeInv, Message
<1>4. ASSUME pc' = "fanout"
      PROVE  \A i \in next' .. Len(FanoutTopics) : ~ Sent(FanoutTopics[i], current')
  <2>1. next' = 1 /\ current' = <<p, position[p]>>
    BY <1>4, <1>1 DEF Poll, PollGarbage
  <2>2. \A i \in 1 .. Len(FanoutTopics) : FanoutTopics[i] \in Topic
    BY DEF Topic
  <2> QED
    BY <1>2, <1>3, <2>1, <2>2
<1>5. EachOnce'
  BY <1>1 DEF EachOnce, InQueue, Delivered
<1>6. \A t : \A m : Sent(t, m)' <=> Sent(t, m)
  BY <1>1 DEF Sent, Delivered, InQueue
<1>7. SentIsRead'
  BY <1>2, <1>4, <1>6 DEF SentIsRead
<1> QED
  BY <1>5, <1>7

\* A restart, without a fault, reads on from behind whatever was sent.
LEMMA OnceStart ==
    ASSUME CleanInv, EachOnce, SentIsRead, faults = 0, refused = {}, Start
    PROVE  EachOnce' /\ SentIsRead'
<1>1. UNCHANGED <<log, queue, committed>> /\ pc' = "poll" /\ pc # "fanout"
  BY DEF Start, Running
<1>2. ASSUME NEW t \in Topic, NEW m \in Message, Sent(t, m)
      PROVE  m[2] < position'[m[1]]
  <2>1. m[1] \in Partitions /\ m[2] \in 0 .. position[m[1]] - 1
    BY <1>2 DEF SentIsRead, Message, CleanInv, ForwardInv, TypeInv
  <2>2. m[2] < committed[m[1]] /\ 0 <= m[2]
    BY <1>1, <2>1 DEF CleanInv, NothingLeft
  <2>3. committed[m[1]] \in {NoOffset} \union Nat
    BY <2>1 DEF CleanInv, ForwardInv, TypeInv, OffsetOrNone
  <2>4. position'[m[1]] = committed[m[1]]
    BY <2>1, <2>2, <2>3 DEF Start, Assign, StartEarliest, NoOffset
  <2> QED
    BY <2>2, <2>4
<1>3. EachOnce'
  BY <1>1 DEF EachOnce, InQueue, Delivered
<1>4. \A t : \A m : Sent(t, m)' <=> Sent(t, m)
  BY <1>1 DEF Sent, Delivered, InQueue
<1>5. SentIsRead'
  BY <1>1, <1>2, <1>4 DEF SentIsRead
<1> QED
  BY <1>3, <1>5

\* Every step without a fault keeps what is sent once.
LEMMA OnceStep == CleanInv /\ OnceInv /\ [Next]_vars => OnceInv'
<1> SUFFICES ASSUME CleanInv, OnceInv, [Next]_vars, faults' = 0, refused' = {}
             PROVE  EachOnce' /\ SentIsRead'
  BY DEF OnceInv
<1> USE DEF CleanInv, ForwardInv
<1>0. TypeInv /\ TypeInv' /\ faults \in Nat
  BY TypeStep DEF TypeInv
<1>1. ASSUME UNCHANGED <<refused, faults>> PROVE EachOnce /\ SentIsRead
  BY <1>1 DEF OnceInv
<1>2. ASSUME UNCHANGED <<log, queue, position, refused, faults>>,
             pc' = "fanout" => pc = "fanout" /\ UNCHANGED <<current, next>>
      PROVE  EachOnce' /\ SentIsRead'
  <2>1. EachOnce /\ SentIsRead
    BY <1>1, <1>2
  <2>2. EachOnce'
    BY <1>2, <2>1 DEF EachOnce, InQueue, Delivered
  <2>3. \A t : \A m : Sent(t, m)' <=> Sent(t, m)
    BY <1>2 DEF Sent, Delivered, InQueue
  <2>4. SentIsRead'
    BY <1>2, <2>1, <2>3 DEF SentIsRead
  <2> QED
    BY <2>2, <2>4
<1>3. ASSUME NEW p \in Partitions, Publish(p) PROVE EachOnce' /\ SentIsRead'
  BY <1>2, <1>3 DEF Publish
<1>4. ASSUME NEW p \in Partitions, Poll(p) \/ PollGarbage(p)
      PROVE  EachOnce' /\ SentIsRead'
  <2>1. UNCHANGED <<refused, faults>>
    BY <1>0, <1>4 DEF Poll, PollGarbage, CommitMessage
  <2> QED
    BY <1>0, <1>1, <1>4, <2>1, OncePoll
<1>5. CASE Start
  BY <1>1, <1>5, OnceStart DEF Start
<1>6. CASE Produce
  BY <1>1, <1>6, OnceProduce DEF Produce
<1>7. CASE Deliver
  BY <1>0, <1>1, <1>7, OnceDeliver DEF Deliver
<1>8. ~ QueueFull
  <2> SUFFICES ASSUME QueueFull PROVE FALSE
    OBVIOUS
  <2>1. next \in next .. Len(FanoutTopics)
    BY <1>0, TopicAssumption DEF QueueFull, TypeInv
  <2>2. <<FanoutTopics[next], current>> \in refused'
    BY <2>1 DEF QueueFull
  <2> QED
    BY <2>2
<1>9. ~ DeliveryFails /\ ~ Crash /\ ~ Rebalance
  BY <1>0 DEF DeliveryFails, Crash, Rebalance
<1>10. CASE CommitCurrent
  <2>1. UNCHANGED faults
    BY <1>0, <1>10 DEF CommitCurrent, CommitMessage
  <2> QED
    BY <1>2, <1>10, <2>1 DEF CommitCurrent, EndIteration
<1>11. CASE RequestStop \/ CloseConsumer
  BY <1>2, <1>11 DEF RequestStop, CloseConsumer
<1>12. CASE FlushReturns
  BY <1>1, <1>12, OnceDropped DEF FlushReturns
<1>13. CASE UNCHANGED vars
  BY <1>2, <1>13 DEF vars
<1> QED
  BY <1>3, <1>4, <1>5, <1>6, <1>7, <1>8, <1>9, <1>10, <1>11, <1>12, <1>13 DEF Next

\* No topic gets an event twice as long as no fault occurs and no copy is
\* refused, however often the process is stopped and started again.
THEOREM OnceHolds == Spec => []OnceWithoutFaults
<1>1. Init => CleanInv /\ OnceInv
  <2> SUFFICES ASSUME Init PROVE CleanInv /\ OnceInv
    OBVIOUS
  <2>1. CleanInv
    BY ForwardInit DEF Init, CleanInv, NothingLeft
  <2>2. InQueue = {} /\ \A t \in Topic : log[t] = <<>>
    BY DEF Init, InQueue
  <2>3. EachOnce
    BY <2>2, EmptyQueue DEF Init, EachOnce
  <2>4. SentIsRead
    BY <2>2 DEF Init, SentIsRead, Sent, Delivered
  <2> QED
    BY <2>1, <2>3, <2>4 DEF OnceInv
<1>2. CleanInv /\ OnceInv /\ [Next]_vars => (CleanInv /\ OnceInv)'
  BY ForwardStep, NothingLeftStep, OnceStep DEF CleanInv
<1>3. OnceInv => OnceWithoutFaults
  BY DEF OnceInv, EachOnce, OnceWithoutFaults
<1> QED
  BY <1>1, <1>2, <1>3, PTL DEF Spec

-------------------------------------------------------------------------------
(* The pipeline.                                                           *)

\* What a sink has committed, it has stored, from where it began.
SinkInv ==
    /\ entered \in [Topic -> Nat]
    /\ reached \in [Topic -> Nat \union {NoOffset}]
    /\ stored \in [Topic -> SUBSET Nat]
    /\ \A t \in Topic : \A o \in entered[t] .. reached[t] - 1 : o \in stored[t]

PipeInv == ForwardInv /\ SinkInv

\* The sinks keep their promise.
LEMMA SinkKeeps ==
    ASSUME SinkInv, ForwardInv, NEW t \in Topic, SinkStep(t)
    PROVE  SinkInv'
<1>1. Len(log[t]) \in Nat
  BY DEF ForwardInv, TypeInv
<1>2. CASE Enter(t)
  BY <1>1, <1>2 DEF Enter, SinkInv, Replace, StartLatest, NoOffset
<1>3. ASSUME NEW a \in 0 .. Len(log[t]), NEW z \in 0 .. Len(log[t]), Store(t, a, z)
      PROVE  SinkInv'
  BY <1>1, <1>3 DEF Store, SinkInv, Replace, NoOffset
<1>4. ASSUME NEW c \in 0 .. Len(log[t]), Commit(t, c) PROVE SinkInv'
  BY <1>1, <1>4 DEF Commit, SinkInv, Replace, NoOffset
<1> QED
  BY <1>2, <1>3, <1>4 DEF SinkStep

\* A step of a sink is none of the demux.
LEMMA SinkLeavesDemux ==
    ASSUME NEW t \in Topic, SinkStep(t)
    PROVE  UNCHANGED vars
  BY DEF SinkStep, Enter, Store, Commit

\* No step of the pipeline breaks the invariant.
LEMMA PipeStep == PipeInv /\ [PipeNext]_pipeVars => PipeInv'
<1> SUFFICES ASSUME PipeInv, [PipeNext]_pipeVars PROVE PipeInv'
  OBVIOUS
<1>1. CASE DemuxStep
  BY <1>1, ForwardStep DEF DemuxStep, PipeInv, SinkInv, sinkVars
<1>2. ASSUME NEW t \in Topic, SinkStep(t) PROVE PipeInv'
  BY <1>2, SinkKeeps, SinkLeavesDemux, ForwardStep DEF PipeInv
<1>3. CASE UNCHANGED pipeVars
  <2>1. UNCHANGED vars /\ UNCHANGED sinkVars
    BY <1>3 DEF pipeVars, vars, sinkVars
  <2> QED
    BY <2>1, ForwardStep DEF PipeInv, SinkInv, sinkVars
<1> QED
  BY <1>1, <1>2, <1>3 DEF PipeNext

\* An event that is in a topic is stored behind it, or will be read, or the sink
\* began behind it.
LEMMA DeliveredReaches ==
    ASSUME PipeInv, NEW t \in Topic, NEW m, Delivered(t, m)
    PROVE  Reaches(t, m)
<1>1. PICK i \in 1 .. Len(log[t]) : log[t][i] = m
  BY DEF Delivered
<1>2. i \in Nat \ {0}
  BY <1>1 DEF PipeInv, ForwardInv, TypeInv
<1>3. i - 1 \in stored[t] \/ reached[t] < i \/ i - 1 < entered[t]
  <2>1. /\ entered[t] \in Int /\ reached[t] \in Int
        /\ \A o \in entered[t] .. reached[t] - 1 : o \in stored[t]
    BY DEF PipeInv, SinkInv, NoOffset
  <2> QED
    BY <1>2, <2>1
<1> QED
  BY <1>1, <1>3 DEF Reaches

\* No event vanishes: behind every topic, an event whose raw offset is committed
\* is stored or still to be read, or queued, or lost in one of the known ways
\* (demux.py:83-97), whatever crashes, rebalances and lost commits there were.
THEOREM NothingVanishesHolds == PipeSpec => []NothingVanishes
<1>1. PipeInit => PipeInv
  BY ForwardInit DEF PipeInit, PipeInv, SinkInv, NoOffset
<1>2. PipeInv /\ [PipeNext]_pipeVars => PipeInv'
  BY PipeStep
<1>3. PipeInv => NothingVanishes
  <2> SUFFICES ASSUME PipeInv, NEW p \in Partitions, NEW o \in 0 .. committed[p] - 1,
                      <<p, o>> \notin Garbage, NEW t \in Topic
               PROVE  \/ <<t, <<p, o>>>> \in InQueue \union lost \union refused
                      \/ Reaches(t, <<p, o>>)
    BY DEF NothingVanishes
  <2>1. Delivered(t, <<p, o>>) \/ <<t, <<p, o>>>> \in InQueue \union lost \union refused
    BY DEF PipeInv, ForwardInv, CommittedIsForwarded, Forwarded
  <2> QED
    BY <2>1, DeliveredReaches
<1> QED
  BY <1>1, <1>2, <1>3, PTL DEF PipeSpec
===============================================================================
