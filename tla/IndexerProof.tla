----------------------------- MODULE IndexerProof -----------------------------
(***************************************************************************)
(* Proofs about Indexer, for any number of partitions, messages and hours, *)
(* any batch size and any number of faults and failures.                   *)
(***************************************************************************)
EXTENDS Indexer, SequenceTheorems, TLAPS

USE OffsetAssumption, GarbageAssumption, BatchAssumption, BoundAssumption

-------------------------------------------------------------------------------
(* Types.                                                                  *)

TypeInv ==
    /\ end \in [Partitions -> 0 .. MaxOffset]
    /\ committed \in [Partitions -> OffsetOrNone(MaxOffset)]
    /\ base \in [Partitions -> 0 .. MaxOffset]
    /\ position \in [Partitions -> 0 .. MaxOffset]
    /\ messages \in Seq(Message)
    /\ acked \in 0 .. Len(messages)
    /\ pc \in {"down", "poll", "build", "pin", "bulk", "commit", "stopped"}
    /\ pc # "commit" => acked = 0
    /\ hour \in Hour
    /\ seen \in Hour
    /\ jobHour \in Hour \union {NoHour}
    /\ writeIndex \in Hour
    /\ docs \in [Hour -> SUBSET Message]
    /\ refused \in SUBSET Message
    /\ faults \in 0 .. MaxFaults
    /\ failures \in 0 .. MaxFailures

\* A batch may be empty.
LEMMA EmptyBatch == <<>> \in Seq(Message) /\ Len(<<>>) = 0
  BY EmptySeq

\* The batch holds messages.
LEMMA BatchOfMessages ==
    ASSUME TypeInv
    PROVE  Batched \in SUBSET Message /\ BatchDocs \in SUBSET Batched
  BY DEF TypeInv, Batched, BatchDocs

\* Entering the partitions keeps positions and entry points inside the logs.
LEMMA AssignType ==
    ASSUME TypeInv, Assign
    PROVE  /\ position' \in [Partitions -> 0 .. MaxOffset]
           /\ base' \in [Partitions -> 0 .. MaxOffset]
<1>1. \A p \in Partitions : StartLatest(committed[p], end[p]) \in 0 .. MaxOffset
  BY DEF TypeInv, StartLatest, OffsetOrNone, NoOffset
<1>2. \A p \in Partitions :
         (IF committed[p] = NoOffset THEN end[p] ELSE base[p]) \in 0 .. MaxOffset
  BY DEF TypeInv
<1> QED
  BY <1>1, <1>2 DEF Assign

Abandoned ==
    /\ acked' = 0
    /\ messages' \in {messages, <<>>}
    /\ pc' \in {"poll", "stopped"}
    /\ pc' = "poll" => messages' = messages

\* A flush that raised keeps the batch and polls on, or ends the process.
LEMMA AbandonKeeps ==
    ASSUME AbandonFlush
    PROVE  Abandoned
  BY DEF AbandonFlush, Abandoned

\* An indexed set of messages joins what the written index holds.
LEMMA IndexKeeps ==
    ASSUME TypeInv, NEW S \in SUBSET Message, IndexDocs(S)
    PROVE  /\ docs' \in [Hour -> SUBSET Message]
           /\ docs'[writeIndex] = docs[writeIndex] \union S
           /\ \A h \in Hour \ {writeIndex} : docs'[h] = docs[h]
  BY DEF TypeInv, IndexDocs, Replace

\* The committed offset of a message of the batch is one of its partition.
LEMMA NextToCommitType ==
    ASSUME TypeInv, acked < Len(messages)
    PROVE  /\ NextToCommit \in Message
           /\ NextToCommit[1] \in Partitions
           /\ NextToCommit[2] \in 0 .. MaxOffset - 1
           /\ OffsetAfter(NextToCommit) = NextToCommit[2] + 1
           /\ OffsetAfter(NextToCommit) \in OffsetOrNone(MaxOffset)
<1>1. NextToCommit \in Message
  BY DEF TypeInv, NextToCommit
<1>2. NextToCommit[1] \in Partitions /\ NextToCommit[2] \in 0 .. MaxOffset - 1
  BY <1>1 DEF Message
<1> QED
  BY <1>1, <1>2 DEF OffsetAfter, OffsetOrNone

\* Every step keeps the types.
LEMMA TypeStep == TypeInv /\ [Next]_vars => TypeInv'
<1> SUFFICES ASSUME TypeInv, [Next]_vars PROVE TypeInv'
  OBVIOUS
<1> USE DEF TypeInv
<1>1. ASSUME NEW p \in Partitions, Publish(p) PROVE TypeInv'
  BY <1>1 DEF Publish, Replace, processVars, clusterVars
<1>2. ASSUME NEW p \in Partitions, Poll(p) PROVE TypeInv'
  <2>1. <<p, position[p]>> \in Message
    BY <1>2 DEF Poll, Message
  <2>2. messages' \in Seq(Message) /\ Len(messages') = Len(messages) + 1
    BY <1>2, <2>1 DEF Poll
  <2>3. position' \in [Partitions -> 0 .. MaxOffset]
    BY <1>2 DEF Poll, Replace
  <2>4. pc' \in {"poll", "build"} /\ acked' = 0
    BY <1>2 DEF Poll
  <2> QED
    BY <1>2, <2>2, <2>3, <2>4 DEF Poll, brokerVars, clusterVars
<1>3. CASE Start
  <2>1. position' \in [Partitions -> 0 .. MaxOffset]
        /\ base' \in [Partitions -> 0 .. MaxOffset]
    BY <1>3, AssignType DEF Start
  <2>2. messages' \in Seq(Message) /\ acked' \in 0 .. Len(messages')
    BY <1>3, EmptyBatch DEF Start
  <2> QED
    BY <1>3, <2>1, <2>2 DEF Start, clusterVars
<1>4. CASE PollNothing
  BY <1>4 DEF PollNothing, brokerVars, clusterVars
<1>5. CASE Tick
  BY <1>5 DEF Tick, brokerVars, clusterVars
<1>6. CASE BuildDocs
  BY <1>6 DEF BuildDocs, brokerVars, clusterVars
<1>7. ASSUME Abandoned, UNCHANGED <<brokerVars, position, seen, hour, jobHour, writeIndex>>,
             docs' \in [Hour -> SUBSET Message], refused' \in SUBSET Message,
             faults' \in 0 .. MaxFaults, failures' \in 0 .. MaxFailures
      PROVE  TypeInv'
  <2>1. messages' \in Seq(Message) /\ acked' \in 0 .. Len(messages')
    <3>1. CASE messages' = messages
      BY <1>7, <3>1 DEF Abandoned
    <3>2. CASE messages' = <<>>
      BY <1>7, <3>2, EmptyBatch DEF Abandoned
    <3> QED
      BY <1>7, <3>1, <3>2 DEF Abandoned
  <2> QED
    BY <1>7, <2>1 DEF Abandoned, brokerVars
<1>8. CASE EnrichFails
  BY <1>7, <1>8, AbandonKeeps DEF EnrichFails, clusterVars
<1>9. CASE RequestFails
  BY <1>7, <1>9, AbandonKeeps DEF RequestFails, clusterVars
<1>10. CASE Pin
  BY <1>10 DEF Pin, brokerVars
<1>11. CASE Bulk
  <2>1. docs' \in [Hour -> SUBSET Message]
    BY <1>11, BatchOfMessages, IndexKeeps DEF Bulk
  <2> QED
    BY <1>11, <2>1 DEF Bulk, brokerVars
<1>12. CASE BulkRefuses
  <2>1. PICK R \in SUBSET BatchDocs \ {{}} :
            IndexDocs(BatchDocs \ R) /\ refused' = refused \union R
    BY <1>12 DEF BulkRefuses
  <2>2. R \in SUBSET Message /\ BatchDocs \ R \in SUBSET Message
    BY BatchOfMessages
  <2>3. docs' \in [Hour -> SUBSET Message] /\ refused' \in SUBSET Message
    BY <2>1, <2>2, IndexKeeps
  <2> QED
    BY <1>12, <2>3 DEF BulkRefuses, brokerVars
<1>13. CASE BulkRaises
  <2>1. PICK S \in SUBSET BatchDocs : IndexDocs(S)
    BY <1>13 DEF BulkRaises
  <2>2. docs' \in [Hour -> SUBSET Message]
    BY <2>1, BatchOfMessages, IndexKeeps
  <2> QED
    BY <1>7, <1>13, <2>2, AbandonKeeps DEF BulkRaises
<1>14. CASE CommitNext
  <2>1. committed' \in [Partitions -> OffsetOrNone(MaxOffset)]
    BY <1>14, NextToCommitType DEF CommitNext, Replace
  <2>2. faults' \in 0 .. MaxFaults /\ acked' \in 0 .. Len(messages)
    BY <1>14 DEF CommitNext
  <2> QED
    BY <1>14, <2>1, <2>2 DEF CommitNext, clusterVars
<1>15. CASE CommitRaises
  BY <1>7, <1>15, AbandonKeeps DEF CommitRaises, clusterVars
<1>16. CASE FlushDone
  BY <1>16, EmptyBatch DEF FlushDone, brokerVars, clusterVars
<1>17. CASE RequestStop
  BY <1>17 DEF RequestStop, brokerVars, clusterVars
<1>18. CASE LeaveLoop
  BY <1>18 DEF LeaveLoop, brokerVars, clusterVars
<1>19. CASE Crash
  BY <1>19, EmptyBatch DEF Crash, brokerVars, clusterVars
<1>20. CASE Rebalance
  <2>1. position' \in [Partitions -> 0 .. MaxOffset]
        /\ base' \in [Partitions -> 0 .. MaxOffset]
    BY <1>20, AssignType DEF Rebalance
  <2> QED
    BY <1>20, <2>1 DEF Rebalance, clusterVars
<1>21. CASE HourPasses
  BY <1>21 DEF HourPasses, brokerVars, processVars, Hour
<1>22. CASE JobReadsClock
  BY <1>22 DEF JobReadsClock, brokerVars, processVars
<1>23. CASE JobPins
  BY <1>23 DEF JobPins, brokerVars, processVars
<1>24. CASE UNCHANGED vars
  BY <1>24 DEF vars
<1> QED
  BY <1>1, <1>2, <1>3, <1>4, <1>5, <1>6, <1>8, <1>9, <1>10, <1>11, <1>12, <1>13,
     <1>14, <1>15, <1>16, <1>17, <1>18, <1>19, <1>20, <1>21, <1>22, <1>23, <1>24
     DEF Next

\* The indexer starts with well-typed variables.
LEMMA TypeInit == Init => TypeInv
  BY EmptyBatch DEF Init, TypeInv, OffsetOrNone, Hour

\* Every variable of the indexer has its type.
THEOREM TypeHolds == Spec => []TypeInv
  BY TypeInit, TypeStep, PTL DEF Spec

-------------------------------------------------------------------------------
(* The inductive invariant.  CommittedIsIndexed says nothing of events that *)
(* are read and not yet committed; ReachedIsKept does.                     *)

Offset == 0 .. MaxOffset - 1

\* The message needs no replay.
IsKept(m) == m \in Garbage \union Indexed \union refused

\* The indexer, or a commit of what it holds, has got past offset o of p.
Reached(p, o) ==
    \/ o < position[p]
    \/ o < committed[p]
    \/ \E i \in 1 .. Len(messages) : messages[i][1] = p /\ o <= messages[i][2]

ReachedAt(p, o) ==
    base[p] <= o /\ Reached(p, o) => IsKept(<<p, o>>) \/ <<p, o>> \in Batched

CommittedAt(p, o) == base[p] <= o /\ o < committed[p] => IsKept(<<p, o>>)

WithinLog ==
    /\ \A p \in Partitions :
          base[p] <= end[p] /\ committed[p] <= end[p] /\ position[p] <= end[p]
    /\ \A i \in 1 .. Len(messages) : messages[i][2] < end[messages[i][1]]

BatchIsKept == pc = "commit" => \A i \in 1 .. Len(messages) : IsKept(messages[i])

ReachedIsKept == Running => \A p \in Partitions, o \in Offset : ReachedAt(p, o)

IndexedInv ==
    /\ TypeInv
    /\ WithinLog
    /\ BatchIsKept
    /\ CommittedIsIndexed
    /\ ReachedIsKept

\* CommittedIsIndexed, offset by offset.
LEMMA CommittedPointwise ==
    ASSUME TypeInv
    PROVE  CommittedIsIndexed <=> \A p \in Partitions, o \in Offset : CommittedAt(p, o)
<1>1. \A p \in Partitions : committed[p] \in Int /\ committed[p] <= MaxOffset /\ base[p] \in Nat
  BY DEF TypeInv, OffsetOrNone, NoOffset
<1>2. \A p \in Partitions, o \in Int :
         o \in base[p] .. (committed[p] - 1)
             <=> o \in Offset /\ base[p] <= o /\ o < committed[p]
  BY <1>1 DEF Offset
<1>3. \A p \in Partitions : base[p] .. (committed[p] - 1) \subseteq Int
  OBVIOUS
<1> QED
  BY <1>2, <1>3 DEF CommittedIsIndexed, CommittedAt, IsKept, Offset

\* The same after a step.
LEMMA CommittedPointwiseNext ==
    ASSUME TypeInv', \A p \in Partitions, o \in Offset : CommittedAt(p, o)'
    PROVE  CommittedIsIndexed'
<1>1. \A p \in Partitions : committed'[p] \in Int /\ committed'[p] <= MaxOffset /\ base'[p] \in Nat
  BY DEF TypeInv, OffsetOrNone, NoOffset
<1>2. \A p \in Partitions : \A o \in base'[p] .. (committed'[p] - 1) :
         o \in Offset /\ base'[p] <= o /\ o < committed'[p]
  BY <1>1 DEF Offset
<1> QED
  BY <1>2 DEF CommittedIsIndexed, CommittedAt, IsKept

KeptStays == \A m \in Message : IsKept(m) => IsKept(m)'

\* Nothing leaves the indices, and what is written is in one of them.
LEMMA IndexedStays ==
    ASSUME TypeInv, NEW S \in SUBSET Message, IndexDocs(S)
    PROVE  Indexed' = Indexed \union S
<1>1. /\ writeIndex \in Hour
      /\ docs'[writeIndex] = docs[writeIndex] \union S
      /\ \A h \in Hour \ {writeIndex} : docs'[h] = docs[h]
  BY IndexKeeps DEF TypeInv
<1>2. \A m : (\E h \in Hour : m \in docs'[h]) <=> (\E h \in Hour : m \in docs[h]) \/ m \in S
  BY <1>1, Zenon
<1>3. \A m : (m \in Indexed <=> \E h \in Hour : m \in docs[h])
             /\ (m \in Indexed' <=> \E h \in Hour : m \in docs'[h])
  BY DEF Indexed
<1> QED
  BY <1>2, <1>3

\* No step takes a message out of the indices, nor out of the refused ones.
LEMMA StepKeeps ==
    ASSUME TypeInv, [Next]_vars
    PROVE  KeptStays
<1>1. ASSUME Indexed \subseteq Indexed', refused \subseteq refused'
      PROVE  KeptStays
  BY <1>1 DEF KeptStays, IsKept
<1>2. ASSUME UNCHANGED <<docs, refused>> PROVE KeptStays
  BY <1>1, <1>2 DEF Indexed
<1>3. CASE Bulk
  <2>1. Indexed' = Indexed \union BatchDocs
    BY <1>3, BatchOfMessages, IndexedStays DEF Bulk
  <2> QED
    BY <1>1, <1>3, <2>1 DEF Bulk
<1>4. CASE BulkRefuses
  <2>1. PICK R \in SUBSET BatchDocs \ {{}} :
            IndexDocs(BatchDocs \ R) /\ refused' = refused \union R
    BY <1>4 DEF BulkRefuses
  <2>2. Indexed' = Indexed \union (BatchDocs \ R)
    BY <2>1, BatchOfMessages, IndexedStays
  <2> QED
    BY <1>1, <2>1, <2>2
<1>5. CASE BulkRaises
  <2>1. PICK S \in SUBSET BatchDocs : IndexDocs(S)
    BY <1>5 DEF BulkRaises
  <2>2. Indexed' = Indexed \union S
    BY <2>1, BatchOfMessages, IndexedStays
  <2> QED
    BY <1>1, <1>5, <2>2 DEF BulkRaises
<1>6. ASSUME NEW p \in Partitions, Publish(p) \/ Poll(p) PROVE UNCHANGED <<docs, refused>>
  BY <1>6 DEF Publish, Poll, clusterVars
<1>7. CASE Start \/ PollNothing \/ Tick \/ BuildDocs \/ EnrichFails \/ RequestFails
  BY <1>2, <1>7 DEF Start, PollNothing, Tick, BuildDocs, EnrichFails, RequestFails, clusterVars
<1>8. CASE CommitNext \/ CommitRaises \/ FlushDone \/ RequestStop \/ LeaveLoop \/ Crash \/ Rebalance
  BY <1>2, <1>8
     DEF CommitNext, CommitRaises, FlushDone, RequestStop, LeaveLoop, Crash, Rebalance, clusterVars
<1>9. CASE Pin \/ HourPasses \/ JobReadsClock \/ JobPins \/ UNCHANGED vars
  BY <1>2, <1>9 DEF Pin, HourPasses, JobReadsClock, JobPins, vars
<1> QED
  BY <1>2, <1>3, <1>4, <1>5, <1>6, <1>7, <1>8, <1>9 DEF Next

-------------------------------------------------------------------------------
(* Each kind of step keeps the invariant.                                  *)

\* Steps that move no offset and keep the batch.
LEMMA QuietStep ==
    ASSUME IndexedInv, TypeInv', KeptStays,
           UNCHANGED <<end, committed, base, position, messages>>,
           Running' => Running,
           pc' = "commit" => pc = "commit" \/ \A i \in 1 .. Len(messages) : IsKept(messages[i])'
    PROVE  IndexedInv'
<1> USE DEF IndexedInv
<1>1. \A i \in 1 .. Len(messages) : messages[i] \in Message
  BY DEF TypeInv
<1>2. BatchIsKept'
  BY <1>1 DEF BatchIsKept, KeptStays
<1>3. WithinLog'
  BY DEF WithinLog
<1>4. \A p \in Partitions, o \in Offset : <<p, o>> \in Message
  BY DEF Message, Offset
<1>5. CommittedIsIndexed'
  BY <1>4, CommittedPointwise, CommittedPointwiseNext DEF CommittedAt, KeptStays
<1>6. ReachedIsKept'
  BY <1>4 DEF ReachedIsKept, ReachedAt, Reached, KeptStays, Batched
<1> QED
  BY <1>2, <1>3, <1>5, <1>6

\* Steps that end the process, which loses its batch.
LEMMA EndingStep ==
    ASSUME IndexedInv, TypeInv', KeptStays, ~Running', messages' = <<>>,
           UNCHANGED <<end, committed, base, position>>
    PROVE  IndexedInv'
<1> USE DEF IndexedInv
<1>1. BatchIsKept' /\ ReachedIsKept'
  BY EmptyBatch DEF BatchIsKept, ReachedIsKept, Running
<1>2. WithinLog'
  BY EmptyBatch DEF WithinLog
<1>3. \A p \in Partitions, o \in Offset : <<p, o>> \in Message
  BY DEF Message, Offset
<1>4. CommittedIsIndexed'
  BY <1>3, CommittedPointwise, CommittedPointwiseNext DEF CommittedAt, KeptStays
<1> QED
  BY <1>1, <1>2, <1>4

\* A flush that raised keeps the batch, or ends the process.
LEMMA AbandonStep ==
    ASSUME IndexedInv, TypeInv', KeptStays, AbandonFlush, Running,
           UNCHANGED <<end, committed, base, position>>
    PROVE  IndexedInv'
<1>1. CASE final
  BY <1>1, EndingStep DEF AbandonFlush, Running
<1>2. CASE ~final
  BY <1>2, QuietStep DEF AbandonFlush, Running
<1> QED
  BY <1>1, <1>2

\* A longer log changes nothing of what is read.
LEMMA PublishStep ==
    ASSUME IndexedInv, TypeInv', KeptStays, NEW p \in Partitions, Publish(p)
    PROVE  IndexedInv'
<1> USE DEF IndexedInv
<1>1. /\ UNCHANGED <<committed, base, position, messages, pc, docs, refused>>
      /\ \A q \in Partitions : end[q] <= end'[q] /\ end'[q] \in Int /\ end[q] \in Int
  BY DEF Publish, Replace, processVars, clusterVars, TypeInv
<1>2. WithinLog'
  <2>1. \A q \in Partitions :
           base[q] <= end'[q] /\ committed[q] <= end'[q] /\ position[q] <= end'[q]
    <3>1. \A q \in Partitions : base[q] \in Int /\ committed[q] \in Int /\ position[q] \in Int
      BY SMTT(30) DEF TypeInv, OffsetOrNone, NoOffset
    <3> QED
      BY <1>1, <3>1 DEF WithinLog
  <2>2. \A i \in 1 .. Len(messages) : messages[i][2] < end'[messages[i][1]]
    <3>1. \A i \in 1 .. Len(messages) : messages[i] \in Message
      BY DEF TypeInv
    <3>2. \A i \in 1 .. Len(messages) :
             messages[i][1] \in Partitions /\ messages[i][2] \in Int
      BY <3>1 DEF Message
    <3> QED
      BY <1>1, <3>2 DEF WithinLog
  <2> QED
    BY <1>1, <2>1, <2>2 DEF WithinLog
<1>3. BatchIsKept' /\ CommittedIsIndexed'
  BY <1>1 DEF BatchIsKept, CommittedIsIndexed, IsKept, Indexed
<1>4. ReachedIsKept'
  BY <1>1 DEF ReachedIsKept, ReachedAt, Reached, IsKept, Indexed, Batched, Running
<1> QED
  BY <1>2, <1>3, <1>4

\* A message that is read joins the batch.
LEMMA PollStep ==
    ASSUME IndexedInv, TypeInv', NEW p \in Partitions, Poll(p)
    PROVE  IndexedInv'
<1> USE DEF IndexedInv
<1> DEFINE n == Len(messages)
           new == <<p, position[p]>>
<1>1. /\ position' = [position EXCEPT ![p] = position[p] + 1]
      /\ UNCHANGED <<end, committed, base, docs, refused>>
      /\ pc' \in {"poll", "build"} /\ Running
      /\ position[p] < end[p]
  BY DEF Poll, Replace, brokerVars, clusterVars, Running
<1>2. /\ n \in Nat /\ Len(messages') = n + 1
      /\ \A i \in 1 .. n : messages'[i] = messages[i]
      /\ messages'[n + 1] = new
      /\ new \in Message
  <2>1. new \in Message
    BY <1>1 DEF TypeInv, Message
  <2> QED
    BY <2>1 DEF Poll, TypeInv
<1>3. WithinLog'
  <2>1. \A q \in Partitions : position'[q] <= end[q]
    BY <1>1 DEF TypeInv, WithinLog
  <2>2. \A i \in 1 .. Len(messages') : messages'[i][2] < end[messages'[i][1]]
    BY <1>1, <1>2 DEF WithinLog
  <2> QED
    BY <1>1, <2>1, <2>2 DEF WithinLog
<1>4. BatchIsKept' /\ CommittedIsIndexed'
  BY <1>1 DEF BatchIsKept, CommittedIsIndexed, Indexed
<1>5. ASSUME NEW q \in Partitions, NEW o \in Offset, base[q] <= o, Reached(q, o)'
      PROVE  IsKept(<<q, o>>) \/ <<q, o>> \in Batched'
  <2>1. Batched' = Batched \union {new}
    BY <1>2 DEF Batched
  <2>2. CASE Reached(q, o)
    BY <1>1, <1>5, <2>1, <2>2 DEF ReachedIsKept, ReachedAt
  <2>3. CASE ~Reached(q, o)
    <3>1. q = p /\ o = position[p]
      <4>1. o < position'[q] \/ (q = p /\ o <= position[p])
        BY <1>1, <1>2, <1>5, <2>3 DEF Reached
      <4> QED
        BY <1>1, <2>3, <4>1 DEF Reached, Offset, TypeInv
    <3> QED
      BY <2>1, <3>1
  <2> QED
    BY <2>2, <2>3
<1>6. ReachedIsKept'
  BY <1>1, <1>5 DEF ReachedIsKept, ReachedAt, IsKept, Indexed
<1> QED
  BY <1>3, <1>4, <1>6

\* Entering the partitions: where the group never committed it begins at the
\* log end, with nothing read; elsewhere the committed offset covers what is
\* read.
LEMMA AssignStep ==
    ASSUME IndexedInv, TypeInv', Assign, pc' = "poll",
           UNCHANGED <<end, committed, docs, refused>>,
           \/ messages' = <<>>
           \/ Running /\ messages' = messages
    PROVE  IndexedInv'
<1> USE DEF IndexedInv
<1>1. \A p \in Partitions :
         /\ committed[p] = NoOffset => position'[p] = end[p] /\ base'[p] = end[p]
         /\ committed[p] # NoOffset => position'[p] = committed[p] /\ base'[p] = base[p]
  BY DEF Assign, StartLatest
<1>2. \A p \in Partitions :
         /\ end[p] \in Int /\ base[p] \in Int /\ position[p] \in Int /\ committed[p] \in Int
         /\ committed[p] # NoOffset => 0 <= committed[p]
         /\ committed[p] <= end[p] /\ base[p] <= end[p]
  BY DEF TypeInv, OffsetOrNone, NoOffset, WithinLog
<1>3. \A i \in 1 .. Len(messages') :
         /\ i \in 1 .. Len(messages) /\ messages' = messages /\ Running
         /\ messages'[i][2] < end[messages'[i][1]]
         /\ messages'[i][2] \in Int
  <2>1. CASE messages' = <<>>
    BY <2>1, EmptyBatch
  <2>2. CASE Running /\ messages' = messages
    <3>1. \A i \in 1 .. Len(messages) : messages[i] \in Message
      BY DEF TypeInv
    <3>2. \A i \in 1 .. Len(messages) : messages[i][2] \in Int
      BY <3>1 DEF Message
    <3> QED
      BY <2>2, <3>2 DEF WithinLog
  <2> QED
    BY <2>1, <2>2
<1>4. WithinLog'
  BY <1>1, <1>2, <1>3 DEF WithinLog
<1>5. BatchIsKept'
  BY DEF BatchIsKept
<1>6. \A m : IsKept(m)' <=> IsKept(m)
  BY DEF IsKept, Indexed
<1>7. ASSUME NEW p \in Partitions, NEW o \in Offset, base'[p] <= o, Reached(p, o)'
      PROVE  /\ base[p] <= o
             /\ o < committed[p] \/ (Running /\ messages' = messages /\ Reached(p, o))
  <2>1. o \in Int /\ 0 <= o
    BY DEF Offset
  <2>2. CASE committed[p] = NoOffset
    <3>1. ~(o < position'[p]) /\ ~(o < committed'[p])
      BY <1>1, <1>2, <1>7, <2>1, <2>2 DEF NoOffset
    <3>2. PICK i \in 1 .. Len(messages') : messages'[i][1] = p /\ o <= messages'[i][2]
      BY <1>7, <3>1 DEF Reached
    <3>3. messages'[i][2] < end[p] /\ end[p] <= o
      BY <1>1, <1>3, <1>7, <2>2, <3>2
    <3> QED
      BY <1>2, <1>3, <2>1, <3>2, <3>3
  <2>3. CASE committed[p] # NoOffset
    BY <1>1, <1>3, <1>7, <2>3 DEF Reached
  <2> QED
    BY <2>2, <2>3
<1>8. ASSUME NEW p \in Partitions, NEW o \in Offset, base[p] <= o, o < committed[p]
      PROVE  IsKept(<<p, o>>)
  BY <1>8, CommittedPointwise DEF CommittedAt
<1>9. ReachedIsKept'
  <2> SUFFICES ASSUME NEW p \in Partitions, NEW o \in Offset, base'[p] <= o, Reached(p, o)'
               PROVE  IsKept(<<p, o>>)' \/ <<p, o>> \in Batched'
    BY DEF ReachedIsKept, ReachedAt
  <2>1. CASE o < committed[p]
    BY <1>6, <1>7, <1>8, <2>1
  <2>2. CASE Running /\ messages' = messages /\ Reached(p, o)
    BY <1>6, <1>7, <2>2 DEF ReachedIsKept, ReachedAt, Batched
  <2> QED
    BY <1>7, <2>1, <2>2
<1>10. CommittedIsIndexed'
  <2> SUFFICES ASSUME NEW p \in Partitions, NEW o \in Offset, base'[p] <= o, o < committed'[p]
               PROVE  IsKept(<<p, o>>)'
    BY CommittedPointwiseNext DEF CommittedAt
  <2>1. Reached(p, o)'
    BY DEF Reached
  <2> QED
    BY <1>6, <1>7, <1>8, <2>1
<1> QED
  BY <1>4, <1>5, <1>9, <1>10

\* A committed message lies in a batch that is kept, and so does whatever the
\* batch had read before it.
LEMMA CommitNextStep ==
    ASSUME IndexedInv, TypeInv', CommitNext
    PROVE  IndexedInv'
<1> USE DEF IndexedInv
<1> DEFINE m == NextToCommit
<1>1. /\ m \in Message /\ m[1] \in Partitions /\ m[2] \in Offset
      /\ m = messages[acked + 1] /\ acked + 1 \in 1 .. Len(messages)
      /\ OffsetAfter(m) = m[2] + 1
  BY NextToCommitType DEF CommitNext, TypeInv, NextToCommit, Offset
<1>2. /\ UNCHANGED <<end, base, position, messages, pc, docs, refused>>
      /\ pc = "commit" /\ Running
      /\ committed' = committed \/ committed' = [committed EXCEPT ![m[1]] = m[2] + 1]
  BY <1>1 DEF CommitNext, Running, clusterVars, Replace
<1>3. \A p \in Partitions :
         \/ committed'[p] = committed[p]
         \/ p = m[1] /\ committed'[p] = m[2] + 1
  BY <1>2 DEF TypeInv
<1>4. WithinLog'
  <2>1. m[2] < end[m[1]] /\ m[2] \in Int /\ end[m[1]] \in Int
    BY <1>1 DEF WithinLog, TypeInv, Offset
  <2>2. \A p \in Partitions : committed'[p] <= end[p]
    BY <1>3, <2>1 DEF WithinLog
  <2> QED
    BY <1>2, <2>2 DEF WithinLog
<1>5. BatchIsKept'
  BY <1>2 DEF BatchIsKept, IsKept, Indexed
<1>6. ASSUME NEW x, x \in Batched PROVE IsKept(x)
  BY <1>2, <1>6 DEF BatchIsKept, Batched
<1>7. ASSUME NEW p \in Partitions, NEW o \in Offset, Reached(p, o)'
      PROVE  Reached(p, o)
  BY <1>1, <1>2, <1>3, <1>7 DEF Reached, Offset
<1>8. ASSUME NEW p \in Partitions, NEW o \in Offset, base[p] <= o, Reached(p, o)
      PROVE  IsKept(<<p, o>>)
  BY <1>2, <1>6, <1>8 DEF ReachedIsKept, ReachedAt
<1>9. \A x : IsKept(x)' <=> IsKept(x)
  BY <1>2 DEF IsKept, Indexed
<1>10. ReachedIsKept'
  BY <1>2, <1>7, <1>8, <1>9 DEF ReachedIsKept, ReachedAt
<1>11. CommittedIsIndexed'
  <2> SUFFICES ASSUME NEW p \in Partitions, NEW o \in Offset, base'[p] <= o, o < committed'[p]
               PROVE  IsKept(<<p, o>>)'
    BY CommittedPointwiseNext DEF CommittedAt
  <2>1. Reached(p, o)'
    BY DEF Reached
  <2> QED
    BY <1>2, <1>7, <1>8, <1>9, <2>1
<1> QED
  BY <1>4, <1>5, <1>10, <1>11

\* The batch is dropped once it is kept.
LEMMA FlushDoneStep ==
    ASSUME IndexedInv, TypeInv', FlushDone
    PROVE  IndexedInv'
<1> USE DEF IndexedInv
<1>1. /\ UNCHANGED <<end, base, committed, position, docs, refused>>
      /\ messages' = <<>> /\ pc = "commit" /\ Running /\ pc' # "commit"
  BY DEF FlushDone, Running, brokerVars, clusterVars
<1>2. WithinLog' /\ BatchIsKept'
  BY <1>1, EmptyBatch DEF WithinLog, BatchIsKept
<1>3. CommittedIsIndexed'
  BY <1>1 DEF CommittedIsIndexed, Indexed
<1>4. ASSUME NEW p \in Partitions, NEW o \in Offset, base[p] <= o, Reached(p, o)'
      PROVE  IsKept(<<p, o>>)
  <2>1. Reached(p, o)
    BY <1>1, <1>4, EmptyBatch DEF Reached
  <2>2. IsKept(<<p, o>>) \/ <<p, o>> \in Batched
    BY <1>1, <1>4, <2>1 DEF ReachedIsKept, ReachedAt
  <2> QED
    BY <1>1, <2>2 DEF BatchIsKept, Batched
<1>5. ReachedIsKept'
  BY <1>1, <1>4 DEF ReachedIsKept, ReachedAt, IsKept, Indexed
<1> QED
  BY <1>2, <1>3, <1>5

\* What a bulk request stores or has refused is all of the batch.
LEMMA BulkKeeps ==
    ASSUME TypeInv, Bulk \/ BulkRefuses
    PROVE  \A i \in 1 .. Len(messages) : IsKept(messages[i])'
<1>1. BatchDocs \subseteq Indexed' \union refused'
  <2>1. CASE Bulk
    BY <2>1, BatchOfMessages, IndexedStays DEF Bulk
  <2>2. CASE BulkRefuses
    <3>1. PICK R \in SUBSET BatchDocs \ {{}} :
              IndexDocs(BatchDocs \ R) /\ refused' = refused \union R
      BY <2>2 DEF BulkRefuses
    <3>2. Indexed' = Indexed \union (BatchDocs \ R)
      BY <3>1, BatchOfMessages, IndexedStays
    <3> QED
      BY <3>1, <3>2
  <2> QED
    BY <2>1, <2>2
<1>2. messages' = messages
  BY DEF Bulk, BulkRefuses
<1>3. \A i \in 1 .. Len(messages) : messages[i] \in BatchDocs \union Garbage
  BY DEF BatchDocs, Batched
<1> QED
  BY <1>1, <1>2, <1>3 DEF IsKept

\* Every step keeps the invariant.
LEMMA IndexedStep == IndexedInv /\ [Next]_vars => IndexedInv'
<1> SUFFICES ASSUME IndexedInv, [Next]_vars PROVE IndexedInv'
  OBVIOUS
<1>1. TypeInv' /\ KeptStays
  BY TypeStep, StepKeeps DEF IndexedInv
<1>2. ASSUME NEW p \in Partitions, Publish(p) \/ Poll(p) PROVE IndexedInv'
  BY <1>1, <1>2, PublishStep, PollStep
<1>3. CASE Start
  BY <1>1, <1>3, AssignStep DEF Start, clusterVars
<1>4. CASE Rebalance
  BY <1>1, <1>4, AssignStep DEF Rebalance, clusterVars, Running
<1>5. CASE BuildDocs
  <2>1. messages' = messages
    BY <1>5 DEF BuildDocs
  <2>2. BatchDocs = {} => \A i \in 1 .. Len(messages) : messages[i] \in Garbage
    BY DEF BatchDocs, Batched
  <2>3. BatchDocs = {} => \A i \in 1 .. Len(messages) : IsKept(messages[i])'
    BY <2>1, <2>2 DEF IsKept
  <2> QED
    BY <1>1, <1>5, <2>1, <2>3, QuietStep DEF BuildDocs, Running, brokerVars
<1>6. CASE Bulk \/ BulkRefuses
  <2>1. /\ UNCHANGED <<end, committed, base, position, messages>> /\ Running
        /\ \A i \in 1 .. Len(messages) : IsKept(messages[i])'
    BY <1>6, BulkKeeps DEF Bulk, BulkRefuses, Running, brokerVars, IndexedInv
  <2> QED
    BY <1>1, <2>1, QuietStep
<1>7. CASE EnrichFails \/ RequestFails
  BY <1>1, <1>7, AbandonStep DEF EnrichFails, RequestFails, Running, brokerVars
<1>8. CASE BulkRaises \/ CommitRaises
  BY <1>1, <1>8, AbandonStep DEF BulkRaises, CommitRaises, Running, brokerVars
<1>9. CASE CommitNext
  BY <1>1, <1>9, CommitNextStep
<1>10. CASE FlushDone
  BY <1>1, <1>10, FlushDoneStep
<1>11. CASE Crash
  BY <1>1, <1>11, EndingStep DEF Crash, Running, brokerVars
<1>12. CASE PollNothing \/ Tick \/ RequestStop \/ Pin
  BY <1>1, <1>12, QuietStep
     DEF PollNothing, Tick, RequestStop, Pin, Running, brokerVars
<1>13. CASE LeaveLoop
  BY <1>1, <1>13, QuietStep DEF LeaveLoop, Running, brokerVars
<1>14. CASE HourPasses \/ JobReadsClock \/ JobPins
  BY <1>1, <1>14, QuietStep
     DEF HourPasses, JobReadsClock, JobPins, Running, brokerVars, processVars
<1>15. CASE UNCHANGED vars
  BY <1>1, <1>15, QuietStep DEF vars, Running
<1> QED
  BY <1>2, <1>3, <1>4, <1>5, <1>6, <1>7, <1>8, <1>9, <1>10, <1>11, <1>12, <1>13,
     <1>14, <1>15 DEF Next

\* The indexer starts with nothing read and nothing committed.
LEMMA IndexedInit == Init => IndexedInv
<1> SUFFICES ASSUME Init PROVE IndexedInv
  OBVIOUS
<1>1. WithinLog
  BY EmptyBatch DEF Init, WithinLog, NoOffset
<1>2. BatchIsKept /\ ReachedIsKept
  BY DEF Init, BatchIsKept, ReachedIsKept, Running
<1>3. CommittedIsIndexed
  BY DEF Init, CommittedIsIndexed, NoOffset
<1> QED
  BY <1>1, <1>2, <1>3, TypeInit DEF IndexedInv

\* The invariant holds in every reachable state.
LEMMA IndexedInvHolds == Spec => []IndexedInv
  BY IndexedInit, IndexedStep, PTL DEF Spec

\* Replay reaches every event the indices lack: whatever precedes a committed
\* offset, since the group entered the partition, is indexed or was refused,
\* through any number of crashes, rebalances, lost commits, broken requests and
\* moves of the write alias (services/indexer.py:3-6).
THEOREM CommittedIsIndexedHolds == Spec => []CommittedIsIndexed
<1>1. IndexedInv => CommittedIsIndexed
  BY DEF IndexedInv
<1> QED
  BY <1>1, IndexedInvHolds, PTL

-------------------------------------------------------------------------------
(* The indexer implements the sink.                                        *)

Stored == Indexed \union refused

\* What a request stores or has refused is of the batch, which is published and
\* decodes.
LEMMA StoreIsSinkStep ==
    ASSUME IndexedInv, NEW S \in SUBSET BatchDocs, Stored' = Stored \union S,
           UNCHANGED <<end, base, committed>>
    PROVE  Sink!Next
<1>1. S \in SUBSET Sink!Message
  BY BatchOfMessages DEF IndexedInv, Sink!Message, Message
<1>2. \A m \in S : m[2] < end[m[1]] /\ m \notin Garbage
  BY DEF IndexedInv, WithinLog, BatchDocs, Batched
<1> QED
  BY <1>1, <1>2 DEF Sink!Next, Sink!Store, Stored

\* A bulk request stores documents of the batch, whatever becomes of it.
LEMMA BulkIsSinkStep ==
    ASSUME IndexedInv, Bulk \/ BulkRefuses \/ BulkRaises
    PROVE  Sink!Next
<1> USE DEF Stored
<1>1. UNCHANGED <<end, base, committed>>
  BY DEF Bulk, BulkRefuses, BulkRaises, brokerVars
<1>2. CASE Bulk
  <2>1. Indexed' = Indexed \union BatchDocs /\ refused' = refused
    BY <1>2, BatchOfMessages, IndexedStays DEF Bulk, IndexedInv
  <2> QED
    BY <1>1, <2>1, StoreIsSinkStep
<1>3. CASE BulkRefuses
  <2>1. PICK R \in SUBSET BatchDocs \ {{}} :
            IndexDocs(BatchDocs \ R) /\ refused' = refused \union R
    BY <1>3 DEF BulkRefuses
  <2>2. Indexed' = Indexed \union (BatchDocs \ R)
    BY <2>1, BatchOfMessages, IndexedStays DEF IndexedInv
  <2>3. Stored' = Stored \union BatchDocs
    BY <2>1, <2>2
  <2> QED
    BY <1>1, <2>3, StoreIsSinkStep
<1>4. CASE BulkRaises
  <2>1. PICK S \in SUBSET BatchDocs : IndexDocs(S)
    BY <1>4 DEF BulkRaises
  <2>2. Indexed' = Indexed \union S /\ refused' = refused
    BY <1>4, <2>1, BatchOfMessages, IndexedStays DEF BulkRaises, IndexedInv
  <2> QED
    BY <1>1, <2>2, StoreIsSinkStep
<1> QED
  BY <1>2, <1>3, <1>4

\* A commit that reaches the broker covers kept messages only.
LEMMA CommitIsSinkStep ==
    ASSUME IndexedInv, IndexedInv', CommitNext
    PROVE  Sink!Next \/ UNCHANGED <<end, base, committed, Stored>>
<1> USE DEF Stored
<1> DEFINE m == NextToCommit
           p == m[1]
           c == m[2] + 1
<1>1. /\ UNCHANGED <<end, base, docs, refused>>
      /\ committed' = committed \/ committed' = Replace(committed, p, OffsetAfter(m))
  BY DEF CommitNext, clusterVars
<1>2. Stored' = Stored
  BY <1>1 DEF Indexed
<1>3. /\ p \in Partitions /\ m[2] \in 0 .. MaxOffset - 1 /\ OffsetAfter(m) = c
      /\ c \in 1 .. MaxOffset
  BY NextToCommitType DEF CommitNext, IndexedInv
<1>4. CASE committed' = committed
  BY <1>1, <1>2, <1>4
<1>5. CASE committed' = Replace(committed, p, c)
  <2>1. committed'[p] = c
    BY <1>3, <1>5 DEF Replace, IndexedInv, TypeInv
  <2>2. c <= end[p]
    BY <1>1, <1>3, <2>1 DEF IndexedInv, WithinLog
  <2>3. Sink!Covered(p, c)
    <3> SUFFICES ASSUME NEW o \in base[p] .. (c - 1)
                 PROVE  <<p, o>> \in Stored \union Garbage
      BY DEF Sink!Covered
    <3> QED
      BY <1>1, <1>2, <1>3, <2>1 DEF IndexedInv, CommittedIsIndexed
  <2> QED
    BY <1>1, <1>2, <1>3, <1>5, <2>2, <2>3
       DEF Sink!Next, Sink!Commit, Replace, Sink!Replace
<1> QED
  BY <1>1, <1>3, <1>4, <1>5

\* A step of the indexer is one of the sink, or changes nothing the sink sees.
LEMMA StepIsSinkStep ==
    ASSUME IndexedInv, IndexedInv', [Next]_vars
    PROVE  Sink!Next \/ UNCHANGED <<end, base, committed, Stored>>
<1>q. ASSUME UNCHANGED <<end, base, committed, docs, refused>>
      PROVE  UNCHANGED <<end, base, committed, Stored>>
  BY <1>q DEF Stored, Indexed
<1>1. ASSUME NEW p \in Partitions, Publish(p) PROVE Sink!Next
  <2>1. /\ end[p] < MaxOffset /\ end' = Replace(end, p, end[p] + 1)
        /\ UNCHANGED <<base, committed, Stored>>
    BY <1>1 DEF Publish, Stored, Indexed, clusterVars
  <2> QED
    BY <2>1 DEF Sink!Next, Sink!Publish, Stored, Replace, Sink!Replace
<1>2. ASSUME Assign, UNCHANGED <<end, committed, docs, refused>> PROVE Sink!Next
  <2>1. base' = [p \in Partitions |-> IF committed[p] = NoOffset THEN end[p] ELSE base[p]]
        /\ Stored' = Stored
    BY <1>2 DEF Assign, Stored, Indexed
  <2> QED
    BY <1>2, <2>1 DEF Sink!Next, Sink!Enter, Stored, NoOffset, Sink!NoOffset
<1>3. CASE Start \/ Rebalance
  BY <1>2, <1>3 DEF Start, Rebalance, clusterVars
<1>4. CASE Bulk \/ BulkRefuses \/ BulkRaises
  BY <1>4, BulkIsSinkStep
<1>5. CASE CommitNext
  BY <1>5, CommitIsSinkStep
<1>6. ASSUME NEW p \in Partitions, Poll(p)
      PROVE  UNCHANGED <<end, base, committed, Stored>>
  BY <1>q, <1>6 DEF Poll, brokerVars, clusterVars
<1>7. CASE PollNothing \/ Tick \/ RequestStop \/ LeaveLoop \/ BuildDocs \/ EnrichFails
  BY <1>q, <1>7
     DEF PollNothing, Tick, RequestStop, LeaveLoop, BuildDocs, EnrichFails,
         brokerVars, clusterVars
<1>8. CASE RequestFails \/ Pin \/ CommitRaises \/ FlushDone \/ Crash
  BY <1>q, <1>8
     DEF RequestFails, Pin, CommitRaises, FlushDone, Crash, brokerVars, clusterVars
<1>9. CASE HourPasses \/ JobReadsClock \/ JobPins \/ UNCHANGED vars
  BY <1>q, <1>9 DEF HourPasses, JobReadsClock, JobPins, vars, brokerVars
<1> QED
  BY <1>1, <1>3, <1>4, <1>5, <1>6, <1>7, <1>8, <1>9 DEF Next

\* Every behaviour of the indexer is one of the at-least-once sink, without the
\* garbage exception: a committed offset moves past indexed or refused events
\* only (README.md:89-100).
THEOREM IndexerImplementsSink == Spec => ImplementsSink
<1>1. Init => Sink!Init
  BY DEF Init, Indexed, Sink!Init, NoOffset, Sink!NoOffset
<1>2. IndexedInv /\ IndexedInv' /\ [Next]_vars => [Sink!Next]_(Sink!sinkVars)
  BY StepIsSinkStep DEF Sink!sinkVars, Stored
<1> QED
  BY <1>1, <1>2, IndexedInvHolds, PTL DEF Spec, ImplementsSink, Sink!Spec

-------------------------------------------------------------------------------
(* Without a fault.                                                         *)

\* Messages of the batch the commit loop has still before it.
Pending == acked + 1 .. Len(messages)

\* A batch is read in order and not yet indexed; what is indexed is committed,
\* or about to be.
BatchOrdered ==
    /\ \A p \in Partitions : Running => committed[p] <= position[p]
    /\ \A i \in 1 .. Len(messages) : messages[i][2] < position[messages[i][1]]
    /\ \A i \in Pending : committed[messages[i][1]] <= messages[i][2]
    /\ \A i, j \in 1 .. Len(messages) :
          i < j /\ messages[i][1] = messages[j][1] => messages[i][2] < messages[j][2]

IndexedIsCommitted ==
    \A m \in Indexed :
        \/ m[2] < committed[m[1]]
        \/ pc = "commit" /\ \E i \in Pending : messages[i] = m

CopyInv ==
    faults = 0 => BatchOrdered /\ IndexedIsCommitted /\ OneCopyWithoutFaults

\* Steps that move no offset and keep the batch, the indices and the progress
\* of the commits.
LEMMA CopyQuiet ==
    ASSUME BatchOrdered, IndexedIsCommitted, OneCopyWithoutFaults, faults = 0,
           UNCHANGED <<committed, position, messages, acked, docs>>,
           Running' => Running, pc = "commit" => pc' = "commit"
    PROVE  BatchOrdered' /\ IndexedIsCommitted' /\ OneCopyWithoutFaults'
<1>1. BatchOrdered'
  BY DEF BatchOrdered, Pending
<1>2. IndexedIsCommitted'
  BY DEF IndexedIsCommitted, Indexed, Pending
<1>3. OneCopyWithoutFaults'
  BY DEF OneCopyWithoutFaults
<1> QED
  BY <1>1, <1>2, <1>3

\* A process that ends outside the commit loop leaves only committed documents.
LEMMA CopyEnding ==
    ASSUME BatchOrdered, IndexedIsCommitted, OneCopyWithoutFaults, faults = 0,
           UNCHANGED <<committed, position, docs>>,
           messages' = <<>>, acked' = 0, ~Running', pc # "commit"
    PROVE  BatchOrdered' /\ IndexedIsCommitted' /\ OneCopyWithoutFaults'
<1>1. BatchOrdered'
  BY EmptyBatch DEF BatchOrdered, Pending
<1>2. IndexedIsCommitted'
  BY DEF IndexedIsCommitted, Indexed
<1>3. OneCopyWithoutFaults'
  BY DEF OneCopyWithoutFaults
<1> QED
  BY <1>1, <1>2, <1>3

\* A process that starts reads from the committed offset.
LEMMA CopyStart ==
    ASSUME TypeInv, BatchOrdered, IndexedIsCommitted, OneCopyWithoutFaults,
           faults = 0, Start
    PROVE  BatchOrdered' /\ IndexedIsCommitted' /\ OneCopyWithoutFaults'
<1>1. \A p \in Partitions : committed'[p] <= position'[p]
  BY DEF Start, Assign, StartLatest, TypeInv, OffsetOrNone, NoOffset
<1>2. messages' = <<>> /\ acked' = 0 /\ UNCHANGED <<committed, docs>> /\ pc # "commit"
  BY DEF Start, Running, clusterVars
<1>3. Pending' = {}
  BY <1>2, EmptyBatch DEF Pending
<1>4. BatchOrdered'
  BY <1>1, <1>2, <1>3, EmptyBatch DEF BatchOrdered
<1>5. IndexedIsCommitted' /\ OneCopyWithoutFaults'
  BY <1>2 DEF IndexedIsCommitted, OneCopyWithoutFaults, Indexed
<1> QED
  BY <1>4, <1>5

\* A message that is read follows what the batch holds of its partition.
LEMMA CopyPoll ==
    ASSUME TypeInv, BatchOrdered, IndexedIsCommitted, OneCopyWithoutFaults,
           faults = 0, NEW p \in Partitions, Poll(p)
    PROVE  BatchOrdered' /\ IndexedIsCommitted' /\ OneCopyWithoutFaults'
<1> DEFINE n == Len(messages)
           new == <<p, position[p]>>
<1>1. /\ position' = [position EXCEPT ![p] = position[p] + 1]
      /\ UNCHANGED <<committed, acked, docs>>
      /\ acked = 0 /\ Running /\ pc = "poll"
  BY DEF Poll, Replace, brokerVars, clusterVars, Running, TypeInv
<1>2. /\ n \in Nat /\ Len(messages') = n + 1
      /\ \A i \in 1 .. n : messages'[i] = messages[i] /\ messages[i] \in Message
      /\ messages'[n + 1] = new
      /\ new \in Message
  <2>1. new \in Message
    BY DEF Poll, TypeInv, Message
  <2> QED
    BY <2>1 DEF Poll, TypeInv
<1>3. /\ \A q \in Partitions :
            /\ position[q] \in Int /\ committed[q] \in Int
            /\ position'[q] = IF q = p THEN position[p] + 1 ELSE position[q]
      /\ \A i \in 1 .. n : messages[i][1] \in Partitions /\ messages[i][2] \in Int
  <2>1. \A q \in Partitions :
           /\ position[q] \in Int /\ committed[q] \in Int
           /\ position'[q] = IF q = p THEN position[p] + 1 ELSE position[q]
    BY <1>1 DEF TypeInv, OffsetOrNone, NoOffset
  <2>2. \A i \in 1 .. n : messages[i][1] \in Partitions /\ messages[i][2] \in Int
    BY <1>2 DEF Message
  <2> QED
    BY <2>1, <2>2
<1>4. \A q \in Partitions : committed'[q] <= position'[q]
  BY <1>1, <1>3 DEF BatchOrdered
<1>5. \A i \in 1 .. n : messages[i][2] < position[messages[i][1]]
  BY DEF BatchOrdered
<1>6. \A i \in 1 .. Len(messages') :
         /\ messages'[i][2] < position'[messages'[i][1]]
         /\ committed'[messages'[i][1]] <= messages'[i][2]
  <2>1. ASSUME NEW i \in 1 .. n
        PROVE  /\ messages'[i][2] < position'[messages'[i][1]]
               /\ committed'[messages'[i][1]] <= messages'[i][2]
    <3>1. committed[messages[i][1]] <= messages[i][2]
      BY <1>1, <1>2 DEF BatchOrdered, Pending
    <3> QED
      BY <1>1, <1>2, <1>3, <1>5, <3>1
  <2>2. new[2] < position'[new[1]] /\ committed'[new[1]] <= new[2]
    BY <1>1, <1>3 DEF BatchOrdered
  <2> QED
    BY <1>2, <2>1, <2>2
<1>7. \A i, j \in 1 .. Len(messages') :
         i < j /\ messages'[i][1] = messages'[j][1] => messages'[i][2] < messages'[j][2]
  <2>1. ASSUME NEW i \in 1 .. n, NEW j \in 1 .. n, i < j, messages[i][1] = messages[j][1]
        PROVE  messages[i][2] < messages[j][2]
    BY <2>1 DEF BatchOrdered
  <2>2. ASSUME NEW i \in 1 .. n, messages[i][1] = p
        PROVE  messages[i][2] < position[p]
    BY <1>5, <2>2
  <2> QED
    BY <1>2, <2>1, <2>2
<1>8. BatchOrdered'
  BY <1>1, <1>2, <1>4, <1>6, <1>7 DEF BatchOrdered, Pending
<1>9. IndexedIsCommitted' /\ OneCopyWithoutFaults'
  BY <1>1 DEF IndexedIsCommitted, OneCopyWithoutFaults, Indexed
<1> QED
  BY <1>8, <1>9

\* The batch that a bulk request stores is in no index yet.
LEMMA CopyBulk ==
    ASSUME TypeInv, BatchOrdered, IndexedIsCommitted, OneCopyWithoutFaults,
           faults = 0, Bulk
    PROVE  BatchOrdered' /\ IndexedIsCommitted' /\ OneCopyWithoutFaults'
<1>1. /\ UNCHANGED <<committed, position, messages, acked, faults>>
      /\ acked = 0 /\ Running /\ pc = "bulk" /\ pc' = "commit"
  BY DEF Bulk, Running, TypeInv, brokerVars
<1>2. /\ writeIndex \in Hour
      /\ docs'[writeIndex] = docs[writeIndex] \union BatchDocs
      /\ \A h \in Hour \ {writeIndex} : docs'[h] = docs[h]
  BY BatchOfMessages, IndexKeeps DEF Bulk, TypeInv
<1>3. Indexed' = Indexed \union BatchDocs
  BY BatchOfMessages, IndexedStays DEF Bulk
<1>4. ASSUME NEW m \in BatchDocs PROVE m \notin Indexed
  <2>1. PICK i \in 1 .. Len(messages) : m = messages[i]
    BY DEF BatchDocs, Batched
  <2>2. committed[m[1]] <= m[2]
    BY <1>1, <2>1 DEF BatchOrdered, Pending
  <2>3. m[1] \in Partitions /\ m[2] \in Int
    BY BatchOfMessages DEF Message
  <2>4. committed[m[1]] \in Int
    BY <2>3 DEF TypeInv, OffsetOrNone, NoOffset
  <2> QED
    BY <1>1, <2>2, <2>3, <2>4 DEF IndexedIsCommitted
<1>5. BatchOrdered'
  BY <1>1 DEF BatchOrdered, Pending
<1>6. IndexedIsCommitted'
  <2>1. \A m \in Indexed : m[2] < committed[m[1]]
    BY <1>1 DEF IndexedIsCommitted
  <2>2. \A m \in BatchDocs : \E i \in Pending : messages[i] = m
    BY <1>1 DEF BatchDocs, Batched, Pending
  <2> QED
    BY <1>1, <1>3, <2>1, <2>2 DEF IndexedIsCommitted, Pending
<1>7. OneCopyWithoutFaults'
  <2> SUFFICES ASSUME NEW m \in Message, NEW g \in Hour, NEW h \in Hour,
                      m \in docs'[g], m \in docs'[h]
               PROVE  g = h
    BY DEF OneCopyWithoutFaults
  <2>1. CASE m \in BatchDocs
    <3>1. \A f \in Hour : m \notin docs[f]
      BY <1>4, <2>1 DEF Indexed
    <3> QED
      BY <1>2, <3>1
  <2>2. CASE m \notin BatchDocs
    BY <1>2, <2>2 DEF OneCopyWithoutFaults
  <2> QED
    BY <2>1, <2>2
<1> QED
  BY <1>5, <1>6, <1>7

\* A commit moves the offset of a partition up, over the first message pending.
LEMMA CopyCommit ==
    ASSUME TypeInv, BatchOrdered, IndexedIsCommitted, OneCopyWithoutFaults,
           faults = 0, faults' = 0, CommitNext
    PROVE  BatchOrdered' /\ IndexedIsCommitted' /\ OneCopyWithoutFaults'
<1> DEFINE m == NextToCommit
           k == acked + 1
<1>1. /\ m = messages[k] /\ k \in Pending /\ k \in 1 .. Len(messages)
      /\ m[1] \in Partitions /\ m[2] \in Int
      /\ OffsetAfter(m) = m[2] + 1
  BY NextToCommitType DEF CommitNext, TypeInv, NextToCommit, Pending
<1>2. /\ UNCHANGED <<position, messages, pc, docs>>
      /\ acked' = k
      /\ committed' = [committed EXCEPT ![m[1]] = m[2] + 1]
  BY <1>1 DEF CommitNext, clusterVars, Replace
<1>3. /\ Pending' = Pending \ {k}
      /\ \A i \in Pending' : i \in 1 .. Len(messages) /\ k < i
  BY <1>2 DEF Pending, TypeInv
<1>4. /\ \A p \in Partitions :
            /\ committed[p] \in Int /\ position[p] \in Int
            /\ committed'[p] = IF p = m[1] THEN m[2] + 1 ELSE committed[p]
      /\ committed[m[1]] <= m[2]
  BY <1>1, <1>2 DEF TypeInv, OffsetOrNone, NoOffset, BatchOrdered
<1>5. \A i \in 1 .. Len(messages) :
         messages[i] \in Message /\ messages[i][1] \in Partitions /\ messages[i][2] \in Int
  <2>1. \A i \in 1 .. Len(messages) : messages[i] \in Message
    BY DEF TypeInv
  <2> QED
    BY <2>1 DEF Message
<1>6. BatchOrdered'
  <2>1. \A p \in Partitions : Running' => committed'[p] <= position'[p]
    <3>1. m[2] < position[m[1]]
      BY <1>1 DEF BatchOrdered
    <3> QED
      BY <1>1, <1>2, <1>4, <3>1 DEF BatchOrdered, Running
  <2>2. ASSUME NEW i \in Pending' PROVE committed'[messages[i][1]] <= messages[i][2]
    <3>1. messages[i][1] = m[1] => m[2] < messages[i][2]
      BY <1>1, <1>3 DEF BatchOrdered
    <3>2. committed[messages[i][1]] <= messages[i][2]
      BY <1>3 DEF BatchOrdered
    <3> QED
      BY <1>1, <1>3, <1>4, <1>5, <3>1, <3>2
  <2> QED
    BY <1>2, <2>1, <2>2 DEF BatchOrdered
<1>7. IndexedIsCommitted'
  <2> SUFFICES ASSUME NEW x \in Indexed
               PROVE  x[2] < committed'[x[1]] \/ (pc' = "commit" /\ \E i \in Pending' : messages'[i] = x)
    BY <1>2 DEF IndexedIsCommitted, Indexed
  <2>1. x \in Message
    BY DEF Indexed, TypeInv
  <2>2. x[1] \in Partitions /\ x[2] \in Int
    BY <2>1 DEF Message
  <2>3. CASE x[2] < committed[x[1]]
    BY <1>1, <1>4, <2>2, <2>3
  <2>4. ASSUME NEW i \in Pending, messages[i] = x, pc = "commit"
        PROVE  x[2] < committed'[x[1]] \/ (pc' = "commit" /\ \E j \in Pending' : messages'[j] = x)
    BY <1>1, <1>2, <1>3, <1>4, <2>2, <2>4
  <2> QED
    BY <2>3, <2>4 DEF IndexedIsCommitted
<1>8. OneCopyWithoutFaults'
  BY <1>2 DEF OneCopyWithoutFaults
<1> QED
  BY <1>6, <1>7, <1>8

\* Once the last message is committed, the batch is dropped.
LEMMA CopyFlushDone ==
    ASSUME TypeInv, BatchOrdered, IndexedIsCommitted, OneCopyWithoutFaults,
           faults = 0, FlushDone
    PROVE  BatchOrdered' /\ IndexedIsCommitted' /\ OneCopyWithoutFaults'
<1>1. /\ messages' = <<>> /\ acked' = 0 /\ UNCHANGED <<committed, position, docs>>
      /\ Running /\ acked = Len(messages)
  BY DEF FlushDone, Running, brokerVars, clusterVars
<1>2. Pending = {} /\ Pending' = {}
  BY <1>1, EmptyBatch DEF Pending, TypeInv
<1>3. BatchOrdered'
  BY <1>1, <1>2, EmptyBatch DEF BatchOrdered
<1>4. IndexedIsCommitted'
  BY <1>1, <1>2 DEF IndexedIsCommitted, Indexed
<1>5. OneCopyWithoutFaults'
  BY <1>1 DEF OneCopyWithoutFaults
<1> QED
  BY <1>3, <1>4, <1>5

\* Every step keeps the invariant: one without a fault by the lemmas above.
LEMMA CopyStep == TypeInv /\ CopyInv /\ [Next]_vars => CopyInv'
<1> SUFFICES ASSUME TypeInv, CopyInv, [Next]_vars, faults' = 0 PROVE CopyInv'
  BY DEF CopyInv
<1> DEFINE Faulty == faults' = faults + 1
<1>0. faults \in Nat /\ (Faulty => CopyInv')
  BY DEF CopyInv, TypeInv
<1>1. ASSUME faults = 0, BatchOrdered' /\ IndexedIsCommitted' /\ OneCopyWithoutFaults'
      PROVE  CopyInv'
  BY <1>1 DEF CopyInv
<1>2. ASSUME UNCHANGED faults
      PROVE  faults = 0 /\ BatchOrdered /\ IndexedIsCommitted /\ OneCopyWithoutFaults
  BY <1>2 DEF CopyInv
<1>3. ASSUME UNCHANGED <<committed, position, messages, acked, docs, faults>>,
             Running' => Running, pc = "commit" => pc' = "commit"
      PROVE  CopyInv'
  BY <1>1, <1>2, <1>3, CopyQuiet
<1>4. ASSUME NEW p \in Partitions, Publish(p) PROVE CopyInv'
  BY <1>3, <1>4 DEF Publish, processVars, clusterVars, Running
<1>5. ASSUME NEW p \in Partitions, Poll(p) PROVE CopyInv'
  <2>1. UNCHANGED faults
    BY <1>5 DEF Poll
  <2> QED
    BY <1>1, <1>2, <1>5, <2>1, CopyPoll
<1>6. CASE Start
  <2>1. UNCHANGED faults
    BY <1>6 DEF Start
  <2> QED
    BY <1>1, <1>2, <1>6, <2>1, CopyStart
<1>7. CASE Bulk
  <2>1. UNCHANGED faults
    BY <1>7 DEF Bulk
  <2> QED
    BY <1>1, <1>2, <1>7, <2>1, CopyBulk
<1>8. CASE CommitNext
  <2>1. CASE UNCHANGED faults
    BY <1>1, <1>2, <1>8, <2>1, CopyCommit
  <2> QED
    BY <1>0, <1>8, <2>1 DEF CommitNext
<1>9. CASE FlushDone
  <2>1. UNCHANGED faults
    BY <1>9 DEF FlushDone
  <2> QED
    BY <1>1, <1>2, <1>9, <2>1, CopyFlushDone
<1>10. ASSUME AbandonFlush, UNCHANGED <<committed, position, docs, faults>>,
              Running, pc # "commit"
       PROVE  CopyInv'
  <2>1. acked' = acked
    BY <1>10 DEF AbandonFlush, TypeInv
  <2>2. CASE final
    BY <1>1, <1>2, <1>10, <2>2, CopyEnding DEF AbandonFlush, Running
  <2>3. CASE ~final
    BY <1>3, <1>10, <2>1, <2>3 DEF AbandonFlush
  <2> QED
    BY <2>2, <2>3
<1>11. CASE EnrichFails \/ RequestFails
  BY <1>10, <1>11 DEF EnrichFails, RequestFails, Running, brokerVars, clusterVars
<1>12. CASE BulkRefuses \/ BulkRaises \/ CommitRaises \/ Crash \/ Rebalance
  BY <1>0, <1>12 DEF BulkRefuses, BulkRaises, CommitRaises, Crash, Rebalance
<1>13. CASE PollNothing \/ Tick \/ RequestStop \/ LeaveLoop \/ BuildDocs \/ Pin
  BY <1>3, <1>13
     DEF PollNothing, Tick, RequestStop, LeaveLoop, BuildDocs, Pin, Running,
         brokerVars, clusterVars
<1>14. CASE HourPasses \/ JobReadsClock \/ JobPins \/ UNCHANGED vars
  BY <1>3, <1>14
     DEF HourPasses, JobReadsClock, JobPins, vars, Running, brokerVars, processVars
<1> QED
  BY <1>4, <1>5, <1>6, <1>7, <1>8, <1>9, <1>11, <1>12, <1>13, <1>14 DEF Next

\* The indexer starts with nothing indexed.
LEMMA CopyInit == Init => CopyInv
<1> SUFFICES ASSUME Init PROVE CopyInv
  OBVIOUS
<1>1. Pending = {} /\ BatchOrdered
  BY EmptyBatch DEF Init, BatchOrdered, Pending, Running
<1>2. IndexedIsCommitted /\ OneCopyWithoutFaults
  BY DEF Init, IndexedIsCommitted, OneCopyWithoutFaults, Indexed
<1> QED
  BY <1>1, <1>2 DEF CopyInv

\* Without a crash, a rebalance, a lost commit or a bulk request that fails in
\* part an event is in one hourly index at most, although hours pass and the
\* rollover job moves the write alias in the middle of a flush, and whatever
\* requests fail as a whole (services/indexer.py, search/writer.py).
THEOREM OneCopyHolds == Spec => []OneCopyWithoutFaults
<1>1. TypeInv /\ CopyInv /\ [Next]_vars => (TypeInv /\ CopyInv)'
  BY TypeStep, CopyStep
<1>2. CopyInv => OneCopyWithoutFaults
  BY DEF CopyInv, OneCopyWithoutFaults
<1> QED
  BY <1>1, <1>2, TypeInit, CopyInit, PTL DEF Spec
===============================================================================
