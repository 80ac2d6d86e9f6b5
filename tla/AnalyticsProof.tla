---------------------------- MODULE AnalyticsProof ----------------------------
(***************************************************************************)
(* Proofs about Analytics, for any number of partitions and messages, any  *)
(* batch size and any number of faults.                                    *)
(***************************************************************************)
EXTENDS Analytics, FiniteSetTheorems, SequenceTheorems, TLAPS

USE OffsetAssumption, GarbageAssumption, BatchAssumption, BoundAssumption

-------------------------------------------------------------------------------
(* Lemmas about the operators of the model.                                *)

\* A message is in the batch exactly when the batch holds a positive number of
\* copies of it: the upsert of a batch counts every one of its events.
LEMMA CopiesOfBatch ==
    ASSUME NEW m, Len(batch) \in Nat
    PROVE  Copies(m) \in Nat /\ (Copies(m) > 0 <=> InBatch(m))
<1> DEFINE I == {i \in 1 .. Len(batch) : batch[i] = m}
<1>1. IsFiniteSet(1 .. Len(batch))
  BY FS_Interval
<1>2. I \in SUBSET (1 .. Len(batch))
  OBVIOUS
<1>3. IsFiniteSet(I)
  BY <1>1, <1>2, FS_Subset
<1>4. Cardinality(I) \in Nat
  BY <1>3, FS_CardinalityType
<1>5. Cardinality(I) = 0 <=> I = {}
  BY <1>3, FS_EmptySet
<1>6. I = {} <=> ~InBatch(m)
  BY DEF InBatch
<1>7. Copies(m) = Cardinality(I)
  BY DEF Copies
<1> QED
  BY <1>4, <1>5, <1>6, <1>7

\* The empty batch is one.
LEMMA EmptyBatch == <<>> \in Seq(Message) /\ Len(<<>>) = 0
  BY EmptySeq

\* Entering the partitions keeps positions and entry points inside the logs.
LEMMA AssignType ==
    ASSUME TypeOK, Assign
    PROVE  /\ position' \in [Partitions -> 0 .. MaxOffset]
           /\ base' \in [Partitions -> 0 .. MaxOffset]
<1>1. \A p \in Partitions : StartLatest(committed[p], end[p]) \in 0 .. MaxOffset
  BY DEF TypeOK, StartLatest, OffsetOrNone, NoOffset
<1>2. \A p \in Partitions :
         (IF committed[p] = NoOffset THEN end[p] ELSE base[p]) \in 0 .. MaxOffset
  BY DEF TypeOK
<1> QED
  BY <1>1, <1>2 DEF Assign

AbandonedType ==
    /\ batch' \in Seq(Message)
    /\ acked' \in 0 .. Len(batch')
    /\ pc' \in {"poll", "stopped"}

\* A flush that raised leaves a batch of messages and no commit under way.
LEMMA AbandonType ==
    ASSUME TypeOK, AbandonFlush
    PROVE  AbandonedType
<1>1. CASE final
  BY <1>1, EmptyBatch DEF AbandonFlush, AbandonedType
<1>2. CASE ~final
  BY <1>2 DEF AbandonFlush, AbandonedType, TypeOK
<1> QED
  BY <1>1, <1>2

\* An applied batch leaves every count a natural number, and none smaller; it
\* leaves the count of every event of the batch positive.
LEMMA ApplyBatchType ==
    ASSUME TypeOK, ApplyBatch
    PROVE  /\ applied' \in [Message -> Nat]
           /\ \A m \in Message : applied[m] > 0 => applied'[m] > 0
           /\ \A m \in Message : InBatch(m) => applied'[m] > 0
           /\ \A m \in Message : ~InBatch(m) => applied'[m] = applied[m]
<1>1. Len(batch) \in Nat
  BY DEF TypeOK
<1>2. \A m \in Message : Copies(m) \in Nat /\ (Copies(m) > 0 <=> InBatch(m))
  BY <1>1, CopiesOfBatch
<1>3. \A m \in Message : applied[m] \in Nat
  BY DEF TypeOK
<1>4. \A m \in Message : applied'[m] = applied[m] + Copies(m)
  BY DEF ApplyBatch
<1>5. applied' = [m \in Message |-> applied'[m]]
  BY <1>4 DEF ApplyBatch
<1>6. \A m \in Message : applied'[m] \in Nat
  BY <1>2, <1>3, <1>4
<1>7. applied' \in [Message -> Nat]
  BY <1>5, <1>6
<1> QED
  BY <1>2, <1>3, <1>4, <1>7

-------------------------------------------------------------------------------
(* Type correctness.                                                       *)

\* Every step keeps the types,
LEMMA TypeStep == TypeOK /\ [Next]_vars => TypeOK'
<1> SUFFICES ASSUME TypeOK, [Next]_vars PROVE TypeOK'
  OBVIOUS
<1> USE DEF TypeOK
<1>1. ASSUME NEW p \in Partitions, Publish(p) PROVE TypeOK'
  BY <1>1 DEF Publish, Replace, brokerVars, processVars
<1>2. ASSUME NEW p \in Partitions, PollEvent(p) PROVE TypeOK'
  <2>1. <<p, position[p]>> \in Message
    BY <1>2 DEF PollEvent, Message
  <2>2. batch' \in Seq(Message) /\ Len(batch') = Len(batch) + 1
    BY <1>2, <2>1 DEF PollEvent
  <2>3. position' \in [Partitions -> 0 .. MaxOffset]
    BY <1>2 DEF PollEvent, Replace
  <2>4. pc' \in {"poll", "upsert"}
    BY <1>2 DEF PollEvent, AfterPoll
  <2> QED
    BY <1>2, <2>2, <2>3, <2>4 DEF PollEvent, brokerVars
<1>3. ASSUME NEW p \in Partitions, PollGarbage(p) PROVE TypeOK'
  <2>1. position' \in [Partitions -> 0 .. MaxOffset]
    BY <1>3 DEF PollGarbage, Replace
  <2>2. committed' \in [Partitions -> OffsetOrNone(MaxOffset)]
    <3>1. position[p] + 1 \in OffsetOrNone(MaxOffset)
      BY <1>3 DEF PollGarbage, OffsetOrNone
    <3> QED
      BY <1>3, <3>1 DEF PollGarbage, Replace
  <2>3. pc' \in {"poll", "upsert"}
    BY <1>3 DEF PollGarbage, AfterPoll
  <2>4. faults' \in 0 .. MaxFaults
    BY <1>3 DEF PollGarbage
  <2> QED
    BY <1>3, <2>1, <2>2, <2>3, <2>4 DEF PollGarbage
<1>4. CASE Start
  <2>1. position' \in [Partitions -> 0 .. MaxOffset]
        /\ base' \in [Partitions -> 0 .. MaxOffset]
    BY <1>4, AssignType DEF Start
  <2>2. batch' \in Seq(Message) /\ acked' \in 0 .. Len(batch')
    BY <1>4, EmptyBatch DEF Start
  <2> QED
    BY <1>4, <2>1, <2>2 DEF Start
<1>5. CASE PollNothing
  BY <1>5 DEF PollNothing, brokerVars
<1>6. CASE Tick
  BY <1>6 DEF Tick, brokerVars
<1>7. CASE Upsert
  <2>1. applied' \in [Message -> Nat]
    BY <1>7, ApplyBatchType DEF Upsert
  <2> QED
    BY <1>7, <2>1 DEF Upsert, brokerVars
<1>8. CASE UpsertFails
  <2>1. AbandonedType
    BY <1>8, AbandonType DEF UpsertFails
  <2>2. failures' \in 0 .. MaxFailures
    BY <1>8 DEF UpsertFails
  <2> QED
    BY <1>8, <2>1, <2>2 DEF UpsertFails, brokerVars, AbandonedType
<1>9. CASE UpsertUnknown
  <2>1. applied' \in [Message -> Nat]
    BY <1>9, ApplyBatchType DEF UpsertUnknown
  <2>2. AbandonedType
    BY <1>9, AbandonType DEF UpsertUnknown
  <2> QED
    BY <1>9, <2>1, <2>2 DEF UpsertUnknown, brokerVars, AbandonedType
<1>10. CASE CommitNext
  <2>1. batch[acked + 1] \in Message
    BY <1>10 DEF CommitNext
  <2>2. batch[acked + 1][1] \in Partitions
        /\ OffsetAfter(batch[acked + 1]) \in OffsetOrNone(MaxOffset)
    <3>1. batch[acked + 1][1] \in Partitions
          /\ batch[acked + 1][2] \in 0 .. MaxOffset - 1
      BY <2>1 DEF Message
    <3>2. OffsetAfter(batch[acked + 1]) \in 0 .. MaxOffset
      BY <3>1, SMTT(30) DEF OffsetAfter
    <3> QED
      BY <3>1, <3>2 DEF OffsetOrNone
  <2>3. committed' \in [Partitions -> OffsetOrNone(MaxOffset)]
    BY <1>10, <2>2 DEF CommitNext, Replace
  <2>4. faults' \in 0 .. MaxFaults /\ acked' \in 0 .. Len(batch)
    BY <1>10 DEF CommitNext
  <2> QED
    BY <1>10, <2>3, <2>4 DEF CommitNext
<1>11. CASE CommitRaises
  <2>1. AbandonedType
    BY <1>11, AbandonType DEF CommitRaises
  <2> QED
    BY <1>11, <2>1 DEF CommitRaises, brokerVars, AbandonedType
<1>12. CASE FlushDone
  <2>1. batch' \in Seq(Message) /\ acked' \in 0 .. Len(batch')
    BY <1>12, EmptyBatch DEF FlushDone
  <2>2. pc' \in {"poll", "stopped"}
    BY <1>12 DEF FlushDone
  <2> QED
    BY <1>12, <2>1, <2>2 DEF FlushDone, brokerVars
<1>13. CASE RequestStop
  BY <1>13 DEF RequestStop, brokerVars
<1>14. CASE LeaveLoop
  BY <1>14 DEF LeaveLoop, brokerVars
<1>15. CASE Crash
  BY <1>15, EmptyBatch DEF Crash, brokerVars
<1>16. CASE Rebalance
  <2>1. position' \in [Partitions -> 0 .. MaxOffset]
        /\ base' \in [Partitions -> 0 .. MaxOffset]
    BY <1>16, AssignType DEF Rebalance
  <2> QED
    BY <1>16, <2>1 DEF Rebalance
<1>17. CASE UNCHANGED vars
  BY <1>17 DEF vars
<1> QED
  BY <1>1, <1>2, <1>3, <1>4, <1>5, <1>6, <1>7, <1>8, <1>9, <1>10, <1>11, <1>12,
     <1>13, <1>14, <1>15, <1>16, <1>17 DEF Next

\* which hold at first.
LEMMA InitType == Init => TypeOK
<1> SUFFICES ASSUME Init PROVE TypeOK
  OBVIOUS
<1>1. batch \in Seq(Message) /\ acked \in 0 .. Len(batch)
  BY EmptyBatch DEF Init
<1>2. committed \in [Partitions -> OffsetOrNone(MaxOffset)]
  BY DEF Init, OffsetOrNone
<1>3. applied \in [Message -> Nat]
  BY DEF Init
<1>4. /\ end \in [Partitions -> 0 .. MaxOffset]
      /\ base \in [Partitions -> 0 .. MaxOffset]
      /\ position \in [Partitions -> 0 .. MaxOffset]
  BY DEF Init
<1>5. final \in BOOLEAN /\ due \in BOOLEAN /\ stop \in BOOLEAN
  BY Zenon DEF Init
<1>6. pc = "down" /\ faults \in 0 .. MaxFaults /\ failures \in 0 .. MaxFailures
  BY DEF Init
<1> QED
  BY <1>1, <1>2, <1>3, <1>4, <1>5, <1>6 DEF TypeOK

\* The variables of the consumer keep their types.
THEOREM TypeCorrect == Spec => []TypeOK
  BY InitType, TypeStep, PTL DEF Spec

-------------------------------------------------------------------------------
(* Everything the consumer knows of lies within the logs, and neither its  *)
(* batch nor the aggregates hold a garbage message.                        *)

BatchIsEvents == \A i \in 1 .. Len(batch) : batch[i] \notin Garbage

OffsetsWithinLog ==
    \A p \in Partitions :
        base[p] <= end[p] /\ committed[p] <= end[p] /\ position[p] <= end[p]

BatchWithinLog == \A i \in 1 .. Len(batch) : batch[i][2] < end[batch[i][1]]

AppliedWithinLog ==
    \A m \in Message : applied[m] > 0 => m[2] < end[m[1]] /\ m \notin Garbage

LogInv ==
    TypeOK /\ BatchIsEvents /\ OffsetsWithinLog /\ BatchWithinLog /\ AppliedWithinLog

\* A batch that is kept or dropped, while no log changes, stays within them.
LEMMA BatchKept ==
    ASSUME LogInv, TypeOK', batch' \in {batch, <<>>},
           UNCHANGED <<end, committed, base, position>>, AppliedWithinLog'
    PROVE  LogInv'
<1>1. OffsetsWithinLog'
  BY DEF LogInv, OffsetsWithinLog
<1>2. BatchIsEvents' /\ BatchWithinLog'
  BY EmptyBatch DEF LogInv, BatchIsEvents, BatchWithinLog
<1> QED
  BY <1>1, <1>2 DEF LogInv

\* Applying the batch adds events of the batch only.
LEMMA ApplyWithinLog ==
    ASSUME LogInv, ApplyBatch, end' = end
    PROVE  AppliedWithinLog'
<1> SUFFICES ASSUME NEW m \in Message, applied'[m] > 0
             PROVE  m[2] < end[m[1]] /\ m \notin Garbage
  BY DEF AppliedWithinLog
<1>1. CASE InBatch(m)
  BY <1>1 DEF InBatch, LogInv, BatchIsEvents, BatchWithinLog
<1>2. CASE ~InBatch(m)
  <2>1. applied'[m] = applied[m]
    BY <1>2, ApplyBatchType DEF LogInv
  <2> QED
    BY <2>1 DEF LogInv, AppliedWithinLog
<1> QED
  BY <1>1, <1>2

\* No step reads beyond the log,
LEMMA LogStep == LogInv /\ TypeOK' /\ [Next]_vars => LogInv'
<1> SUFFICES ASSUME LogInv, TypeOK', [Next]_vars PROVE LogInv'
  OBVIOUS
<1>q. ASSUME UNCHANGED <<end, committed, base, position, applied>>,
             batch' \in {batch, <<>>}
      PROVE  LogInv'
  BY <1>q, BatchKept DEF LogInv, AppliedWithinLog
<1>1. ASSUME NEW p \in Partitions, Publish(p) PROVE LogInv'
  <2>1. /\ UNCHANGED <<committed, base, position, batch, applied>>
        /\ \A q \in Partitions : end[q] <= end'[q] /\ end'[q] \in Int /\ end[q] \in Int
    BY <1>1 DEF Publish, Replace, brokerVars, processVars, LogInv, TypeOK
  <2>2. OffsetsWithinLog'
    <3> SUFFICES ASSUME NEW q \in Partitions
                 PROVE  base[q] <= end'[q] /\ committed[q] <= end'[q]
                        /\ position[q] <= end'[q]
      BY <2>1 DEF OffsetsWithinLog
    <3>1. base[q] \in Int /\ committed[q] \in Int /\ position[q] \in Int
      BY SMTT(30) DEF LogInv, TypeOK, OffsetOrNone, NoOffset
    <3> QED
      BY <2>1, <3>1 DEF LogInv, OffsetsWithinLog
  <2>3. BatchIsEvents'
    BY <2>1 DEF LogInv, BatchIsEvents
  <2>4. BatchWithinLog'
    <3> SUFFICES ASSUME NEW i \in 1 .. Len(batch)
                 PROVE  batch[i][2] < end'[batch[i][1]]
      BY <2>1 DEF BatchWithinLog
    <3>1. batch[i] \in Message
      BY DEF LogInv, TypeOK
    <3>2. batch[i][1] \in Partitions /\ batch[i][2] \in Int
      BY <3>1 DEF Message
    <3> QED
      BY <2>1, <3>2 DEF LogInv, BatchWithinLog
  <2>5. AppliedWithinLog'
    <3> SUFFICES ASSUME NEW m \in Message, applied[m] > 0
                 PROVE  m[2] < end'[m[1]] /\ m \notin Garbage
      BY <2>1 DEF AppliedWithinLog
    <3>1. m[1] \in Partitions /\ m[2] \in Int
      BY DEF Message
    <3> QED
      BY <2>1, <3>1 DEF LogInv, AppliedWithinLog
  <2> QED
    BY <2>2, <2>3, <2>4, <2>5 DEF LogInv
<1>2. ASSUME NEW p \in Partitions, PollEvent(p) PROVE LogInv'
  <2>1. /\ UNCHANGED <<end, committed, base, applied>>
        /\ position' = [position EXCEPT ![p] = position[p] + 1]
        /\ position[p] < end[p]
        /\ <<p, position[p]>> \notin Garbage
        /\ batch' = Append(batch, <<p, position[p]>>)
    BY <1>2 DEF PollEvent, Replace, brokerVars
  <2>2. \A i \in 1 .. Len(batch') :
           \/ batch'[i] = <<p, position[p]>>
           \/ i \in 1 .. Len(batch) /\ batch'[i] = batch[i]
    <3>1. <<p, position[p]>> \in Message
      BY <2>1 DEF LogInv, TypeOK, Message
    <3>2. batch \in Seq(Message)
      BY DEF LogInv, TypeOK
    <3>3. /\ Len(batch) \in Nat /\ Len(batch') = Len(batch) + 1
          /\ \A i \in 1 .. Len(batch) : batch'[i] = batch[i]
          /\ batch'[Len(batch) + 1] = <<p, position[p]>>
      BY <2>1, <3>1, <3>2
    <3> QED
      BY <3>3
  <2>3. BatchIsEvents' /\ BatchWithinLog'
    BY <2>1, <2>2 DEF LogInv, BatchIsEvents, BatchWithinLog
  <2>4. OffsetsWithinLog'
    BY <2>1 DEF LogInv, OffsetsWithinLog, TypeOK
  <2>5. AppliedWithinLog'
    BY <2>1 DEF LogInv, AppliedWithinLog
  <2> QED
    BY <2>3, <2>4, <2>5 DEF LogInv
<1>3. ASSUME NEW p \in Partitions, PollGarbage(p) PROVE LogInv'
  <2>1. /\ UNCHANGED <<end, base, batch, applied>>
        /\ position' = [position EXCEPT ![p] = position[p] + 1]
        /\ position[p] < end[p]
        /\ committed' \in {committed, [committed EXCEPT ![p] = position[p] + 1]}
    BY <1>3 DEF PollGarbage, Replace
  <2>2. OffsetsWithinLog'
    BY <2>1 DEF LogInv, OffsetsWithinLog, TypeOK
  <2> QED
    BY <2>1, <2>2 DEF LogInv, BatchIsEvents, BatchWithinLog, AppliedWithinLog
<1>4. ASSUME Assign, UNCHANGED <<end, committed, applied>>, batch' \in {batch, <<>>}
      PROVE  LogInv'
  <2>1. OffsetsWithinLog'
    BY <1>4 DEF LogInv, OffsetsWithinLog, TypeOK, Assign, StartLatest
  <2>2. BatchIsEvents' /\ BatchWithinLog' /\ AppliedWithinLog'
    BY <1>4, EmptyBatch DEF LogInv, BatchIsEvents, BatchWithinLog, AppliedWithinLog
  <2> QED
    BY <2>1, <2>2 DEF LogInv
<1>5. CASE CommitNext
  <2>1. batch[acked + 1] \in Message /\ acked + 1 \in 1 .. Len(batch)
    BY <1>5 DEF CommitNext, LogInv, TypeOK
  <2>2. /\ UNCHANGED <<end, base, position, batch, applied>>
        /\ committed' \in
              {committed, [committed EXCEPT ![batch[acked + 1][1]] = batch[acked + 1][2] + 1]}
    BY <1>5 DEF CommitNext, Replace, OffsetAfter
  <2>3. batch[acked + 1][1] \in Partitions /\ batch[acked + 1][2] \in Nat
    BY <2>1 DEF Message
  <2>4. OffsetsWithinLog'
    <3> DEFINE m == batch[acked + 1]
    <3>1. m[2] + 1 <= end[m[1]]
      <4>1. end[m[1]] \in Nat
        BY <2>3, SMTT(30) DEF LogInv, TypeOK
      <4>2. m[2] < end[m[1]]
        BY <2>1 DEF LogInv, BatchWithinLog
      <4> QED
        BY <2>3, <4>1, <4>2
    <3>2. \A p \in Partitions : committed'[p] <= end[p]
      <4> SUFFICES ASSUME NEW p \in Partitions PROVE committed'[p] <= end[p]
        OBVIOUS
      <4>1. committed[p] <= end[p] /\ DOMAIN committed = Partitions
        BY DEF LogInv, OffsetsWithinLog, TypeOK
      <4>2. \/ committed'[p] = committed[p]
            \/ p = m[1] /\ committed'[p] = m[2] + 1
        BY <2>2, <2>3, <4>1
      <4> QED
        BY <3>1, <4>1, <4>2
    <3> QED
      BY <2>2, <3>2 DEF LogInv, OffsetsWithinLog
  <2> QED
    BY <2>2, <2>4 DEF LogInv, BatchIsEvents, BatchWithinLog, AppliedWithinLog
<1>6. ASSUME ApplyBatch, UNCHANGED <<end, committed, base, position>>,
             batch' \in {batch, <<>>}
      PROVE  LogInv'
  BY <1>6, ApplyWithinLog, BatchKept
<1>7. CASE Start
  BY <1>4, <1>7 DEF Start
<1>8. CASE Rebalance
  BY <1>4, <1>8 DEF Rebalance
<1>9. CASE Upsert
  BY <1>6, <1>9 DEF Upsert, brokerVars
<1>10. CASE UpsertUnknown
  BY <1>6, <1>10 DEF UpsertUnknown, AbandonFlush, brokerVars
<1>11. CASE UpsertFails \/ CommitRaises
  BY <1>q, <1>11 DEF UpsertFails, CommitRaises, AbandonFlush, brokerVars
<1>12. CASE FlushDone \/ Crash
  BY <1>q, <1>12 DEF FlushDone, Crash, brokerVars
<1>13. CASE PollNothing \/ Tick \/ RequestStop \/ LeaveLoop
  BY <1>q, <1>13 DEF PollNothing, Tick, RequestStop, LeaveLoop, brokerVars
<1>14. CASE UNCHANGED vars
  BY <1>q, <1>14 DEF vars
<1> QED
  BY <1>1, <1>2, <1>3, <1>5, <1>7, <1>8, <1>9, <1>10, <1>11, <1>12, <1>13, <1>14
     DEF Next

\* nor does the initial state.
LEMMA InitLog == Init => LogInv
<1> SUFFICES ASSUME Init PROVE LogInv
  OBVIOUS
<1>1. TypeOK
  BY InitType
<1>2. OffsetsWithinLog
  BY DEF Init, OffsetsWithinLog, NoOffset
<1>3. BatchIsEvents /\ BatchWithinLog
  BY EmptyBatch DEF Init, BatchIsEvents, BatchWithinLog
<1>4. AppliedWithinLog
  BY DEF Init, AppliedWithinLog
<1> QED
  BY <1>1, <1>2, <1>3, <1>4 DEF LogInv

\* No offset, batch or aggregate of the consumer is ahead of the topic, and no
\* undecodable message is ever counted.
THEOREM StaysWithinLog == Spec => []LogInv
<1>1. LogInv /\ [Next]_vars => LogInv'
  BY TypeStep, LogStep DEF LogInv
<1> QED
  BY <1>1, InitLog, PTL DEF Spec

-------------------------------------------------------------------------------
(* The inductive invariant.  CommittedIsApplied is not inductive: it says  *)
(* nothing of events that are read and not yet committed.  ReachedIsKept   *)
(* does: an event the running consumer has gone past is applied, or in the *)
(* batch, or lost behind a garbage message that lies below everything the  *)
(* batch holds of its partition, so that committing the batch hides it.    *)

Offset == 0 .. MaxOffset - 1

IsApplied(p, o) == <<p, o>> \in Garbage \/ applied[<<p, o>>] > 0

BatchIsApplied ==
    pc = "commit" => \A i \in 1 .. Len(batch) : applied[batch[i]] > 0

\* The batch holds nothing of p at or before offset u.
BatchAfter(p, u) ==
    \A i \in 1 .. Len(batch) : batch[i][1] = p => u < batch[i][2]

Lost(p, o) ==
    \E u \in Offset :
        /\ <<p, u>> \in Garbage
        /\ o < u /\ u < committed[p] /\ u < position[p]
        /\ BatchAfter(p, u)

\* The consumer has gone past offset o of p, or its batch has.
Reached(p, o) ==
    \/ o < position[p]
    \/ o < committed[p]
    \/ \E i \in 1 .. Len(batch) : batch[i][1] = p /\ o <= batch[i][2]

KeptAt(p, o) ==
    base[p] <= o /\ Reached(p, o)
        => IsApplied(p, o) \/ InBatch(<<p, o>>) \/ Lost(p, o)

CommittedAt(p, o) ==
    base[p] <= o /\ o < committed[p]
        => IsApplied(p, o) \/ Hidden(p, o, committed[p])

ReachedIsKept == Running => \A p \in Partitions, o \in Offset : KeptAt(p, o)

IInv ==
    /\ LogInv
    /\ BatchIsApplied
    /\ CommittedIsApplied
    /\ ReachedIsKept

\* CommittedIsApplied, offset by offset.
LEMMA CommittedPointwise ==
    ASSUME committed \in [Partitions -> OffsetOrNone(MaxOffset)],
           base \in [Partitions -> 0 .. MaxOffset]
    PROVE  CommittedIsApplied
               <=> \A p \in Partitions, o \in Offset : CommittedAt(p, o)
<1>1. \A p \in Partitions :
         committed[p] \in Int /\ committed[p] <= MaxOffset /\ base[p] \in Nat
  BY DEF OffsetOrNone, NoOffset
<1>2. \A p \in Partitions, o \in Int :
         o \in base[p] .. (committed[p] - 1)
             <=> o \in Offset /\ base[p] <= o /\ o < committed[p]
  BY <1>1 DEF Offset
<1>3. \A p \in Partitions : base[p] .. (committed[p] - 1) \subseteq Int
  OBVIOUS
<1> QED
  BY <1>2, <1>3 DEF CommittedIsApplied, CommittedAt, IsApplied, Offset

\* The same after a step.
LEMMA CommittedPointwiseNext ==
    ASSUME TypeOK', \A p \in Partitions, o \in Offset : CommittedAt(p, o)'
    PROVE  CommittedIsApplied'
<1>1. \A p \in Partitions :
         committed'[p] \in Int /\ committed'[p] <= MaxOffset /\ base'[p] \in Nat
  BY DEF TypeOK, OffsetOrNone, NoOffset
<1>2. \A p \in Partitions : \A o \in base'[p] .. (committed'[p] - 1) :
         o \in Offset /\ base'[p] <= o /\ o < committed'[p]
  BY <1>1 DEF Offset
<1> QED
  BY <1>2 DEF CommittedIsApplied, CommittedAt, IsApplied

\* A lost event is hidden behind a garbage message.
LEMMA LostIsHidden ==
    ASSUME TypeOK, NEW p \in Partitions, NEW o \in Offset, Lost(p, o)
    PROVE  Hidden(p, o, committed[p])
<1>1. committed[p] \in Int
  BY DEF TypeOK, OffsetOrNone, NoOffset
<1>2. PICK u \in Offset : <<p, u>> \in Garbage /\ o < u /\ u < committed[p]
  BY DEF Lost
<1>3. u \in (o + 1) .. (committed[p] - 1)
  BY <1>1, <1>2 DEF Offset
<1> QED
  BY <1>2, <1>3 DEF Hidden

\* The counts of applied events never fall back to zero.
Monotone == \A m \in Message : applied[m] > 0 => applied'[m] > 0

\* What is applied stays applied.
LEMMA IsAppliedMonotone ==
    ASSUME NEW p \in Partitions, NEW o \in Offset, IsApplied(p, o), Monotone
    PROVE  IsApplied(p, o)'
<1>1. <<p, o>> \in Message
  BY DEF Offset, Message
<1> QED
  BY <1>1 DEF IsApplied, Monotone

\* Steps that move no offset and keep the batch keep what is reached.
LEMMA QuietStep ==
    ASSUME IInv, LogInv', Monotone,
           UNCHANGED <<committed, position, base, batch>>,
           Running' => Running,
           pc' = "commit" =>
               \A i \in 1 .. Len(batch) : applied'[batch[i]] > 0
    PROVE  IInv'
<1>2. BatchIsApplied'
  BY DEF BatchIsApplied
<1>3. CommittedIsApplied'
  <2>1. ASSUME NEW p \in Partitions, NEW o \in Offset PROVE CommittedAt(p, o)'
    <3>1. CommittedAt(p, o)
      BY CommittedPointwise DEF IInv, LogInv, TypeOK
    <3> QED
      BY <3>1, IsAppliedMonotone DEF CommittedAt, Hidden
  <2> QED
    BY <2>1, CommittedPointwiseNext DEF LogInv
<1>4. ReachedIsKept'
  <2> SUFFICES ASSUME Running', NEW p \in Partitions, NEW o \in Offset
               PROVE  KeptAt(p, o)'
    BY DEF ReachedIsKept
  <2>1. KeptAt(p, o)
    BY DEF IInv, ReachedIsKept
  <2> QED
    BY <2>1, IsAppliedMonotone DEF KeptAt, Reached, InBatch, Lost, BatchAfter
<1> QED
  BY <1>2, <1>3, <1>4 DEF IInv

\* Steps that end the process lose its batch, and no committed offset moves.
LEMMA EndingStep ==
    ASSUME IInv, LogInv', Monotone, ~Running', batch' = <<>>,
           UNCHANGED <<committed, base>>
    PROVE  IInv'
<1>1. BatchIsApplied' /\ ReachedIsKept'
  BY EmptyBatch DEF BatchIsApplied, ReachedIsKept, Running
<1>2. CommittedIsApplied'
  <2>1. ASSUME NEW p \in Partitions, NEW o \in Offset PROVE CommittedAt(p, o)'
    <3>1. CommittedAt(p, o)
      BY CommittedPointwise DEF IInv, LogInv, TypeOK
    <3> QED
      BY <3>1, IsAppliedMonotone DEF CommittedAt, Hidden
  <2> QED
    BY <2>1, CommittedPointwiseNext DEF LogInv
<1> QED
  BY <1>1, <1>2 DEF IInv

\* Reading an event puts it in the batch, after every lost one.
LEMMA PollEventStep ==
    ASSUME IInv, LogInv', NEW p \in Partitions, PollEvent(p)
    PROVE  IInv'
<1> DEFINE n == Len(batch)
           new == <<p, position[p]>>
<1>1. /\ n \in Nat /\ Len(batch') = n + 1
      /\ \A i \in 1 .. n : batch'[i] = batch[i]
      /\ batch'[n + 1] = new
      /\ new \in Message \ Garbage
      /\ batch \in Seq(Message)
  <2>1. position[p] \in Offset
    BY DEF PollEvent, IInv, LogInv, TypeOK, Offset
  <2>2. new \in Message \ Garbage
    BY <2>1 DEF PollEvent, Message, Offset
  <2> QED
    BY <2>2 DEF PollEvent, IInv, LogInv, TypeOK
<1>2. /\ position' = [position EXCEPT ![p] = position[p] + 1]
      /\ UNCHANGED <<committed, base, applied>>
      /\ pc' \in {"poll", "upsert"}
      /\ Running
  BY DEF PollEvent, Replace, AfterPoll, brokerVars, Running
<1>4. BatchIsApplied'
  BY <1>2 DEF BatchIsApplied
<1>5. CommittedIsApplied'
  BY <1>2 DEF IInv, CommittedIsApplied, Hidden
<1>6. ASSUME NEW q \in Partitions, NEW o \in Offset PROVE KeptAt(q, o)'
  <2> SUFFICES ASSUME base[q] <= o, Reached(q, o)', ~IsApplied(q, o), ~InBatch(<<q, o>>)'
               PROVE  Lost(q, o)'
    BY <1>2 DEF KeptAt, IsApplied
  <2>1. position \in [Partitions -> 0 .. MaxOffset]
    BY DEF IInv, LogInv, TypeOK
  <2>2. ~InBatch(<<q, o>>) /\ <<q, o>> # new
    BY <1>1 DEF InBatch
  <2>3. Reached(q, o)
    <3>1. CASE q = p
      <4>1. o # position[p]
        BY <2>2, <3>1
      <4>2. position[p] \in Int /\ position'[p] = position[p] + 1 /\ o \in Int
        BY <1>2, <2>1 DEF Offset
      <4>3. CASE o < position'[p]
        BY <3>1, <4>1, <4>2, <4>3 DEF Reached
      <4>4. CASE o < committed'[p]
        BY <1>2, <3>1, <4>4 DEF Reached
      <4>5. ASSUME NEW i \in 1 .. Len(batch'), batch'[i][1] = p, o <= batch'[i][2]
            PROVE  Reached(q, o)
        <5>1. CASE i \in 1 .. n
          BY <1>1, <3>1, <4>5, <5>1 DEF Reached
        <5>2. CASE i = n + 1
          BY <1>1, <3>1, <4>1, <4>2, <4>5, <5>2 DEF Reached
        <5> QED
          BY <1>1, <4>5, <5>1, <5>2
      <4> QED
        BY <3>1, <4>3, <4>4, <4>5 DEF Reached
    <3>2. CASE q # p
      <4>1. \A i \in 1 .. Len(batch') : batch'[i][1] = q
               => i \in 1 .. n /\ batch'[i] = batch[i]
        BY <1>1, <3>2
      <4>2. position'[q] = position[q] /\ committed'[q] = committed[q]
        BY <1>2, <2>1, <3>2
      <4> QED
        BY <4>1, <4>2 DEF Reached
    <3> QED
      BY <3>1, <3>2
  <2>4. Lost(q, o)
    BY <1>2, <2>2, <2>3 DEF IInv, ReachedIsKept, KeptAt
  <2>5. PICK u \in Offset : /\ <<q, u>> \in Garbage
                            /\ o < u /\ u < committed[q] /\ u < position[q]
                            /\ BatchAfter(q, u)
    BY <2>4 DEF Lost
  <2>6. u < position'[q]
    BY <1>2, <2>1, <2>5 DEF Offset
  <2>7. BatchAfter(q, u)'
    BY <1>1, <2>5 DEF BatchAfter
  <2> QED
    BY <1>2, <2>5, <2>6, <2>7 DEF Lost
<1> QED
  BY <1>4, <1>5, <1>6 DEF IInv, ReachedIsKept

\* Committing an undecodable message hides what the batch holds before it.
LEMMA PollGarbageStep ==
    ASSUME IInv, LogInv', NEW p \in Partitions, PollGarbage(p)
    PROVE  IInv'
<1>1. /\ position' = [position EXCEPT ![p] = position[p] + 1]
      /\ UNCHANGED <<base, batch, applied>>
      /\ committed' \in {committed, [committed EXCEPT ![p] = position[p] + 1]}
      /\ position[p] \in Offset
      /\ <<p, position[p]>> \in Garbage
      /\ pc' \in {"poll", "upsert"}
      /\ Running
  BY DEF PollGarbage, Replace, AfterPoll, Running, IInv, LogInv, TypeOK, Offset
<1>2. /\ position \in [Partitions -> 0 .. MaxOffset]
      /\ \A q \in Partitions : committed[q] \in Int
      /\ DOMAIN committed = Partitions
  BY DEF IInv, LogInv, TypeOK, OffsetOrNone, NoOffset
<1>3. BatchIsApplied'
  BY <1>1 DEF BatchIsApplied
<1>4. ASSUME NEW q \in Partitions, NEW o \in Offset PROVE CommittedAt(q, o)'
  <2>1. CommittedAt(q, o)
    BY CommittedPointwise DEF IInv, LogInv, TypeOK
  <2>2. CASE committed'[q] = committed[q]
    BY <1>1, <2>1, <2>2 DEF CommittedAt, IsApplied, Hidden
  <2>3. CASE committed'[q] # committed[q]
    <3>1. q = p /\ committed'[q] = position[p] + 1
      BY <1>1, <1>2, <2>3
    <3>2. CASE o = position[p]
      BY <1>1, <3>1, <3>2 DEF CommittedAt, IsApplied
    <3>3. CASE o < position[p]
      <4>1. position[p] \in (o + 1) .. (committed'[q] - 1)
        BY <1>1, <3>1, <3>3 DEF Offset
      <4>2. Hidden(q, o, committed[q])'
        BY <1>1, <3>1, <4>1 DEF Hidden
      <4> QED
        BY <4>2 DEF CommittedAt
    <3>4. CASE o > position[p]
      BY <1>1, <3>1, <3>4 DEF CommittedAt, Offset
    <3> QED
      BY <1>1, <3>2, <3>3, <3>4 DEF Offset
  <2> QED
    BY <2>2, <2>3
<1>5. ASSUME NEW q \in Partitions, NEW o \in Offset PROVE KeptAt(q, o)'
  <2> SUFFICES ASSUME base[q] <= o, Reached(q, o)', ~IsApplied(q, o), ~InBatch(<<q, o>>)
               PROVE  Lost(q, o)'
    BY <1>1 DEF KeptAt, IsApplied, InBatch
  <2>1. \/ position'[q] = position[q] /\ committed'[q] = committed[q]
        \/ /\ q = p
           /\ position'[q] = position[q] + 1
           /\ committed'[q] \in {committed[q], position[q] + 1}
    BY <1>1, <1>2
  <2>2. q = p => o # position[q]
    BY <1>1 DEF IsApplied
  <2>3. position[q] \in Int /\ committed[q] \in Int
    BY <1>2
  <2>4. Reached(q, o)
    BY <1>1, <2>1, <2>2, <2>3 DEF Reached, Offset
  <2>5. Lost(q, o)
    BY <1>1, <2>4 DEF IInv, ReachedIsKept, KeptAt
  <2>6. PICK u \in Offset : /\ <<q, u>> \in Garbage
                            /\ o < u /\ u < committed[q] /\ u < position[q]
                            /\ BatchAfter(q, u)
    BY <2>5 DEF Lost
  <2>7. u < committed'[q] /\ u < position'[q]
    BY <2>1, <2>3, <2>6 DEF Offset
  <2>8. BatchAfter(q, u)'
    BY <1>1, <2>6 DEF BatchAfter
  <2> QED
    BY <2>6, <2>7, <2>8 DEF Lost
<1>6. CommittedIsApplied'
  BY <1>4, CommittedPointwiseNext DEF LogInv
<1> QED
  BY <1>3, <1>5, <1>6 DEF IInv, ReachedIsKept

\* Committing a message of an applied batch hides what the batch overtook.
LEMMA CommitNextStep ==
    ASSUME IInv, LogInv', CommitNext
    PROVE  IInv'
<1> DEFINE m == batch[acked + 1]
           p == m[1]
           k == m[2]
<1>1. /\ UNCHANGED <<base, position, batch, applied, pc>>
      /\ committed' \in {committed, [committed EXCEPT ![p] = k + 1]}
      /\ acked + 1 \in 1 .. Len(batch)
      /\ m \in Message
      /\ pc = "commit"
  BY DEF CommitNext, Replace, OffsetAfter, IInv, LogInv, TypeOK
<1>2. p \in Partitions /\ k \in Offset
  BY <1>1 DEF Message, Offset
<1>3. /\ \A q \in Partitions : committed[q] \in Int
      /\ DOMAIN committed = Partitions
  BY DEF IInv, LogInv, TypeOK, OffsetOrNone, NoOffset
<1>4. BatchIsApplied' /\ Running /\ Running'
  BY <1>1 DEF IInv, BatchIsApplied, Running
<1>5. \A q \in Partitions, o \in Offset : InBatch(<<q, o>>) => IsApplied(q, o)
  BY <1>1 DEF IInv, BatchIsApplied, InBatch, IsApplied
<1>6. \A q \in Partitions : \/ committed'[q] = committed[q]
                            \/ q = p /\ committed'[q] = k + 1
  BY <1>1, <1>3
<1>7. ASSUME NEW q \in Partitions, NEW o \in Offset,
             base[q] <= o, q = p, o <= k, ~IsApplied(q, o)
      PROVE  \E u \in Offset : /\ <<q, u>> \in Garbage
                               /\ o < u /\ u < k
                               /\ u < position[q]
                               /\ BatchAfter(q, u)
  <2>1. Reached(q, o)
    BY <1>1, <1>7 DEF Reached
  <2>2. Lost(q, o)
    BY <1>4, <1>5, <1>7, <2>1 DEF IInv, ReachedIsKept, KeptAt
  <2>3. PICK u \in Offset : /\ <<q, u>> \in Garbage /\ o < u /\ u < position[q]
                            /\ BatchAfter(q, u)
    BY <2>2 DEF Lost
  <2>4. u < k
    BY <1>1, <1>7, <2>3 DEF BatchAfter
  <2> QED
    BY <2>3, <2>4
<1>8. ASSUME NEW q \in Partitions, NEW o \in Offset PROVE CommittedAt(q, o)'
  <2>1. CommittedAt(q, o)
    BY CommittedPointwise DEF IInv, LogInv, TypeOK
  <2>2. CASE committed'[q] = committed[q]
    BY <1>1, <2>1, <2>2 DEF CommittedAt, IsApplied, Hidden
  <2>3. CASE q = p /\ committed'[q] = k + 1
    <3> SUFFICES ASSUME base[q] <= o, o < k + 1, ~IsApplied(q, o)
                 PROVE  Hidden(q, o, k + 1)
      BY <1>1, <2>3 DEF CommittedAt, IsApplied, Hidden
    <3>1. o <= k
      BY <1>2 DEF Offset
    <3>2. PICK u \in Offset : <<q, u>> \in Garbage /\ o < u /\ u < k
      BY <1>7, <2>3, <3>1
    <3>3. u \in (o + 1) .. ((k + 1) - 1)
      BY <1>2, <3>2 DEF Offset
    <3> QED
      BY <3>2, <3>3 DEF Hidden
  <2> QED
    BY <1>6, <2>2, <2>3
<1>9. ASSUME NEW q \in Partitions, NEW o \in Offset PROVE KeptAt(q, o)'
  <2> SUFFICES ASSUME base[q] <= o, Reached(q, o)', ~IsApplied(q, o)
               PROVE  Lost(q, o)'
    BY <1>1 DEF KeptAt, IsApplied
  <2>1. CASE committed'[q] = committed[q]
    <3>1. Reached(q, o)
      BY <1>1, <2>1 DEF Reached
    <3>2. Lost(q, o)
      BY <1>4, <1>5, <3>1 DEF IInv, ReachedIsKept, KeptAt
    <3> QED
      BY <1>1, <2>1, <3>2 DEF Lost, BatchAfter
  <2>2. CASE q = p /\ committed'[q] = k + 1
    <3>1. CASE o <= k
      <4>1. PICK u \in Offset : /\ <<q, u>> \in Garbage /\ o < u /\ u < k
                                /\ u < position[q] /\ BatchAfter(q, u)
        BY <1>7, <2>2, <3>1
      <4>2. u < committed'[q]
        BY <1>2, <2>2, <4>1 DEF Offset
      <4> QED
        BY <1>1, <4>1, <4>2 DEF Lost, BatchAfter
    <3>2. CASE k < o
      <4>1. Reached(q, o)
        BY <1>1, <1>2, <2>2, <3>2 DEF Reached, Offset
      <4>2. Lost(q, o)
        BY <1>4, <1>5, <4>1 DEF IInv, ReachedIsKept, KeptAt
      <4>3. PICK u \in Offset : /\ <<q, u>> \in Garbage /\ o < u
                                /\ u < position[q] /\ BatchAfter(q, u)
        BY <4>2 DEF Lost
      <4>4. FALSE
        BY <1>1, <1>2, <2>2, <3>2, <4>3 DEF BatchAfter, Offset
      <4> QED
        BY <4>4
    <3> QED
      BY <1>2, <3>1, <3>2 DEF Offset
  <2> QED
    BY <1>6, <2>1, <2>2
<1>10. CommittedIsApplied'
  BY <1>8, CommittedPointwiseNext DEF LogInv
<1> QED
  BY <1>4, <1>9, <1>10 DEF IInv, ReachedIsKept

\* Entering the partitions: below a committed offset everything is applied or
\* hidden, and a partition without one is entered past all it holds.
LEMMA AssignKeepsCommitted ==
    ASSUME IInv, LogInv', Assign, UNCHANGED <<end, committed, applied>>
    PROVE  CommittedIsApplied'
<1>1. ASSUME NEW p \in Partitions, NEW o \in Offset PROVE CommittedAt(p, o)'
  <2>1. CommittedAt(p, o)
    BY CommittedPointwise DEF IInv, LogInv, TypeOK
  <2>2. CASE committed[p] = NoOffset
    BY <2>2 DEF CommittedAt, NoOffset, Offset
  <2>3. CASE committed[p] # NoOffset
    <3>1. base'[p] = base[p]
      BY <2>3 DEF Assign
    <3> QED
      BY <2>1, <3>1 DEF CommittedAt, IsApplied, Hidden
  <2> QED
    BY <2>2, <2>3
<1> QED
  BY <1>1, CommittedPointwiseNext DEF LogInv

\* A start keeps the invariant,
LEMMA StartStep ==
    ASSUME IInv, LogInv', Start
    PROVE  IInv'
<1>1. /\ Assign /\ UNCHANGED <<end, committed, applied>>
      /\ batch' = <<>> /\ Len(batch') = 0
      /\ pc' = "poll"
  BY EmptyBatch DEF Start
<1>2. BatchIsApplied'
  BY <1>1 DEF BatchIsApplied
<1>3. CommittedIsApplied'
  BY <1>1, AssignKeepsCommitted
<1>4. ASSUME NEW p \in Partitions, NEW o \in Offset PROVE KeptAt(p, o)'
  <2> SUFFICES ASSUME base'[p] <= o, Reached(p, o)', ~IsApplied(p, o)
               PROVE  Lost(p, o)'
    BY <1>1 DEF KeptAt, IsApplied
  <2>1. o < position'[p] \/ o < committed[p]
    BY <1>1 DEF Reached
  <2>2. committed[p] \in Int /\ end[p] \in Int
    BY DEF IInv, LogInv, TypeOK, OffsetOrNone, NoOffset
  <2>3. CASE committed[p] = NoOffset
    <3>1. position'[p] = end[p] /\ base'[p] = end[p]
      BY <1>1, <2>3 DEF Assign, StartLatest
    <3> QED
      BY <2>1, <2>2, <2>3, <3>1 DEF NoOffset, Offset
  <2>4. CASE committed[p] # NoOffset
    <3>1. position'[p] = committed[p] /\ base'[p] = base[p]
      BY <1>1, <2>4 DEF Assign, StartLatest
    <3>2. Hidden(p, o, committed[p])
      BY <2>1, <3>1, CommittedPointwise DEF IInv, LogInv, TypeOK, CommittedAt
    <3>3. PICK u \in (o + 1) .. (committed[p] - 1) : <<p, u>> \in Garbage
      BY <3>2 DEF Hidden
    <3>4. u \in Offset /\ o < u /\ u < committed[p]
      BY <2>2, <3>3 DEF Message, Offset
    <3>5. BatchAfter(p, u)'
      BY <1>1 DEF BatchAfter
    <3> QED
      BY <1>1, <3>1, <3>3, <3>4, <3>5 DEF Lost
  <2> QED
    BY <2>3, <2>4
<1> QED
  BY <1>2, <1>3, <1>4 DEF IInv, ReachedIsKept

\* and so does a rebalance.
LEMMA RebalanceStep ==
    ASSUME IInv, LogInv', Rebalance
    PROVE  IInv'
<1>1. /\ Assign /\ UNCHANGED <<end, committed, applied, batch, pc>>
      /\ Running /\ pc # "commit"
  BY DEF Rebalance, Running
<1>2. BatchIsApplied'
  BY <1>1 DEF BatchIsApplied
<1>3. CommittedIsApplied'
  BY <1>1, AssignKeepsCommitted
<1>4. ASSUME NEW p \in Partitions, NEW o \in Offset PROVE KeptAt(p, o)'
  <2> SUFFICES ASSUME base'[p] <= o, Reached(p, o)', ~IsApplied(p, o), ~InBatch(<<p, o>>)
               PROVE  Lost(p, o)'
    BY <1>1 DEF KeptAt, IsApplied, InBatch
  <2>1. \/ o < position'[p]
        \/ o < committed[p]
        \/ \E i \in 1 .. Len(batch) : batch[i][1] = p /\ o <= batch[i][2]
    BY <1>1 DEF Reached
  <2>2. /\ committed[p] \in Int /\ end[p] \in Nat /\ base[p] \in Nat
        /\ base[p] <= end[p]
    BY DEF IInv, LogInv, TypeOK, OffsetsWithinLog, OffsetOrNone, NoOffset
  <2>3. CASE committed[p] = NoOffset
    <3>1. position'[p] = end[p] /\ base'[p] = end[p]
      BY <1>1, <2>3 DEF Assign, StartLatest
    <3>2. base[p] <= o /\ Reached(p, o)
      BY <2>1, <2>2, <2>3, <3>1 DEF Reached, NoOffset, Offset
    <3>3. Lost(p, o)
      BY <1>1, <3>2 DEF IInv, ReachedIsKept, KeptAt
    <3> QED
      BY <2>3, <3>3 DEF Lost, NoOffset, Offset
  <2>4. CASE committed[p] # NoOffset
    <3>1. position'[p] = committed[p] /\ base'[p] = base[p]
      BY <1>1, <2>4 DEF Assign, StartLatest
    <3>2. Reached(p, o)
      BY <2>1, <3>1 DEF Reached
    <3>3. Lost(p, o)
      BY <1>1, <3>1, <3>2 DEF IInv, ReachedIsKept, KeptAt
    <3> QED
      BY <1>1, <3>1, <3>3 DEF Lost, BatchAfter
  <2> QED
    BY <2>3, <2>4
<1> QED
  BY <1>2, <1>3, <1>4 DEF IInv, ReachedIsKept

\* A flush that ends well forgets a batch that is applied.
LEMMA FlushDoneStep ==
    ASSUME IInv, LogInv', FlushDone
    PROVE  IInv'
<1>1. /\ UNCHANGED <<end, committed, base, position, applied>>
      /\ batch' = <<>> /\ Len(batch') = 0
      /\ pc = "commit" /\ Running /\ pc' # "commit"
  BY EmptyBatch DEF FlushDone, brokerVars, Running
<1>2. BatchIsApplied'
  BY <1>1 DEF BatchIsApplied
<1>3. CommittedIsApplied'
  BY <1>1 DEF IInv, CommittedIsApplied, Hidden
<1>4. ASSUME NEW p \in Partitions, NEW o \in Offset PROVE KeptAt(p, o)'
  <2> SUFFICES ASSUME base[p] <= o, Reached(p, o)', ~IsApplied(p, o)
               PROVE  Lost(p, o)'
    BY <1>1 DEF KeptAt, IsApplied
  <2>1. Reached(p, o)
    BY <1>1 DEF Reached
  <2>2. ~InBatch(<<p, o>>)
    BY <1>1 DEF IInv, BatchIsApplied, InBatch, IsApplied
  <2>3. Lost(p, o)
    BY <1>1, <2>1, <2>2 DEF IInv, ReachedIsKept, KeptAt
  <2> QED
    BY <1>1, <2>3 DEF Lost, BatchAfter
<1> QED
  BY <1>2, <1>3, <1>4 DEF IInv, ReachedIsKept

\* A flush that raised keeps the batch, or ends the process.
LEMMA AbandonStep ==
    ASSUME IInv, LogInv', Monotone, AbandonFlush, Running,
           UNCHANGED <<committed, position, base>>
    PROVE  IInv'
<1>1. CASE final
  <2>1. ~Running' /\ batch' = <<>>
    BY <1>1 DEF AbandonFlush, Running
  <2> QED
    BY <2>1, EndingStep
<1>2. CASE ~final
  <2>1. pc' # "commit" /\ batch' = batch
    BY <1>2 DEF AbandonFlush
  <2> QED
    BY <2>1, QuietStep
<1> QED
  BY <1>1, <1>2

\* Every step keeps the invariant.
LEMMA InvStep == IInv /\ LogInv' /\ [Next]_vars => IInv'
<1> SUFFICES ASSUME IInv, LogInv', [Next]_vars PROVE IInv'
  OBVIOUS
<1>m. applied' = applied => Monotone
  BY DEF Monotone
<1>q. ASSUME UNCHANGED <<committed, position, base, batch, applied>>,
             Running, pc' # "commit" \/ pc' = pc
      PROVE  IInv'
  BY <1>q, <1>m, QuietStep DEF IInv, BatchIsApplied
<1>a. ApplyBatch => Monotone
  BY ApplyBatchType DEF IInv, LogInv, Monotone
<1>1. ASSUME NEW p \in Partitions, Publish(p) PROVE IInv'
  BY <1>1, <1>m, QuietStep
     DEF Publish, brokerVars, processVars, Running, IInv, BatchIsApplied
<1>2. ASSUME NEW p \in Partitions, PollEvent(p) PROVE IInv'
  BY <1>2, PollEventStep
<1>3. ASSUME NEW p \in Partitions, PollGarbage(p) PROVE IInv'
  BY <1>3, PollGarbageStep
<1>4. CASE Start
  BY <1>4, StartStep
<1>5. CASE PollNothing \/ Tick \/ RequestStop
  BY <1>5, <1>q DEF PollNothing, Tick, RequestStop, brokerVars, Running
<1>6. CASE LeaveLoop
  BY <1>6, <1>q DEF LeaveLoop, brokerVars, Running
<1>7. CASE Upsert
  <2>1. /\ UNCHANGED <<committed, position, base, batch>>
        /\ ApplyBatch /\ Running
    BY <1>7 DEF Upsert, brokerVars, Running
  <2>2. \A i \in 1 .. Len(batch) : applied'[batch[i]] > 0
    <3>1. \A i \in 1 .. Len(batch) : batch[i] \in Message /\ InBatch(batch[i])
      BY DEF IInv, LogInv, TypeOK, InBatch
    <3> QED
      BY <2>1, <3>1, ApplyBatchType DEF IInv, LogInv
  <2> QED
    BY <1>a, <2>1, <2>2, QuietStep
<1>8. CASE UpsertFails
  BY <1>8, <1>m, AbandonStep DEF UpsertFails, brokerVars, Running
<1>9. CASE UpsertUnknown
  BY <1>9, <1>a, AbandonStep DEF UpsertUnknown, brokerVars, Running
<1>10. CASE CommitNext
  BY <1>10, CommitNextStep
<1>11. CASE CommitRaises
  BY <1>11, <1>m, AbandonStep DEF CommitRaises, brokerVars, Running
<1>12. CASE FlushDone
  BY <1>12, FlushDoneStep
<1>13. CASE Crash
  BY <1>13, <1>m, EndingStep DEF Crash, brokerVars, Running
<1>14. CASE Rebalance
  BY <1>14, RebalanceStep
<1>15. CASE UNCHANGED vars
  BY <1>15, <1>m, QuietStep DEF vars, Running, IInv, BatchIsApplied
<1> QED
  BY <1>1, <1>2, <1>3, <1>4, <1>5, <1>6, <1>7, <1>8, <1>9, <1>10, <1>11, <1>12,
     <1>13, <1>14, <1>15 DEF Next

\* The inductive invariant: the batch being committed is applied, and whatever
\* the consumer has read past is applied, in the batch, or lost to garbage.
THEOREM InvariantHolds == Spec => []IInv
<1>1. Init => IInv
  <2> SUFFICES ASSUME Init PROVE IInv
    OBVIOUS
  <2>1. LogInv
    BY InitLog
  <2>2. BatchIsApplied /\ ReachedIsKept
    BY DEF Init, BatchIsApplied, ReachedIsKept, Running
  <2>3. CommittedIsApplied
    BY DEF Init, CommittedIsApplied, NoOffset
  <2> QED
    BY <2>1, <2>2, <2>3 DEF IInv
<1>2. IInv /\ [Next]_vars => IInv'
  BY TypeStep, LogStep, InvStep DEF IInv, LogInv
<1> QED
  BY <1>1, <1>2, PTL DEF Spec

\* Whatever precedes a committed offset, since the group entered the partition,
\* is in the aggregates or was overtaken by an undecodable message, through any
\* number of crashes, rebalances, lost commits and failed transactions
\* (services/analytics.py:3-5).
THEOREM CommittedIsAppliedHolds == Spec => []CommittedIsApplied
<1>1. IInv => CommittedIsApplied
  BY DEF IInv
<1> QED
  BY <1>1, InvariantHolds, PTL

-------------------------------------------------------------------------------
(* The consumer implements the sink.                                       *)

Stored == {m \in Message : applied[m] > 0}

\* Every step is one of the abstract sink, or none.
LEMMA StepIsSinkStep ==
    ASSUME IInv, IInv', [Next]_vars
    PROVE  Sink!Next \/ UNCHANGED <<end, base, committed, Stored>>
<1>q. ASSUME UNCHANGED <<end, base, committed, applied>>
      PROVE  UNCHANGED <<end, base, committed, Stored>>
  BY <1>q DEF Stored
<1>1. ASSUME NEW p \in Partitions, Publish(p) PROVE Sink!Next
  <2>1. /\ end[p] < MaxOffset /\ end' = Replace(end, p, end[p] + 1)
        /\ UNCHANGED <<base, committed, Stored>>
    BY <1>1 DEF Publish, Stored
  <2> QED
    BY <2>1 DEF Sink!Next, Sink!Publish, Stored, Replace, Sink!Replace
<1>2. ASSUME Assign, UNCHANGED <<end, committed, applied>> PROVE Sink!Next
  <2>1. base' = [p \in Partitions |-> IF committed[p] = NoOffset THEN end[p] ELSE base[p]]
        /\ Stored' = Stored
    BY <1>2 DEF Assign, Stored
  <2> QED
    BY <1>2, <2>1 DEF Sink!Next, Sink!Enter, Stored, NoOffset, Sink!NoOffset
<1>3. ASSUME ApplyBatch, UNCHANGED <<end, base, committed>> PROVE Sink!Next
  <2> DEFINE S == {m \in Message : InBatch(m)}
  <2>1. \A m \in S : m[2] < end[m[1]] /\ m \notin Garbage
    BY DEF InBatch, IInv, LogInv, BatchIsEvents, BatchWithinLog
  <2>2. Stored' = Stored \union S
    <3>1. \A m \in Message : applied'[m] > 0 <=> (applied[m] > 0 \/ InBatch(m))
      BY <1>3, ApplyBatchType DEF IInv, LogInv
    <3> QED
      BY <3>1 DEF Stored
  <2>3. S \in SUBSET Sink!Message
    BY DEF Sink!Message, Message
  <2> QED
    BY <1>3, <2>1, <2>2, <2>3 DEF Sink!Next, Sink!Store, Stored
<1>4. ASSUME NEW p \in Partitions, NEW c \in 1 .. MaxOffset,
             committed' = Replace(committed, p, c),
             UNCHANGED <<end, base, applied>>
      PROVE  Sink!Next
  <2>1. committed'[p] = c
    BY <1>4 DEF Replace, IInv, LogInv, TypeOK
  <2>2. c <= end[p]
    BY <1>4, <2>1 DEF IInv, LogInv, OffsetsWithinLog
  <2>3. Sink!Covered(p, c)
    <3> SUFFICES ASSUME NEW o \in base[p] .. (c - 1)
                 PROVE  <<p, o>> \in Stored \union Garbage \/ Sink!Hidden(p, o, c)
      BY DEF Sink!Covered, Stored
    <3>1. o \in Offset
      BY DEF IInv, LogInv, TypeOK, Offset
    <3>2. <<p, o>> \in Message
      BY <3>1 DEF Message, Offset
    <3>3. \/ <<p, o>> \in Garbage
          \/ applied[<<p, o>>] > 0
          \/ Hidden(p, o, c)
      BY <1>4, <2>1 DEF IInv, CommittedIsApplied, Hidden
    <3> QED
      BY <3>2, <3>3 DEF Stored, Hidden, Sink!Hidden
  <2>4. Stored' = Stored
    BY <1>4 DEF Stored
  <2> QED
    BY <1>4, <2>2, <2>3, <2>4
       DEF Sink!Next, Sink!Commit, Stored, Replace, Sink!Replace
<1>5. ASSUME NEW p \in Partitions, PollGarbage(p)
      PROVE  Sink!Next \/ UNCHANGED <<end, base, committed, Stored>>
  <2>1. position[p] + 1 \in 1 .. MaxOffset
    BY <1>5 DEF PollGarbage, IInv, LogInv, TypeOK
  <2>2. /\ UNCHANGED <<end, base, applied>>
        /\ \/ committed' = Replace(committed, p, position[p] + 1)
           \/ committed' = committed
    BY <1>5 DEF PollGarbage
  <2> QED
    BY <1>q, <1>4, <2>1, <2>2
<1>6. ASSUME CommitNext
      PROVE  Sink!Next \/ UNCHANGED <<end, base, committed, Stored>>
  <2> DEFINE m == batch[acked + 1]
  <2>1. m \in Message
    BY <1>6 DEF CommitNext, IInv, LogInv, TypeOK
  <2>2. m[1] \in Partitions /\ m[2] + 1 \in 1 .. MaxOffset
    BY <2>1 DEF Message
  <2>3. /\ UNCHANGED <<end, base, applied>>
        /\ \/ committed' = Replace(committed, m[1], m[2] + 1)
           \/ committed' = committed
    BY <1>6 DEF CommitNext, OffsetAfter
  <2> QED
    BY <1>q, <1>4, <2>2, <2>3
<1>7. CASE Start
  BY <1>2, <1>7 DEF Start
<1>8. CASE Rebalance
  BY <1>2, <1>8 DEF Rebalance
<1>9. CASE Upsert
  BY <1>3, <1>9 DEF Upsert, brokerVars
<1>10. CASE UpsertUnknown
  BY <1>3, <1>10 DEF UpsertUnknown, brokerVars
<1>11. ASSUME NEW p \in Partitions, PollEvent(p)
       PROVE  UNCHANGED <<end, base, committed, Stored>>
  BY <1>q, <1>11 DEF PollEvent, brokerVars
<1>12. CASE PollNothing \/ Tick \/ RequestStop \/ LeaveLoop
  BY <1>q, <1>12 DEF PollNothing, Tick, RequestStop, LeaveLoop, brokerVars
<1>13. CASE UpsertFails \/ CommitRaises \/ FlushDone \/ Crash
  BY <1>q, <1>13 DEF UpsertFails, CommitRaises, FlushDone, Crash, brokerVars
<1>14. CASE UNCHANGED vars
  BY <1>q, <1>14 DEF vars
<1> QED
  BY <1>1, <1>5, <1>6, <1>7, <1>8, <1>9, <1>10, <1>11, <1>12, <1>13, <1>14 DEF Next

\* Every behaviour of the consumer is one of the sink: a step that moves a
\* committed offset moves it past stored events only, up to the garbage
\* exception of the sink (README.md:89-100).
THEOREM AnalyticsImplementsSink == Spec => ImplementsSink
<1>1. Init => Sink!Init
  BY DEF Init, Sink!Init, NoOffset, Sink!NoOffset
<1>2. IInv /\ IInv' /\ [Next]_vars => [Sink!Next]_(Sink!sinkVars)
  BY StepIsSinkStep DEF Sink!sinkVars, Stored
<1> QED
  BY <1>1, <1>2, InvariantHolds, PTL DEF Spec, ImplementsSink, Sink!Spec

-------------------------------------------------------------------------------
(* Counted once.  Without a fault, what is counted is committed, or its    *)
(* commit is due in the loop under way; the commit of a garbage message    *)
(* runs ahead of the batch, whose own commits take the offset back, so it  *)
(* also takes that nothing counted lies between.                           *)

\* Messages of the batch the commit loop has still before it.
Pending == acked + 1 .. Len(batch)

BeingCommitted(m) == pc = "commit" /\ \E i \in Pending : batch[i] = m

BatchOrdered ==
    /\ pc # "commit" => acked = 0
    /\ Running => \A p \in Partitions : committed[p] <= position[p]
    /\ \A i \in 1 .. Len(batch) : batch[i][2] < position[batch[i][1]]
    /\ \A i, j \in 1 .. Len(batch) :
          i < j /\ batch[i][1] = batch[j][1] => batch[i][2] < batch[j][2]

CountedIsCommitted ==
    \A m \in Message : applied[m] > 0 => m[2] < committed[m[1]] \/ BeingCommitted(m)

CountedBeforePending ==
    \A m \in Message : \A i \in Pending :
        applied[m] > 0 /\ m[1] = batch[i][1] => m[2] < batch[i][2] \/ BeingCommitted(m)

CountedOnce == \A m \in Message : applied[m] <= 1

CountParts == BatchOrdered /\ CountedIsCommitted /\ CountedBeforePending /\ CountedOnce

CountInv == faults = 0 => CountParts

\* Parts of the messages of the batch.
LEMMA BatchMessage ==
    ASSUME TypeOK, NEW i \in 1 .. Len(batch)
    PROVE  batch[i] \in Message /\ batch[i][1] \in Partitions /\ batch[i][2] \in Int
<1>1. batch[i] \in Message
  BY DEF TypeOK
<1> QED
  BY <1>1 DEF Message

\* Steps that move no offset, and keep the batch, the counts and the progress
\* of the commits.
LEMMA CountQuiet ==
    ASSUME CountParts, UNCHANGED <<committed, position, batch, acked, applied>>,
           Running' => Running, pc' = "commit" <=> pc = "commit"
    PROVE  CountParts'
<1> USE DEF CountParts
<1>1. BatchOrdered'
  BY DEF BatchOrdered
<1>2. Pending' = Pending /\ \A m : BeingCommitted(m)' <=> BeingCommitted(m)
  BY DEF BeingCommitted, Pending
<1>3. CountedIsCommitted'
  BY <1>2 DEF CountedIsCommitted
<1>4. CountedBeforePending'
  BY <1>2 DEF CountedBeforePending
<1>5. CountedOnce'
  BY DEF CountedOnce
<1> QED
  BY <1>1, <1>3, <1>4, <1>5

\* Steps that drop a batch none of which awaits its commit.
LEMMA CountDropped ==
    ASSUME TypeOK, CountParts, UNCHANGED <<committed, applied>>,
           batch' = <<>>, acked' = 0, pc' # "commit",
           pc = "commit" => acked = Len(batch),
           Running' => \A p \in Partitions : committed[p] <= position'[p]
    PROVE  CountParts'
<1> USE DEF CountParts
<1>1. Pending' = {} /\ Len(batch') = 0
  BY EmptyBatch DEF Pending
<1>2. BatchOrdered'
  BY <1>1 DEF BatchOrdered
<1>3. \A m : ~ BeingCommitted(m)
  BY DEF BeingCommitted, Pending, TypeOK
<1>4. CountedIsCommitted'
  BY <1>3 DEF CountedIsCommitted
<1>5. CountedBeforePending'
  BY <1>1 DEF CountedBeforePending
<1>6. CountedOnce'
  BY DEF CountedOnce
<1> QED
  BY <1>2, <1>4, <1>5, <1>6

\* What is counted outside the commit loop was read.
LEMMA CountedIsRead ==
    ASSUME TypeOK, CountParts, pc = "poll", NEW m \in Message, applied[m] > 0
    PROVE  m[2] < position[m[1]] /\ m[2] < committed[m[1]]
<1>1. m[1] \in Partitions /\ m[2] \in Int
  BY DEF Message
<1>2. m[2] < committed[m[1]]
  BY DEF CountParts, CountedIsCommitted, BeingCommitted
<1>3. committed[m[1]] <= position[m[1]] /\ committed[m[1]] \in Int /\ position[m[1]] \in Int
  BY <1>1 DEF CountParts, BatchOrdered, Running, TypeOK, OffsetOrNone, NoOffset
<1> QED
  BY <1>1, <1>2, <1>3

\* An event that is read follows what is counted and what the batch holds.
LEMMA CountPollEvent ==
    ASSUME TypeOK, CountParts, NEW p \in Partitions, PollEvent(p)
    PROVE  CountParts'
<1> USE DEF CountParts
<1> DEFINE n == Len(batch)
           new == <<p, position[p]>>
<1>1. /\ position' = [position EXCEPT ![p] = position[p] + 1]
      /\ UNCHANGED <<committed, acked, applied>>
      /\ acked = 0 /\ pc = "poll" /\ Running /\ pc' # "commit"
  BY DEF PollEvent, Replace, brokerVars, Running, BatchOrdered, AfterPoll
<1>2. /\ n \in Nat /\ Len(batch') = n + 1
      /\ \A i \in 1 .. n : batch'[i] = batch[i]
      /\ batch'[n + 1] = new
      /\ new \in Message
  <2>1. new \in Message
    BY DEF PollEvent, TypeOK, Message
  <2> QED
    BY <2>1 DEF PollEvent, TypeOK
<1>3. \A q \in Partitions :
         /\ position[q] \in Int /\ committed[q] \in Int
         /\ position'[q] = IF q = p THEN position[p] + 1 ELSE position[q]
  BY <1>1 DEF TypeOK, OffsetOrNone, NoOffset
<1>4. \A i \in 1 .. n :
         batch[i][1] \in Partitions /\ batch[i][2] \in Int /\ batch[i][2] < position[batch[i][1]]
  BY BatchMessage DEF BatchOrdered
<1>5. \A i \in 1 .. n + 1 : i \in 1 .. n \/ i = n + 1
  BY <1>2
<1>6. BatchOrdered'
  <2>1. \A q \in Partitions : committed'[q] <= position'[q]
    BY <1>1, <1>3 DEF BatchOrdered
  <2>2. \A i \in 1 .. n + 1 : batch'[i][2] < position'[batch'[i][1]]
    BY <1>2, <1>3, <1>4, <1>5, SMTT(30)
  <2>3. ASSUME NEW i \in 1 .. n + 1, NEW j \in 1 .. n + 1, i < j, batch'[i][1] = batch'[j][1]
        PROVE  batch'[i][2] < batch'[j][2]
    <3>1. i \in 1 .. n
      BY <1>2, <2>3
    <3>2. CASE j \in 1 .. n
      BY <1>2, <2>3, <3>1, <3>2 DEF BatchOrdered
    <3>3. CASE j = n + 1
      BY <1>2, <1>4, <2>3, <3>1, <3>3
    <3> QED
      BY <1>5, <3>2, <3>3
  <2> QED
    BY <1>1, <1>2, <2>1, <2>2, <2>3 DEF BatchOrdered
<1>7. CountedIsCommitted'
  BY <1>1, CountedIsRead DEF CountedIsCommitted
<1>8. CountedBeforePending'
  <2> SUFFICES ASSUME NEW m \in Message, NEW i \in 1 .. n + 1,
                      applied[m] > 0, m[1] = batch'[i][1]
               PROVE  m[2] < batch'[i][2]
    BY <1>1, <1>2 DEF CountedBeforePending, Pending
  <2>1. CASE i \in 1 .. n
    <3>1. i \in Pending /\ ~ BeingCommitted(m)
      BY <1>1, <2>1 DEF Pending, BeingCommitted
    <3> QED
      BY <1>2, <2>1, <3>1 DEF CountedBeforePending
  <2>2. CASE i = n + 1
    BY <1>1, <1>2, <2>2, CountedIsRead
  <2> QED
    BY <1>5, <2>1, <2>2
<1>9. CountedOnce'
  BY <1>1 DEF CountedOnce
<1> QED
  BY <1>6, <1>7, <1>8, <1>9

\* The commit of a garbage message that is read moves the offset up.
LEMMA CountPollGarbage ==
    ASSUME TypeOK, CountParts, NEW p \in Partitions, PollGarbage(p), faults' = faults
    PROVE  CountParts'
<1> USE DEF CountParts
<1>1. /\ position' = [position EXCEPT ![p] = position[p] + 1]
      /\ committed' = [committed EXCEPT ![p] = position[p] + 1]
      /\ UNCHANGED <<batch, acked, applied>>
      /\ pc = "poll" /\ Running /\ pc' # "commit"
  BY DEF PollGarbage, Replace, Running, AfterPoll, TypeOK
<1>2. \A q \in Partitions :
         /\ position[q] \in Int /\ committed[q] \in Int /\ committed[q] <= position[q]
         /\ position'[q] = IF q = p THEN position[p] + 1 ELSE position[q]
         /\ committed'[q] = IF q = p THEN position[p] + 1 ELSE committed[q]
  BY <1>1 DEF TypeOK, OffsetOrNone, NoOffset, BatchOrdered
<1>3. BatchOrdered'
  <2>1. \A q \in Partitions : committed'[q] <= position'[q]
    BY <1>2
  <2>2. \A i \in 1 .. Len(batch) : batch[i][2] < position'[batch[i][1]]
    <3>1. \A i \in 1 .. Len(batch) :
             batch[i][1] \in Partitions /\ batch[i][2] \in Int /\ batch[i][2] < position[batch[i][1]]
      BY BatchMessage DEF BatchOrdered
    <3> QED
      BY <1>2, <3>1
  <2> QED
    BY <1>1, <2>1, <2>2 DEF BatchOrdered
<1>4. CountedIsCommitted'
  <2> SUFFICES ASSUME NEW m \in Message, applied[m] > 0 PROVE m[2] < committed'[m[1]]
    BY <1>1 DEF CountedIsCommitted
  <2>1. m[1] \in Partitions /\ m[2] \in Int /\ m[2] < committed[m[1]]
    BY <1>1, CountedIsRead DEF Message
  <2> QED
    BY <1>2, <2>1
<1>5. CountedBeforePending'
  BY <1>1 DEF CountedBeforePending, Pending, BeingCommitted
<1>6. CountedOnce'
  BY <1>1 DEF CountedOnce
<1> QED
  BY <1>3, <1>4, <1>5, <1>6

\* The events of a batch are counted once each, and were not counted before.
LEMMA CountUpsert ==
    ASSUME TypeOK, CountParts, Upsert
    PROVE  CountParts'
<1> USE DEF CountParts
<1>1. /\ UNCHANGED <<committed, position, batch>>
      /\ acked = 0 /\ acked' = 0 /\ pc = "upsert" /\ Running /\ pc' = "commit"
      /\ ApplyBatch
  BY DEF Upsert, Running, BatchOrdered, brokerVars
<1>2. Pending = 1 .. Len(batch) /\ Pending' = Pending /\ Len(batch) \in Nat
  BY <1>1 DEF Pending, TypeOK
<1>3. \A m : ~ BeingCommitted(m) /\ (BeingCommitted(m)' <=> InBatch(m))
  BY <1>1, <1>2 DEF BeingCommitted, InBatch
<1>4. \A m \in Message : InBatch(m) => ~ (applied[m] > 0)
  <2> SUFFICES ASSUME NEW m \in Message, InBatch(m), applied[m] > 0 PROVE FALSE
    OBVIOUS
  <2>1. PICK i \in Pending : batch[i] = m
    BY <1>2 DEF InBatch
  <2>2. m[2] < m[2]
    BY <1>3, <2>1 DEF CountedBeforePending
  <2> QED
    BY <2>2 DEF Message
<1>5. BatchOrdered'
  BY <1>1 DEF BatchOrdered, Running
<1>6. ASSUME NEW m \in Message, applied'[m] > 0
      PROVE  applied[m] > 0 \/ InBatch(m)
  BY <1>1, <1>6, ApplyBatchType
<1>7. CountedIsCommitted'
  BY <1>1, <1>3, <1>6 DEF CountedIsCommitted
<1>8. CountedBeforePending'
  BY <1>1, <1>2, <1>3, <1>6 DEF CountedBeforePending
<1>9. CountedOnce'
  <2> SUFFICES ASSUME NEW m \in Message PROVE applied'[m] <= 1
    BY DEF CountedOnce
  <2>1. CASE ~ InBatch(m)
    BY <1>1, <2>1, ApplyBatchType DEF CountedOnce
  <2>2. CASE InBatch(m)
    <3> DEFINE I == {i \in 1 .. Len(batch) : batch[i] = m}
    <3>1. PICK k \in 1 .. Len(batch) : batch[k] = m
      BY <2>2 DEF InBatch
    <3>2. \A i \in 1 .. Len(batch) : batch[i] = m => i = k
      <4> SUFFICES ASSUME NEW i \in 1 .. Len(batch), batch[i] = m, i # k PROVE FALSE
        OBVIOUS
      <4>1. i < k \/ k < i
        OBVIOUS
      <4>2. m[2] < m[2]
        BY <3>1, <4>1 DEF BatchOrdered
      <4> QED
        BY <4>2 DEF Message
    <3>3. I = {k}
      BY <3>1, <3>2
    <3>4. Copies(m) = 1
      BY <3>3, FS_Singleton DEF Copies
    <3>5. applied[m] = 0
      BY <1>4, <2>2 DEF TypeOK
    <3>6. applied'[m] = applied[m] + Copies(m)
      BY <1>1 DEF ApplyBatch
    <3> QED
      BY <3>4, <3>5, <3>6
  <2> QED
    BY <2>1, <2>2
<1> QED
  BY <1>5, <1>7, <1>8, <1>9

\* A commit of the batch leaves behind the offset whatever is counted, also
\* when it takes the offset back from where a garbage message had moved it.
LEMMA CountCommitNext ==
    ASSUME TypeOK, CountParts, CommitNext, faults' = faults
    PROVE  CountParts'
<1> USE DEF CountParts
<1> DEFINE k == acked + 1
           m == batch[k]
<1>1. /\ k \in Pending /\ k \in 1 .. Len(batch)
      /\ m[1] \in Partitions /\ m[2] \in Int
      /\ pc = "commit" /\ Running
  BY BatchMessage DEF CommitNext, TypeOK, Pending, Running
<1>2. /\ UNCHANGED <<position, batch, pc, applied>>
      /\ acked' = k
      /\ committed' = [committed EXCEPT ![m[1]] = m[2] + 1]
  BY DEF CommitNext, OffsetAfter, Replace, TypeOK
<1>3. /\ Pending' = Pending \ {k}
      /\ \A i \in Pending : i \in 1 .. Len(batch) /\ (i = k \/ (i \in Pending' /\ k < i))
  BY <1>2 DEF Pending, TypeOK
<1>4. \A p \in Partitions :
         /\ committed[p] \in Int /\ position[p] \in Int
         /\ committed'[p] = IF p = m[1] THEN m[2] + 1 ELSE committed[p]
  BY <1>1, <1>2 DEF TypeOK, OffsetOrNone, NoOffset
<1>5. \A x : BeingCommitted(x) => x = m \/ BeingCommitted(x)'
  BY <1>1, <1>2, <1>3 DEF BeingCommitted
<1>6. BatchOrdered'
  <2>1. \A p \in Partitions : committed'[p] <= position'[p]
    <3>1. m[2] < position[m[1]]
      BY <1>1 DEF BatchOrdered
    <3> QED
      BY <1>1, <1>2, <1>4, <3>1 DEF BatchOrdered
  <2> QED
    BY <1>1, <1>2, <2>1 DEF BatchOrdered
<1>7. CountedIsCommitted'
  <2> SUFFICES ASSUME NEW x \in Message, applied[x] > 0
               PROVE  x[2] < committed'[x[1]] \/ BeingCommitted(x)'
    BY <1>2 DEF CountedIsCommitted
  <2>1. x[1] \in Partitions /\ x[2] \in Int
    BY DEF Message
  <2>2. CASE x[1] # m[1]
    <3>1. x # m
      BY <2>2
    <3> QED
      BY <1>4, <1>5, <2>1, <2>2, <3>1 DEF CountedIsCommitted
  <2>3. CASE x[1] = m[1]
    <3>1. x[2] < m[2] \/ BeingCommitted(x)
      BY <1>1, <2>3 DEF CountedBeforePending
    <3> QED
      BY <1>1, <1>4, <1>5, <2>1, <2>3, <3>1
  <2> QED
    BY <2>2, <2>3
<1>8. CountedBeforePending'
  <2> SUFFICES ASSUME NEW x \in Message, NEW i \in Pending', applied[x] > 0, x[1] = batch[i][1]
               PROVE  x[2] < batch[i][2] \/ BeingCommitted(x)'
    BY <1>2 DEF CountedBeforePending
  <2>1. i \in Pending /\ i \in 1 .. Len(batch) /\ k < i
    BY <1>3
  <2>2. x[2] < batch[i][2] \/ BeingCommitted(x)
    BY <2>1 DEF CountedBeforePending
  <2>3. x = m => x[2] < batch[i][2]
    BY <1>1, <2>1 DEF BatchOrdered
  <2> QED
    BY <1>5, <2>2, <2>3
<1>9. CountedOnce'
  BY <1>2 DEF CountedOnce
<1> QED
  BY <1>6, <1>7, <1>8, <1>9

\* Every step without a fault keeps the parts of the invariant.
LEMMA CountStep == TypeOK /\ CountInv /\ [Next]_vars => CountInv'
<1> SUFFICES ASSUME TypeOK, CountInv, [Next]_vars, faults' = 0 PROVE CountParts'
  BY DEF CountInv
<1>0. faults \in Nat
  BY DEF TypeOK
<1>1. ASSUME faults' = faults PROVE CountParts
  BY <1>1 DEF CountInv
<1>2. ASSUME UNCHANGED <<committed, position, batch, acked, applied, faults>>,
             Running' => Running, pc' = "commit" <=> pc = "commit"
      PROVE  CountParts'
  BY <1>1, <1>2, CountQuiet
<1>3. ASSUME NEW p \in Partitions, Publish(p) PROVE CountParts'
  BY <1>2, <1>3 DEF Publish, processVars, Running
<1>4. ASSUME NEW p \in Partitions, PollEvent(p) PROVE CountParts'
  BY <1>1, <1>4, CountPollEvent DEF PollEvent
<1>5. ASSUME NEW p \in Partitions, PollGarbage(p) PROVE CountParts'
  <2>1. faults' = faults
    BY <1>0, <1>5 DEF PollGarbage
  <2> QED
    BY <1>1, <1>5, <2>1, CountPollGarbage
<1>6. CASE Start
  <2>1. \A p \in Partitions : committed[p] <= position'[p]
    BY <1>6 DEF Start, Assign, StartLatest, TypeOK, OffsetOrNone, NoOffset
  <2> QED
    BY <1>1, <1>6, <2>1, CountDropped DEF Start, Running
<1>7. CASE Upsert
  BY <1>1, <1>7, CountUpsert DEF Upsert
<1>8. CASE UpsertFails
  <2>1. CountParts /\ acked = 0
    BY <1>1, <1>8 DEF UpsertFails, CountParts, BatchOrdered
  <2>2. CASE final
    BY <1>8, <2>1, <2>2, CountDropped DEF UpsertFails, AbandonFlush, Running, brokerVars
  <2>3. CASE ~final
    BY <1>2, <1>8, <2>1, <2>3 DEF UpsertFails, AbandonFlush, Running, brokerVars
  <2> QED
    BY <2>2, <2>3
<1>9. CASE CommitNext
  <2>1. faults' = faults
    BY <1>0, <1>9 DEF CommitNext
  <2> QED
    BY <1>1, <1>9, <2>1, CountCommitNext
<1>10. CASE FlushDone
  <2>1. CountParts /\ Running
    BY <1>1, <1>10 DEF FlushDone, Running
  <2>2. \A p \in Partitions : committed[p] <= position'[p]
    BY <1>10, <2>1 DEF FlushDone, CountParts, BatchOrdered
  <2> QED
    BY <1>10, <2>1, <2>2, CountDropped DEF FlushDone, brokerVars
<1>11. ~ UpsertUnknown /\ ~ CommitRaises /\ ~ Crash /\ ~ Rebalance
  BY <1>0 DEF UpsertUnknown, CommitRaises, Crash, Rebalance
<1>12. CASE PollNothing \/ Tick \/ RequestStop \/ LeaveLoop
  BY <1>2, <1>12 DEF PollNothing, Tick, RequestStop, LeaveLoop, Running, brokerVars
<1>13. CASE UNCHANGED vars
  BY <1>2, <1>13 DEF vars, Running
<1> QED
  BY <1>3, <1>4, <1>5, <1>6, <1>7, <1>8, <1>9, <1>10, <1>11, <1>12, <1>13 DEF Next

\* Nothing is counted twice as long as there is no crash, rebalance, lost or
\* refused commit and no transaction of unknown outcome, whatever transactions
\* fail and however often the process is stopped and started again
\* (services/analytics.py:92-97).
THEOREM CountedOnceHolds == Spec => []CountedOnceWithoutFaults
<1>1. Init => TypeOK /\ CountInv
  <2> SUFFICES ASSUME Init PROVE CountParts
    BY InitType DEF CountInv
  <2>1. Pending = {} /\ Len(batch) = 0
    BY EmptyBatch DEF Init, Pending
  <2>2. BatchOrdered
    BY <2>1 DEF Init, BatchOrdered, Running
  <2>3. CountedIsCommitted /\ CountedBeforePending /\ CountedOnce
    BY DEF Init, CountedIsCommitted, CountedBeforePending, CountedOnce
  <2> QED
    BY <2>2, <2>3 DEF CountParts
<1>2. TypeOK /\ CountInv /\ [Next]_vars => (TypeOK /\ CountInv)'
  BY TypeStep, CountStep
<1>3. CountInv => CountedOnceWithoutFaults
  BY DEF CountInv, CountParts, CountedOnce, CountedOnceWithoutFaults
<1> QED
  BY <1>1, <1>2, <1>3, PTL DEF Spec

-------------------------------------------------------------------------------
(* The vandalism consumer, whose flushes store nothing for some messages.  *)

CONSTANTS Score, Threshold     \* those of Vandalism

Vandals == INSTANCE Vandalism WITH flagged <- applied

\* What the loop of Vandalism tells apart is what that of Analytics does.
LEMMA VandalTerms ==
    ASSUME Silent = Vandals!Skipped
    PROVE  /\ Vandals!Consumer!Message = Message /\ Vandals!Consumer!NoOffset = NoOffset
           /\ Vandals!Consumer!Running <=> Running
           /\ Vandals!Consumer!Poisoned <=> Poisoned
           /\ Vandals!Consumer!Stores <=> Stores
           /\ \A m : Vandals!Consumer!Copies(m) = Copies(m)
           /\ \A m : Vandals!Consumer!OffsetAfter(m) = OffsetAfter(m)
           /\ \A b : Vandals!Consumer!FlushNow(b) <=> FlushNow(b)
           /\ \A b : Vandals!Consumer!AfterPoll(b) = AfterPoll(b)
           /\ \A f, p, v : Vandals!Consumer!Replace(f, p, v) = Replace(f, p, v)
           /\ \A c, e : Vandals!Consumer!StartLatest(c, e) = StartLatest(c, e)
<1>1. /\ Vandals!Consumer!Message = Message /\ Vandals!Consumer!NoOffset = NoOffset
      /\ Vandals!Consumer!Running <=> Running
      /\ Vandals!Consumer!Poisoned <=> Poisoned
  BY DEF Vandals!Consumer!Message, Message, Vandals!Consumer!NoOffset, NoOffset,
         Vandals!Consumer!Running, Running, Vandals!Consumer!Poisoned, Poisoned
<1>2. Vandals!Consumer!Stores <=> Stores
  BY DEF Vandals!Consumer!Stores, Stores
<1>3. \A S : Vandals!Consumer!Cardinality(S) = Cardinality(S)
  BY DEF Vandals!Consumer!Cardinality, Cardinality
<1>4. /\ \A m : Vandals!Consumer!Copies(m) = Copies(m)
      /\ \A m : Vandals!Consumer!OffsetAfter(m) = OffsetAfter(m)
  BY <1>3 DEF Vandals!Consumer!Copies, Copies, Vandals!Consumer!OffsetAfter, OffsetAfter
<1>5. \A b : Vandals!Consumer!FlushNow(b) <=> FlushNow(b)
  BY DEF Vandals!Consumer!FlushNow, FlushNow
<1>6. \A b : Vandals!Consumer!AfterPoll(b) = AfterPoll(b)
  BY <1>5 DEF Vandals!Consumer!AfterPoll, AfterPoll
<1>7. \A f, p, v : Vandals!Consumer!Replace(f, p, v) = Replace(f, p, v)
  BY DEF Vandals!Consumer!Replace, Replace
<1>8. \A c, e : Vandals!Consumer!StartLatest(c, e) = StartLatest(c, e)
  BY <1>1 DEF Vandals!Consumer!StartLatest, StartLatest
<1> QED
  BY <1>1, <1>2, <1>4, <1>5, <1>6, <1>7, <1>8

\* Every step of Vandalism is one of Analytics.
LEMMA VandalStep ==
    ASSUME Silent = Vandals!Skipped, Vandals!Next
    PROVE  Next
<1> USE DEF Vandals!Consumer!brokerVars, brokerVars, Vandals!Consumer!processVars, processVars
<1>1. /\ Vandals!Consumer!Assign <=> Assign
      /\ Vandals!Consumer!ApplyBatch <=> ApplyBatch
      /\ Vandals!Consumer!AbandonFlush <=> AbandonFlush
  BY VandalTerms DEF Vandals!Consumer!Assign, Assign, Vandals!Consumer!ApplyBatch, ApplyBatch,
                     Vandals!Consumer!AbandonFlush, AbandonFlush
<1>2. CASE Vandals!Start
  <2>1. Start
    BY <1>1, <1>2, VandalTerms DEF Vandals!Start, Vandals!Consumer!Start, Start
  <2> QED
    BY <2>1 DEF Next
<1>3. CASE Vandals!Poll
  <2>1. PICK p \in Partitions : Vandals!Consumer!PollEvent(p) \/ Vandals!Consumer!PollGarbage(p)
    BY <1>3 DEF Vandals!Poll
  <2>2. CASE Vandals!Consumer!PollEvent(p)
    BY <2>2, VandalTerms DEF Vandals!Consumer!PollEvent, PollEvent, Next
  <2>3. CASE Vandals!Consumer!PollGarbage(p)
    BY <2>3, VandalTerms DEF Vandals!Consumer!PollGarbage, PollGarbage, Next
  <2> QED
    BY <2>1, <2>2, <2>3 DEF Next
<1>4. CASE Vandals!PollNothing
  <2>1. PollNothing \/ Tick
    BY <1>4, VandalTerms
       DEF Vandals!PollNothing, Vandals!Consumer!PollNothing, PollNothing, Vandals!Consumer!Tick, Tick
  <2> QED
    BY <2>1 DEF Next
<1>5. CASE Vandals!Persist
  <2>1. Upsert
    BY <1>1, <1>5, VandalTerms DEF Vandals!Persist, Vandals!Consumer!Upsert, Upsert
  <2> QED
    BY <2>1 DEF Next
<1>6. CASE Vandals!PersistRaises
  <2>1. CASE Vandals!Consumer!UpsertFails
    BY <1>1, <2>1, VandalTerms DEF Vandals!Consumer!UpsertFails, UpsertFails, Next
  <2>2. CASE Vandals!Consumer!UpsertUnknown
    BY <1>1, <2>2, VandalTerms DEF Vandals!Consumer!UpsertUnknown, UpsertUnknown, Next
  <2> QED
    BY <1>6, <2>1, <2>2 DEF Vandals!PersistRaises, Next
<1>7. CASE Vandals!Commit
  <2>1. CASE Vandals!Consumer!CommitNext
    BY <2>1, VandalTerms DEF Vandals!Consumer!CommitNext, CommitNext, Next
  <2>2. CASE Vandals!Consumer!FlushDone
    BY <2>2 DEF Vandals!Consumer!FlushDone, FlushDone, Next
  <2> QED
    BY <1>7, <2>1, <2>2 DEF Vandals!Commit, Next
<1>8. CASE Vandals!CommitRaises
  <2>1. CommitRaises
    BY <1>1, <1>8 DEF Vandals!CommitRaises, Vandals!Consumer!CommitRaises, CommitRaises
  <2> QED
    BY <2>1 DEF Next
<1>9. CASE Vandals!LeaveLoop \/ Vandals!RequestStop
  <2>1. LeaveLoop \/ RequestStop
    BY <1>9, VandalTerms DEF Vandals!LeaveLoop, Vandals!Consumer!LeaveLoop, LeaveLoop,
                Vandals!RequestStop, Vandals!Consumer!RequestStop, RequestStop
  <2> QED
    BY <2>1 DEF Next
<1>10. CASE Vandals!Environment
  <2>1. ASSUME NEW p \in Partitions, Vandals!Consumer!Publish(p)
        PROVE  Publish(p)
    BY <2>1, VandalTerms DEF Vandals!Consumer!Publish, Publish
  <2>2. CASE Vandals!Consumer!Crash
    BY <2>2, VandalTerms DEF Vandals!Consumer!Crash, Crash, Next
  <2>3. CASE Vandals!Consumer!Rebalance
    BY <1>1, <2>3 DEF Vandals!Consumer!Rebalance, Rebalance, Next
  <2> QED
    BY <1>10, <2>1, <2>2, <2>3 DEF Vandals!Environment, Next
<1> QED
  BY <1>2, <1>3, <1>4, <1>5, <1>6, <1>7, <1>8, <1>9, <1>10 DEF Vandals!Next

\* The abstract sink of the one is that of the other.
LEMMA VandalSink ==
    /\ Vandals!Consumer!Sink!Init <=> Sink!Init
    /\ Vandals!Consumer!Sink!Next <=> Sink!Next
    /\ (UNCHANGED Vandals!Consumer!Sink!sinkVars) <=> (UNCHANGED Sink!sinkVars)
<1>1. /\ Vandals!Consumer!Message = Message
      /\ Vandals!Consumer!Sink!Message = Sink!Message
      /\ Vandals!Consumer!Sink!NoOffset = Sink!NoOffset
      /\ \A f, p, v : Vandals!Consumer!Sink!Replace(f, p, v) = Sink!Replace(f, p, v)
      /\ \A p, o, c : Vandals!Consumer!Sink!Hidden(p, o, c) <=> Sink!Hidden(p, o, c)
  BY DEF Vandals!Consumer!Message, Message, Vandals!Consumer!Sink!Message, Sink!Message,
         Vandals!Consumer!Sink!NoOffset, Sink!NoOffset, Vandals!Consumer!Sink!Replace,
         Sink!Replace, Vandals!Consumer!Sink!Hidden, Sink!Hidden
<1>2. \A p, c : Vandals!Consumer!Sink!Covered(p, c) <=> Sink!Covered(p, c)
  BY <1>1 DEF Vandals!Consumer!Sink!Covered, Sink!Covered
<1>3. Vandals!Consumer!Sink!Init <=> Sink!Init
  BY <1>1 DEF Vandals!Consumer!Sink!Init, Sink!Init
<1>4. /\ Vandals!Consumer!Sink!Publish <=> Sink!Publish
      /\ Vandals!Consumer!Sink!Enter <=> Sink!Enter
  BY <1>1 DEF Vandals!Consumer!Sink!Publish, Sink!Publish, Vandals!Consumer!Sink!Enter, Sink!Enter
<1>5. Vandals!Consumer!Sink!Store <=> Sink!Store
  BY <1>1 DEF Vandals!Consumer!Sink!Store, Sink!Store
<1>6. Vandals!Consumer!Sink!Commit <=> Sink!Commit
  BY <1>1, <1>2 DEF Vandals!Consumer!Sink!Commit, Sink!Commit
<1>7. Vandals!Consumer!Sink!Next <=> Sink!Next
  BY <1>4, <1>5, <1>6 DEF Vandals!Consumer!Sink!Next, Sink!Next
<1>8. (UNCHANGED Vandals!Consumer!Sink!sinkVars) <=> (UNCHANGED Sink!sinkVars)
  BY <1>1 DEF Vandals!Consumer!Sink!sinkVars, Sink!sinkVars
<1> QED
  BY <1>3, <1>7, <1>8

\* A consumer with skipped messages implements the sink as well, for every
\* scoring and every threshold (vandalism.py:4-5).
THEOREM VandalismImplementsSink ==
    ASSUME Silent = Vandals!Skipped
    PROVE  Vandals!Spec => Vandals!ImplementsSink
<1>1. Vandals!Init => Init
  BY VandalTerms DEF Vandals!Init, Vandals!Consumer!Init, Init
<1>2. [Vandals!Next]_(Vandals!vars) => [Next]_vars
  BY VandalStep DEF Vandals!vars, Vandals!Consumer!vars, vars
<1>3. Vandals!Spec => Spec
  BY <1>1, <1>2, PTL DEF Vandals!Spec, Spec
<1>4. /\ Sink!Init => Vandals!Consumer!Sink!Init
      /\ [Sink!Next]_(Sink!sinkVars)
             => [Vandals!Consumer!Sink!Next]_(Vandals!Consumer!Sink!sinkVars)
  BY VandalSink
<1>5. Sink!Spec => Vandals!Consumer!Sink!Spec
  BY <1>4, PTL DEF Sink!Spec, Vandals!Consumer!Sink!Spec
<1> QED
  BY <1>3, <1>5, AnalyticsImplementsSink, PTL DEF ImplementsSink, Vandals!ImplementsSink
===============================================================================
