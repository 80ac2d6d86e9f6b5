------------------------------ MODULE Analytics ------------------------------
(***************************************************************************)
(* The analytics consumer (services/analytics.py): wiki.analytics into the *)
(* hourly aggregate tables of PostgreSQL.  One process, one batch in       *)
(* memory; the DB transaction is committed first, then the offset of each  *)
(* message of the batch, one by one.                                       *)
(*                                                                         *)
(* A message is a pair <<partition, offset>>.  Garbage messages do not     *)
(* decode (kafka/client.py:31-38); Poison messages decode and make every   *)
(* transaction that holds one fail; Silent messages need nothing stored    *)
(* (none here: every event counts; module Vandalism has some).  `applied`  *)
(* counts how often a message was added to the aggregates: the upserts are *)
(* additive increments, so it is the factor by which the event is counted. *)
(*                                                                         *)
(* Bounds: MaxOffset (log length), MaxFaults (crashes, rebalances, lost or *)
(* refused commits, transactions whose outcome is unknown), MaxFailures    *)
(* (failed transactions; those a Poison message causes are unlimited).     *)
(***************************************************************************)
EXTENDS KafkaGroup, Sequences, FiniteSets

CONSTANTS
    Partitions,    \* partitions of wiki.analytics
    MaxOffset,     \* bound: messages per partition
    Garbage,       \* messages that do not decode
    Poison,        \* messages the store always refuses
    Silent,        \* messages a flush stores nothing for
    BatchSize,     \* settings.analytics_batch_size
    MaxFaults,     \* bound: faults, see above
    MaxFailures    \* bound: failed transactions, see above

Message == Partitions \X (0 .. MaxOffset - 1)

ASSUME OffsetAssumption == MaxOffset \in Nat
ASSUME GarbageAssumption == Garbage \subseteq Message /\ Poison \subseteq Message
ASSUME SilentAssumption == Silent \subseteq Message
ASSUME BatchAssumption == BatchSize \in Nat \ {0}
ASSUME BoundAssumption == MaxFaults \in Nat /\ MaxFailures \in Nat

VARIABLES
    end,        \* per partition, the log end offset (broker)
    committed,  \* per partition, the group's committed offset (broker)
    position,   \* per partition, the next offset the consumer reads
    base,       \* per partition, where the group entered it (history)
    batch,      \* `batch` and `messages`: they always grow and clear together
    acked,      \* how many messages of the batch the commit loop has passed
    pc,         \* where run_analytics is
    final,      \* the flush under way is the one after the loop
    due,        \* now - last_flush >= analytics_flush_interval_s
    stop,       \* runtime.should_stop()
    applied,    \* per message, how often the aggregates count it (PostgreSQL)
    faults,     \* faults so far (history, bounded)
    failures    \* failed transactions so far (history, bounded)

brokerVars  == <<end, committed, base>>
processVars == <<position, batch, acked, pc, final, due, stop>>
vars == <<end, committed, base, position, batch, acked, pc, final, due, stop,
          applied, faults, failures>>

Running == pc \in {"poll", "upsert", "commit"}

InBatch(m) == \E i \in 1 .. Len(batch) : batch[i] = m

Copies(m) == Cardinality({i \in 1 .. Len(batch) : batch[i] = m})

Poisoned == \E i \in 1 .. Len(batch) : batch[i] \in Poison

\* The flush needs the database.
Stores == \E i \in 1 .. Len(batch) : batch[i] \notin Silent

-------------------------------------------------------------------------------
(* Actions.                                                                *)

Init ==
    /\ end = [p \in Partitions |-> 0]
    /\ committed = [p \in Partitions |-> NoOffset]
    /\ base = [p \in Partitions |-> 0]
    /\ position = [p \in Partitions |-> 0]
    /\ batch = <<>>
    /\ acked = 0
    /\ pc = "down"
    /\ final = FALSE
    /\ due = FALSE
    /\ stop = FALSE
    /\ applied = [m \in Message |-> 0]
    /\ faults = 0
    /\ failures = 0

\* The demux publishes one more message.
Publish(p) ==
    /\ end[p] < MaxOffset
    /\ end' = Replace(end, p, end[p] + 1)
    /\ UNCHANGED <<committed, base, processVars, applied, faults, failures>>

\* Every partition is (re)assigned: positions come from the committed offsets.
Assign ==
    /\ position' = [p \in Partitions |-> StartLatest(committed[p], end[p])]
    /\ base' = [p \in Partitions |->
                   IF committed[p] = NoOffset THEN end[p] ELSE base[p]]

\* The process is started, for the first time or after a stop or a crash.
Start ==
    /\ ~Running
    /\ Assign
    /\ batch' = <<>>
    /\ acked' = 0
    /\ pc' = "poll"
    /\ final' = FALSE
    /\ due' = FALSE
    /\ stop' = FALSE
    /\ UNCHANGED <<end, committed, applied, faults, failures>>

FlushNow_OnlyWhenFull(b) == Len(b) >= BatchSize

\* The condition that ends an iteration of the poll loop.
FlushNow(b) == b # <<>> /\ (Len(b) >= BatchSize \/ due)

AfterPoll(b) == IF FlushNow(b) THEN "upsert" ELSE "poll"

PollEvent(p) ==
    /\ pc = "poll" /\ ~stop
    /\ position[p] < end[p]
    /\ <<p, position[p]>> \notin Garbage
    /\ batch' = Append(batch, <<p, position[p]>>)
    /\ position' = Replace(position, p, position[p] + 1)
    /\ pc' = AfterPoll(batch')
    /\ UNCHANGED <<brokerVars, acked, final, due, stop, applied, faults, failures>>

\* An undecodable message is committed as soon as it is read, whatever the
\* batch still holds of its partition.
PollGarbage(p) ==
    /\ pc = "poll" /\ ~stop
    /\ position[p] < end[p]
    /\ <<p, position[p]>> \in Garbage
    /\ \/ /\ committed' = Replace(committed, p, position[p] + 1)
          /\ faults' = faults
       \/ /\ faults < MaxFaults
          /\ faults' = faults + 1
          /\ committed' = committed
    /\ position' = Replace(position, p, position[p] + 1)
    /\ pc' = AfterPoll(batch)
    /\ UNCHANGED <<end, base, batch, acked, final, due, stop, applied, failures>>

\* poll() times out without a message, and the batch is due.
PollNothing ==
    /\ pc = "poll" /\ ~stop
    /\ FlushNow(batch)
    /\ pc' = "upsert"
    /\ UNCHANGED <<brokerVars, position, batch, acked, final, due, stop,
                   applied, faults, failures>>

\* The flush interval elapses.
Tick ==
    /\ pc = "poll" /\ ~due
    /\ due' = TRUE
    /\ UNCHANGED <<brokerVars, position, batch, acked, pc, final, stop,
                   applied, faults, failures>>

ApplyBatch == applied' = [m \in Message |-> applied[m] + Copies(m)]

\* apply_events returns: its transaction is committed.
Upsert ==
    /\ pc = "upsert"
    /\ ~Poisoned
    /\ ApplyBatch
    /\ pc' = "commit"
    /\ acked' = 0
    /\ UNCHANGED <<brokerVars, position, batch, final, due, stop, faults, failures>>

\* A flush raised.  In the loop the batch is kept and polling goes on; after
\* the loop the process closes the consumer and exits, batch and all.
AbandonFlush ==
    /\ acked' = 0
    /\ IF final THEN pc' = "stopped" /\ batch' = <<>>
                ELSE pc' = "poll"    /\ batch' = batch

UpsertFails_CommitsAnyway ==
    /\ pc = "upsert"
    /\ Poisoned \/ (Stores /\ failures < MaxFailures)
    /\ failures' = IF failures < MaxFailures THEN failures + 1 ELSE failures
    /\ pc' = "commit"
    /\ UNCHANGED <<brokerVars, position, batch, acked, final, due, stop, applied, faults>>

\* The transaction is rolled back.
UpsertFails ==
    /\ pc = "upsert"
    /\ Poisoned \/ (Stores /\ failures < MaxFailures)
    /\ failures' = IF failures < MaxFailures THEN failures + 1 ELSE failures
    /\ AbandonFlush
    /\ UNCHANGED <<brokerVars, position, final, due, stop, applied, faults>>

\* The transaction is committed, and its answer is lost: the code sees an error.
UpsertUnknown ==
    /\ pc = "upsert"
    /\ ~Poisoned /\ Stores
    /\ faults < MaxFaults
    /\ faults' = faults + 1
    /\ ApplyBatch
    /\ AbandonFlush
    /\ UNCHANGED <<brokerVars, position, final, due, stop, failures>>

OffsetAfter_OffByOne(m) == m[2] + 2

\* What consumer.commit(message=m) commits.
OffsetAfter(m) == m[2] + 1

CommitNext ==
    /\ pc = "commit"
    /\ acked < Len(batch)
    /\ LET m == batch[acked + 1]
       IN  \/ /\ committed' = Replace(committed, m[1], OffsetAfter(m))
              /\ faults' = faults
           \/ /\ faults < MaxFaults             \* the request is lost
              /\ faults' = faults + 1
              /\ committed' = committed
    /\ acked' = acked + 1
    /\ UNCHANGED <<end, base, position, batch, pc, final, due, stop, applied, failures>>

\* consumer.commit raises, after the DB transaction has been committed.
CommitRaises ==
    /\ pc = "commit"
    /\ acked < Len(batch)
    /\ faults < MaxFaults
    /\ faults' = faults + 1
    /\ AbandonFlush
    /\ UNCHANGED <<brokerVars, position, final, due, stop, applied, failures>>

FlushDone_KeepsBatch ==
    /\ pc = "commit"
    /\ acked = Len(batch)
    /\ acked' = 0
    /\ due' = FALSE
    /\ pc' = IF final THEN "stopped" ELSE "poll"
    /\ UNCHANGED <<brokerVars, position, batch, final, stop, applied, faults, failures>>

FlushDone ==
    /\ pc = "commit"
    /\ acked = Len(batch)
    /\ batch' = <<>>
    /\ acked' = 0
    /\ due' = FALSE
    /\ pc' = IF final THEN "stopped" ELSE "poll"
    /\ UNCHANGED <<brokerVars, position, final, stop, applied, faults, failures>>

RequestStop ==
    /\ Running /\ ~stop
    /\ stop' = TRUE
    /\ UNCHANGED <<brokerVars, position, batch, acked, pc, final, due,
                   applied, faults, failures>>

\* The loop ends: flush what the batch holds, or close at once.
LeaveLoop ==
    /\ pc = "poll" /\ stop
    /\ final' = TRUE
    /\ pc' = IF batch = <<>> THEN "stopped" ELSE "upsert"
    /\ UNCHANGED <<brokerVars, position, batch, acked, due, stop,
                   applied, faults, failures>>

\* The process dies (killed, or an exception outside the try blocks).
Crash ==
    /\ Running
    /\ faults < MaxFaults
    /\ faults' = faults + 1
    /\ pc' = "down"
    /\ batch' = <<>>
    /\ acked' = 0
    /\ UNCHANGED <<brokerVars, position, final, due, stop, applied, failures>>

\* The group rebalances (noticed inside poll): positions are reset, the batch
\* of the process is not.
Rebalance ==
    /\ pc = "poll"
    /\ faults < MaxFaults
    /\ faults' = faults + 1
    /\ Assign
    /\ UNCHANGED <<end, committed, batch, acked, pc, final, due, stop,
                   applied, failures>>

Next ==
    \/ \E p \in Partitions : Publish(p) \/ PollEvent(p) \/ PollGarbage(p)
    \/ Start \/ PollNothing \/ Tick
    \/ Upsert \/ UpsertFails \/ UpsertUnknown
    \/ CommitNext \/ CommitRaises \/ FlushDone
    \/ RequestStop \/ LeaveLoop \/ Crash \/ Rebalance

Spec == Init /\ [][Next]_vars

\* The process runs while it can, time passes, and docker restarts a process
\* that died (restart: unless-stopped); nobody restarts one that was stopped,
\* nor publishes, nor stops it, on its own account.
Fairness ==
    /\ \A p \in Partitions : WF_vars(PollEvent(p) \/ PollGarbage(p))
    /\ WF_vars(PollNothing)
    /\ WF_vars(Tick)
    /\ WF_vars(Upsert \/ UpsertFails)
    /\ WF_vars(CommitNext)
    /\ WF_vars(FlushDone)
    /\ WF_vars(LeaveLoop)
    /\ WF_vars(pc = "down" /\ Start)

FairSpec == Spec /\ Fairness
-------------------------------------------------------------------------------
(* Properties.                                                             *)

TypeOK ==
    /\ end \in [Partitions -> 0 .. MaxOffset]
    /\ committed \in [Partitions -> OffsetOrNone(MaxOffset)]
    /\ base \in [Partitions -> 0 .. MaxOffset]
    /\ position \in [Partitions -> 0 .. MaxOffset]
    /\ batch \in Seq(Message)
    /\ acked \in 0 .. Len(batch)
    /\ pc \in {"down", "poll", "upsert", "commit", "stopped"}
    /\ final \in BOOLEAN /\ due \in BOOLEAN /\ stop \in BOOLEAN
    /\ applied \in [Message -> Nat]
    /\ faults \in 0 .. MaxFaults
    /\ failures \in 0 .. MaxFailures

\* A garbage message after offset o and before offset c.
Hidden(p, o, c) == \E u \in (o + 1) .. (c - 1) : <<p, u>> \in Garbage

\* Replay reaches every event the aggregates lack (analytics.py:3-5): whatever
\* precedes a committed offset, since the group entered the partition, is in
\* the aggregates, through every crash, rebalance, lost commit and failed
\* transaction; the one exception is an event that a garbage message of its
\* partition overtook (analytics.py:81).
CommittedIsApplied ==
    \A p \in Partitions : \A o \in base[p] .. (committed[p] - 1) :
        \/ <<p, o>> \in Garbage
        \/ applied[<<p, o>>] > 0
        \/ Hidden(p, o, committed[p])

\* Without a fault no event is counted twice, whatever transactions fail and
\* however often the process is stopped and started (the flush after the loop
\* and the commits it makes leave nothing to replay, analytics.py:92-97).
CountedOnceWithoutFaults ==
    faults = 0 => \A m \in Message : applied[m] <= 1

\* An event published while the process runs is applied in the end: a batch
\* never waits for a full one (analytics.py:83-84) and a failed one is retried.
\* What may prevent it is the operator stopping the process, a garbage message
\* overtaking the event, the group re-entering the partition past it, or a
\* poison message holding up the batch.
EventsAreApplied ==
    \A m \in Message \ (Garbage \union Poison) :
        (Running /\ base[m[1]] <= m[2] /\ m[2] < end[m[1]])
            ~> \/ applied[m] > 0
               \/ stop
               \/ base[m[1]] > m[2]
               \/ Hidden(m[1], m[2], committed[m[1]])
               \/ Poisoned

\* The sink's promise.
Sink == INSTANCE AtLeastOnceSink
            WITH stored <- {m \in Message : applied[m] > 0}, Overtaking <- TRUE

\* The consumer implements the at-least-once sink of AtLeastOnceSink: no step
\* commits an offset past an event that is not stored (README.md:89-100).
ImplementsSink == Sink!Spec

\* README.md:89-100: "Each consumer commits offsets only after its store write
\* succeeds, so failures replay": an event before the committed offset is in
\* the store, or at least still in the memory of the process.
FailuresReplay ==
    \A p \in Partitions : \A o \in base[p] .. (committed[p] - 1) :
        \/ <<p, o>> \in Garbage
        \/ applied[<<p, o>>] > 0
        \/ InBatch(<<p, o>>)

===============================================================================
