------------------------------- MODULE Indexer -------------------------------
(***************************************************************************)
(* The indexer (services/indexer.py, search/writer.py): wiki.index into    *)
(* the hourly live indices of Elasticsearch.  A flush builds the documents,*)
(* pins the write alias to the current hour (two steps here: the hour is   *)
(* read first, and another process may move the alias in between), sends   *)
(* one bulk request through the alias and commits every message.           *)
(*                                                                         *)
(* A document is keyed by event_id within an index, so an index holds a    *)
(* set of messages.  Garbage messages do not decode and are kept in the    *)
(* batch until it is committed; enrich_for_es raises for a Poison message. *)
(* The bulk helper is called with raise_on_error = raise_on_exception =    *)
(* FALSE: documents Elasticsearch refuses, one by one or by an HTTP error  *)
(* for all, are only counted (`refused`); a broken connection raises.      *)
(* The hourly_rollover job of the scheduler moves the same alias.          *)
(* ensure_current_hour_index call by call is module Aliases.               *)
(*                                                                         *)
(* Bounds: MaxOffset (log length), MaxHour (the clock), MaxFaults (crashes,*)
(* rebalances, lost or refused commits, bulk requests that fail in part),  *)
(* MaxFailures (requests that fail as a whole).                            *)
(***************************************************************************)
EXTENDS KafkaGroup, Sequences, FiniteSets

CONSTANTS
    Partitions,    \* partitions of wiki.index
    MaxOffset,     \* bound: messages per partition
    Garbage,       \* messages that do not decode
    Poison,        \* messages enrich_for_es raises for
    BatchSize,     \* settings.indexer_batch_size
    MaxHour,       \* bound: the last hour of the clock
    MaxFaults,     \* bound: faults, see above
    MaxFailures    \* bound: failed requests, see above

Message == Partitions \X (0 .. MaxOffset - 1)
Hour    == 0 .. MaxHour
NoHour  == -1

ASSUME OffsetAssumption == MaxOffset \in Nat
ASSUME GarbageAssumption ==
    Garbage \subseteq Message /\ Poison \subseteq Message \ Garbage
ASSUME BatchAssumption == BatchSize \in Nat \ {0}
ASSUME BoundAssumption == MaxFaults \in Nat /\ MaxFailures \in Nat /\ MaxHour \in Nat

VARIABLES
    end,        \* per partition, the log end offset (broker)
    committed,  \* per partition, the group's committed offset (broker)
    base,       \* per partition, where the group entered it (history)
    position,   \* per partition, the next offset the consumer reads
    messages,   \* the batch
    acked,      \* how many messages of the batch the commit loop has passed
    pc,         \* where run_indexer is
    final,      \* the flush under way is the one after the loop
    due,        \* now - last_flush >= indexer_flush_interval_s
    stop,       \* runtime.should_stop()
    hour,       \* the wall clock's hour
    seen,       \* the hour ensure_current_hour_index read in this flush
    jobHour,    \* the hour the rollover job read, NoHour between two runs
    writeIndex, \* the hour whose index the write alias points at
    docs,       \* per hour, the messages its index holds (Elasticsearch)
    refused,    \* messages Elasticsearch refused and the code went past
    faults,     \* faults so far (history, bounded)
    failures    \* failed requests so far (history, bounded)

brokerVars  == <<end, committed, base>>
processVars == <<position, messages, acked, pc, final, due, stop, seen>>
clusterVars == <<hour, jobHour, writeIndex, docs, refused>>
vars == <<end, committed, base, position, messages, acked, pc, final, due, stop,
          seen, hour, jobHour, writeIndex, docs, refused, faults, failures>>

Running == pc \in {"poll", "build", "pin", "bulk", "commit"}

Batched  == {messages[i] : i \in 1 .. Len(messages)}
BatchDocs == Batched \ Garbage
Indexed  == UNION {docs[h] : h \in Hour}

-------------------------------------------------------------------------------
(* Actions.                                                                *)

Init ==
    /\ end = [p \in Partitions |-> 0]
    /\ committed = [p \in Partitions |-> NoOffset]
    /\ base = [p \in Partitions |-> 0]
    /\ position = [p \in Partitions |-> 0]
    /\ messages = <<>>
    /\ acked = 0
    /\ pc = "down"
    /\ final = FALSE
    /\ due = FALSE
    /\ stop = FALSE
    /\ hour = 0
    /\ seen = 0
    /\ jobHour = NoHour
    /\ writeIndex = 0
    /\ docs = [h \in Hour |-> {}]
    /\ refused = {}
    /\ faults = 0
    /\ failures = 0

\* The demux publishes one more message.
Publish(p) ==
    /\ end[p] < MaxOffset
    /\ end' = Replace(end, p, end[p] + 1)
    /\ UNCHANGED <<committed, base, processVars, clusterVars, faults, failures>>

\* Every partition is (re)assigned: positions come from the committed offsets.
Assign ==
    /\ position' = [p \in Partitions |-> StartLatest(committed[p], end[p])]
    /\ base' = [p \in Partitions |->
                   IF committed[p] = NoOffset THEN end[p] ELSE base[p]]

Start ==
    /\ ~Running
    /\ Assign
    /\ messages' = <<>>
    /\ acked' = 0
    /\ pc' = "poll"
    /\ final' = FALSE /\ due' = FALSE /\ stop' = FALSE
    /\ UNCHANGED <<end, committed, seen, clusterVars, faults, failures>>

FlushNow_OnlyWhenFull(b) == Len(b) >= BatchSize

\* The condition that ends an iteration of the poll loop.
FlushNow(b) == b # <<>> /\ (Len(b) >= BatchSize \/ due)

\* The message joins the batch, whether it decodes or not.
Poll(p) ==
    /\ pc = "poll" /\ ~stop
    /\ position[p] < end[p]
    /\ messages' = Append(messages, <<p, position[p]>>)
    /\ position' = Replace(position, p, position[p] + 1)
    /\ pc' = IF FlushNow(messages') THEN "build" ELSE "poll"
    /\ UNCHANGED <<brokerVars, acked, final, due, stop, seen, clusterVars,
                   faults, failures>>

\* poll() times out without a message, and the batch is due.
PollNothing ==
    /\ pc = "poll" /\ ~stop
    /\ FlushNow(messages)
    /\ pc' = "build"
    /\ UNCHANGED <<brokerVars, position, messages, acked, final, due, stop, seen,
                   clusterVars, faults, failures>>

\* The flush interval elapses.
Tick ==
    /\ pc = "poll" /\ ~due
    /\ due' = TRUE
    /\ UNCHANGED <<brokerVars, position, messages, acked, pc, final, stop, seen,
                   clusterVars, faults, failures>>

\* The documents are built.  Without any the batch is committed at once; else
\* ensure_current_hour_index reads the clock.
BuildDocs ==
    /\ pc = "build"
    /\ BatchDocs \intersect Poison = {}
    /\ pc' = IF BatchDocs = {} THEN "commit" ELSE "pin"
    /\ seen' = IF BatchDocs = {} THEN seen ELSE hour
    /\ UNCHANGED <<brokerVars, position, messages, acked, final, due, stop,
                   clusterVars, faults, failures>>

\* A flush raised.  In the loop the batch is kept and polling goes on; after
\* the loop the process closes the consumer and exits, batch and all.
AbandonFlush ==
    /\ acked' = 0
    /\ IF final THEN pc' = "stopped" /\ messages' = <<>>
                ELSE pc' = "poll"    /\ messages' = messages

\* enrich_for_es raises: the batch can never be flushed.
EnrichFails ==
    /\ pc = "build"
    /\ BatchDocs \intersect Poison # {}
    /\ AbandonFlush
    /\ UNCHANGED <<brokerVars, position, final, due, stop, seen, clusterVars,
                   faults, failures>>

\* Nothing reached Elasticsearch.
RequestFails ==
    /\ pc \in {"pin", "bulk"}
    /\ failures < MaxFailures
    /\ failures' = failures + 1
    /\ AbandonFlush
    /\ UNCHANGED <<brokerVars, position, final, due, stop, seen, clusterVars, faults>>

\* ensure_current_hour_index returns.
Pin ==
    /\ pc = "pin"
    /\ writeIndex' = seen
    /\ pc' = "bulk"
    /\ UNCHANGED <<brokerVars, position, messages, acked, final, due, stop, seen,
                   hour, jobHour, docs, refused, faults, failures>>

IndexDocs(S) == docs' = Replace(docs, writeIndex, docs[writeIndex] \union S)

Bulk ==
    /\ pc = "bulk"
    /\ IndexDocs(BatchDocs)
    /\ pc' = "commit"
    /\ UNCHANGED <<brokerVars, position, messages, acked, final, due, stop, seen,
                   hour, jobHour, writeIndex, refused, faults, failures>>

\* Elasticsearch refuses some documents, or all: they are counted as errors,
\* and the batch is committed like any other.
BulkRefuses ==
    /\ pc = "bulk"
    /\ faults < MaxFaults
    /\ faults' = faults + 1
    /\ \E R \in SUBSET BatchDocs \ {{}} :
          /\ IndexDocs(BatchDocs \ R)
          /\ refused' = refused \union R
    /\ pc' = "commit"
    /\ UNCHANGED <<brokerVars, position, messages, acked, final, due, stop, seen,
                   hour, jobHour, writeIndex, failures>>

BulkRaises_CommitsAnyway ==
    /\ pc = "bulk"
    /\ faults < MaxFaults
    /\ faults' = faults + 1
    /\ \E S \in SUBSET BatchDocs : IndexDocs(S)
    /\ pc' = "commit"
    /\ UNCHANGED <<brokerVars, position, messages, acked, final, due, stop, seen,
                   hour, jobHour, writeIndex, refused, failures>>

\* The connection breaks with the request under way: some of it is stored.
BulkRaises ==
    /\ pc = "bulk"
    /\ faults < MaxFaults
    /\ faults' = faults + 1
    /\ \E S \in SUBSET BatchDocs : IndexDocs(S)
    /\ AbandonFlush
    /\ UNCHANGED <<brokerVars, position, final, due, stop, seen, hour, jobHour,
                   writeIndex, refused, failures>>

OffsetAfter_OffByOne(m) == m[2] + 2

\* What consumer.commit(message=m) commits.
OffsetAfter(m) == m[2] + 1

NextToCommit == messages[acked + 1]

CommitNext ==
    /\ pc = "commit"
    /\ acked < Len(messages)
    /\ LET m == NextToCommit
       IN  \/ /\ committed' = Replace(committed, m[1], OffsetAfter(m))
              /\ faults' = faults
           \/ /\ faults < MaxFaults             \* the request is lost
              /\ faults' = faults + 1
              /\ committed' = committed
    /\ acked' = acked + 1
    /\ UNCHANGED <<end, base, position, messages, pc, final, due, stop, seen,
                   clusterVars, failures>>

\* consumer.commit raises, after the documents have been stored.
CommitRaises ==
    /\ pc = "commit"
    /\ acked < Len(messages)
    /\ faults < MaxFaults
    /\ faults' = faults + 1
    /\ AbandonFlush
    /\ UNCHANGED <<brokerVars, position, final, due, stop, seen, clusterVars, failures>>

FlushDone_KeepsMessages ==
    /\ pc = "commit"
    /\ acked = Len(messages)
    /\ acked' = 0
    /\ due' = FALSE
    /\ pc' = IF final THEN "stopped" ELSE "poll"
    /\ UNCHANGED <<brokerVars, position, messages, final, stop, seen, clusterVars,
                   faults, failures>>

FlushDone ==
    /\ pc = "commit"
    /\ acked = Len(messages)
    /\ messages' = <<>>
    /\ acked' = 0
    /\ due' = FALSE
    /\ pc' = IF final THEN "stopped" ELSE "poll"
    /\ UNCHANGED <<brokerVars, position, final, stop, seen, clusterVars,
                   faults, failures>>

RequestStop ==
    /\ Running /\ ~stop
    /\ stop' = TRUE
    /\ UNCHANGED <<brokerVars, position, messages, acked, pc, final, due, seen,
                   clusterVars, faults, failures>>

\* The loop ends: flush what the batch holds, or close at once.
LeaveLoop ==
    /\ pc = "poll" /\ stop
    /\ final' = TRUE
    /\ pc' = IF messages = <<>> THEN "stopped" ELSE "build"
    /\ UNCHANGED <<brokerVars, position, messages, acked, due, stop, seen,
                   clusterVars, faults, failures>>

\* The process dies.
Crash ==
    /\ Running
    /\ faults < MaxFaults
    /\ faults' = faults + 1
    /\ pc' = "down"
    /\ messages' = <<>>
    /\ acked' = 0
    /\ UNCHANGED <<brokerVars, position, final, due, stop, seen, clusterVars, failures>>

\* The group rebalances (noticed inside poll): positions are reset, the batch
\* of the process is not.
Rebalance ==
    /\ pc = "poll"
    /\ faults < MaxFaults
    /\ faults' = faults + 1
    /\ Assign
    /\ UNCHANGED <<end, committed, messages, acked, pc, final, due, stop, seen,
                   clusterVars, failures>>

HourPasses ==
    /\ hour < MaxHour
    /\ hour' = hour + 1
    /\ UNCHANGED <<brokerVars, processVars, jobHour, writeIndex, docs, refused,
                   faults, failures>>

\* The rollover job of the scheduler reads the clock,
JobReadsClock ==
    /\ jobHour = NoHour
    /\ jobHour' = hour
    /\ UNCHANGED <<brokerVars, processVars, hour, writeIndex, docs, refused,
                   faults, failures>>

\* and pins the alias, or fails.
JobPins ==
    /\ jobHour # NoHour
    /\ writeIndex' \in {jobHour, writeIndex}
    /\ jobHour' = NoHour
    /\ UNCHANGED <<brokerVars, processVars, hour, docs, refused, faults, failures>>

Next ==
    \/ \E p \in Partitions : Publish(p) \/ Poll(p)
    \/ Start \/ PollNothing \/ Tick
    \/ BuildDocs \/ EnrichFails \/ RequestFails \/ Pin
    \/ Bulk \/ BulkRefuses \/ BulkRaises
    \/ CommitNext \/ CommitRaises \/ FlushDone
    \/ RequestStop \/ LeaveLoop \/ Crash \/ Rebalance
    \/ HourPasses \/ JobReadsClock \/ JobPins

Spec == Init /\ [][Next]_vars

\* The process runs while it can, time passes, and docker restarts a process
\* that died (restart: unless-stopped); nobody restarts one that was stopped,
\* nor publishes, nor stops it, nor runs the rollover job, on its own account.
Fairness ==
    /\ \A p \in Partitions : WF_vars(Poll(p))
    /\ WF_vars(PollNothing)
    /\ WF_vars(Tick)
    /\ WF_vars(BuildDocs \/ EnrichFails)
    /\ WF_vars(Pin)
    /\ WF_vars(Bulk)
    /\ WF_vars(CommitNext)
    /\ WF_vars(FlushDone)
    /\ WF_vars(LeaveLoop)
    /\ WF_vars(pc = "down" /\ Start)

FairSpec == Spec /\ Fairness

-------------------------------------------------------------------------------
(* Properties.                                                             *)

\* Replay reaches every event the indices lack (indexer.py:3-6): whatever
\* precedes a committed offset, since the group entered the partition, is in
\* some hourly index or was refused by Elasticsearch, through every crash,
\* rebalance, lost commit, broken request and move of the alias.  A garbage
\* message is committed with its batch and overtakes nothing (indexer.py:44-45).
CommittedIsIndexed ==
    \A p \in Partitions : \A o \in base[p] .. (committed[p] - 1) :
        <<p, o>> \in Garbage \union Indexed \union refused

\* Without a fault an event is in one hourly index at most, although the hour
\* turns and the scheduler moves the alias in the middle of a flush, and
\* whatever requests fail and however often the process is stopped.
OneCopyWithoutFaults ==
    faults = 0 => \A m \in Message :
        \A g, h \in Hour : m \in docs[g] /\ m \in docs[h] => g = h

\* An event published while the process runs is indexed in the end, unless
\* Elasticsearch refuses it, the operator stops the process, the group
\* re-enters the partition past it, or a poison message holds up the batch.
EventsAreIndexed ==
    \A m \in Message \ (Garbage \union Poison) :
        (Running /\ base[m[1]] <= m[2] /\ m[2] < end[m[1]])
            ~> \/ m \in Indexed \union refused
               \/ stop
               \/ base[m[1]] > m[2]
               \/ Batched \intersect Poison # {}

\* The sink's promise.
Sink == INSTANCE AtLeastOnceSink
            WITH stored <- Indexed \union refused, Overtaking <- FALSE

\* The indexer implements the at-least-once sink, without the exception the
\* other two need for garbage messages, once what Elasticsearch refuses is
\* taken for stored (README.md:89-100).
ImplementsSink == Sink!Spec

===============================================================================
