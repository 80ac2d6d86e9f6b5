-------------------------------- MODULE Demux --------------------------------
(***************************************************************************)
(* The demux consumer (services/demux.py): wiki.raw into one topic per     *)
(* sink.  Each message is handed to the producer once per topic, in the    *)
(* order of FANOUT_TOPICS, and its offset is committed when the producer   *)
(* has queued all of them: the broker may not have any of them yet.        *)
(*                                                                         *)
(* `queue` is librdkafka's send queue with what is in flight.  A queued    *)
(* message is delivered, or times out after message.timeout.ms, which only *)
(* the delivery report sees, and it logs.  Messages of one raw partition   *)
(* stand for those of one language: they keep their key (demux.py:81),     *)
(* hence share a partition of every topic, and the producer keeps their    *)
(* order there (enable.idempotence).                                       *)
(*                                                                         *)
(* `lost` and `refused` are history: what the process, the broker or a     *)
(* full queue kept from a topic.                                           *)
(*                                                                         *)
(* Bounds: MaxOffset (log length), MaxFaults (crashes, rebalances, lost    *)
(* commits, delivery timeouts).                                            *)
(***************************************************************************)
EXTENDS KafkaGroup, Sequences, FiniteSets

CONSTANTS
    Partitions,     \* partitions of wiki.raw
    MaxOffset,      \* bound: messages per partition
    Garbage,        \* messages that do not decode
    FanoutTopics,   \* FANOUT_TOPICS, a sequence
    QueueMax,       \* queue.buffering.max.messages
    MaxFaults       \* bound: faults, see above

Message == Partitions \X (0 .. MaxOffset - 1)
Topic   == {FanoutTopics[i] : i \in 1 .. Len(FanoutTopics)}
Copy    == Topic \X Message     \* a message on its way to a topic

NoMessage == <<>>

ASSUME OffsetAssumption == MaxOffset \in Nat
ASSUME GarbageAssumption == Garbage \subseteq Message
ASSUME TopicAssumption == FanoutTopics \in Seq(Topic)
\* Every sink has a topic of its own (core/config.py:46-48).
ASSUME DistinctTopicsAssumption ==
    \A i, j \in 1 .. Len(FanoutTopics) : FanoutTopics[i] = FanoutTopics[j] => i = j
ASSUME QueueAssumption == QueueMax \in Nat \ {0}
ASSUME FaultAssumption == MaxFaults \in Nat

VARIABLES
    end,        \* per partition, the log end offset of wiki.raw (broker)
    committed,  \* per partition, the group's committed offset (broker)
    log,        \* per topic, what was delivered to it, in order (broker)
    position,   \* per partition, the next offset the consumer reads
    pc,         \* where run_demux is
    current,    \* the message being forwarded, NoMessage between two
    next,       \* index of the topic it is handed to next
    queue,      \* the producer's queue of copies
    stop,       \* runtime.should_stop()
    lost,       \* copies a crash, a delivery timeout or a final flush lost
    refused,    \* copies never queued, because the queue was full
    faults      \* faults so far (history, bounded)

vars == <<end, committed, log, position, pc, current, next, queue, stop,
          lost, refused, faults>>

Running == pc \in {"poll", "fanout", "flush"}

Delivered(t, m) == \E i \in 1 .. Len(log[t]) : log[t][i] = m
Queued(c)       == \E i \in 1 .. Len(queue) : queue[i] = c
InQueue         == {queue[i] : i \in 1 .. Len(queue)}
Without(s, i)   == SubSeq(s, 1, i - 1) \o SubSeq(s, i + 1, Len(s))

-------------------------------------------------------------------------------
(* Actions.                                                                *)

Init ==
    /\ end = [p \in Partitions |-> 0]
    /\ committed = [p \in Partitions |-> NoOffset]
    /\ log = [t \in Topic |-> <<>>]
    /\ position = [p \in Partitions |-> 0]
    /\ pc = "down"
    /\ current = NoMessage
    /\ next = 1
    /\ queue = <<>>
    /\ stop = FALSE
    /\ lost = {}
    /\ refused = {}
    /\ faults = 0

\* The producer service publishes one more message.
Publish(p) ==
    /\ end[p] < MaxOffset
    /\ end' = Replace(end, p, end[p] + 1)
    /\ UNCHANGED <<committed, log, position, pc, current, next, queue, stop,
                   lost, refused, faults>>

Assign == position' = [p \in Partitions |-> StartEarliest(committed[p])]

Start ==
    /\ ~Running
    /\ Assign
    /\ pc' = "poll"
    /\ stop' = FALSE
    /\ UNCHANGED <<end, committed, log, current, next, queue, lost, refused, faults>>

Poll(p) ==
    /\ pc = "poll" /\ ~stop
    /\ position[p] < end[p]
    /\ <<p, position[p]>> \notin Garbage
    /\ current' = <<p, position[p]>>
    /\ next' = 1
    /\ position' = Replace(position, p, position[p] + 1)
    /\ pc' = "fanout"
    /\ UNCHANGED <<end, committed, log, queue, stop, lost, refused, faults>>

CommitMessage_OffByOne(m) == committed' = Replace(committed, m[1], m[2]) /\ faults' = faults

\* consumer.commit(message=m): it takes effect, or the request is lost.
CommitMessage(m) ==
    \/ /\ committed' = Replace(committed, m[1], m[2] + 1)
       /\ faults' = faults
    \/ /\ faults < MaxFaults
       /\ faults' = faults + 1
       /\ committed' = committed

PollGarbage(p) ==
    /\ pc = "poll" /\ ~stop
    /\ position[p] < end[p]
    /\ <<p, position[p]>> \in Garbage
    /\ CommitMessage(<<p, position[p]>>)
    /\ position' = Replace(position, p, position[p] + 1)
    /\ UNCHANGED <<end, log, pc, current, next, queue, stop, lost, refused>>

EndIteration == pc' = "poll" /\ current' = NoMessage /\ next' = 1

\* One produce() of fanout.
Produce ==
    /\ pc = "fanout"
    /\ next <= Len(FanoutTopics)
    /\ Len(queue) < QueueMax
    /\ queue' = Append(queue, <<FanoutTopics[next], current>>)
    /\ next' = next + 1
    /\ UNCHANGED <<end, committed, log, position, pc, current, stop, lost,
                   refused, faults>>

\* produce() raises BufferError.  The loop goes on with `continue`: the next
\* poll returns the message after this one.
QueueFull ==
    /\ pc = "fanout"
    /\ next <= Len(FanoutTopics)
    /\ Len(queue) = QueueMax
    /\ refused' = refused
           \union {<<FanoutTopics[i], current>> : i \in next .. Len(FanoutTopics)}
    /\ EndIteration
    /\ UNCHANGED <<end, committed, log, position, queue, stop, lost, faults>>

CommitCurrent_BeforeFanout ==
    /\ pc = "fanout"
    /\ next <= Len(FanoutTopics)
    /\ committed' = Replace(committed, current[1], current[2] + 1)
    /\ EndIteration
    /\ UNCHANGED <<end, log, position, queue, stop, lost, refused, faults>>

CommitCurrent ==
    /\ pc = "fanout"
    /\ next > Len(FanoutTopics)
    /\ CommitMessage(current)
    /\ EndIteration
    /\ UNCHANGED <<end, log, position, queue, stop, lost, refused>>

\* The copy at i is the first of its topic and language.
InOrder_Ignored(i) == TRUE

InOrder(i) == \A j \in 1 .. (i - 1) :
    queue[j][1] = queue[i][1] => queue[j][2][1] # queue[i][2][1]

\* The broker acknowledges a copy.
Deliver ==
    /\ \E i \in 1 .. Len(queue) :
          /\ InOrder(i)
          /\ log' = Replace(log, queue[i][1], Append(log[queue[i][1]], queue[i][2]))
          /\ queue' = Without(queue, i)
    /\ UNCHANGED <<end, committed, position, pc, current, next, stop, lost,
                   refused, faults>>

\* A copy times out in the queue; the delivery report logs it.
DeliveryFails ==
    /\ faults < MaxFaults
    /\ faults' = faults + 1
    /\ \E i \in 1 .. Len(queue) :
          /\ InOrder(i)
          /\ lost' = lost \union {queue[i]}
          /\ queue' = Without(queue, i)
    /\ UNCHANGED <<end, committed, log, position, pc, current, next, stop, refused>>

RequestStop ==
    /\ Running /\ ~stop
    /\ stop' = TRUE
    /\ UNCHANGED <<end, committed, log, position, pc, current, next, queue,
                   lost, refused, faults>>

CloseConsumer_WithoutFlush ==
    /\ pc = "poll" /\ stop
    /\ pc' = "stopped"
    /\ queue' = <<>>
    /\ UNCHANGED <<end, committed, log, position, current, next, stop, lost,
                   refused, faults>>

\* The loop ends, the consumer closes and the producer is flushed.
CloseConsumer ==
    /\ pc = "poll" /\ stop
    /\ pc' = "flush"
    /\ UNCHANGED <<end, committed, log, position, current, next, queue, stop,
                   lost, refused, faults>>

\* flush() returns when the queue is empty or its 15 seconds are over.
FlushReturns ==
    /\ pc = "flush"
    /\ lost' = lost \union InQueue
    /\ queue' = <<>>
    /\ pc' = "stopped"
    /\ UNCHANGED <<end, committed, log, position, current, next, stop,
                   refused, faults>>

\* The process dies, and its queue with it.
Crash ==
    /\ Running
    /\ faults < MaxFaults
    /\ faults' = faults + 1
    /\ lost' = lost \union InQueue
    /\ queue' = <<>>
    /\ pc' = "down" /\ current' = NoMessage /\ next' = 1
    /\ UNCHANGED <<end, committed, log, position, stop, refused>>

Rebalance ==
    /\ pc = "poll"
    /\ faults < MaxFaults
    /\ faults' = faults + 1
    /\ Assign
    /\ UNCHANGED <<end, committed, log, pc, current, next, queue, stop, lost, refused>>

Next ==
    \/ \E p \in Partitions : Publish(p) \/ Poll(p) \/ PollGarbage(p)
    \/ Start \/ Produce \/ QueueFull \/ CommitCurrent
    \/ Deliver \/ DeliveryFails
    \/ RequestStop \/ CloseConsumer \/ FlushReturns
    \/ Crash \/ Rebalance

Spec == Init /\ [][Next]_vars

\* The process runs while it can, the broker accepts what is queued in the
\* end, and docker restarts a process that died.
Fairness ==
    /\ \A p \in Partitions : WF_vars(Poll(p) \/ PollGarbage(p))
    /\ WF_vars(Produce)
    /\ WF_vars(CommitCurrent)
    /\ WF_vars(Deliver)
    /\ WF_vars(CloseConsumer)
    /\ WF_vars(FlushReturns)
    /\ WF_vars(pc = "down" /\ Start)

FairSpec == Spec /\ Fairness

-------------------------------------------------------------------------------
(* Properties.                                                             *)

Forwarded(p, o) ==
    \A t \in Topic :
        LET m == <<p, o>> IN
            \/ Delivered(t, m)
            \/ <<t, m>> \in InQueue \union lost \union refused

\* Every event before the committed offset of its raw partition has gone to
\* every topic, or waits in the queue of the running process, or one of the
\* three known ways to lose a copy took it (demux.py:83-97): no interleaving
\* of polls, commits, rebalances and restarts skips an event silently.
CommittedIsForwarded ==
    \A p \in Partitions : \A o \in 0 .. (committed[p] - 1) :
        <<p, o>> \in Garbage \/ Forwarded(p, o)

\* Within a topic, the first copies of one language's events appear in the
\* order of wiki.raw, whatever is replayed, unless the earlier event was lost
\* on its way to that topic (kafka/client.py:75-76).
LanguageOrder ==
    \A t \in Topic : \A j \in 1 .. Len(log[t]) : \A o \in 0 .. (log[t][j][2] - 1) :
        LET m == <<log[t][j][1], o>> IN
            \/ m \in Garbage
            \/ <<t, m>> \in lost \union refused
            \/ \E i \in 1 .. (j - 1) : log[t][i] = m

\* A stop without a fault or a refused copy leaves every event the process has
\* read committed and in every topic, or names the copies the final flush gave
\* up (demux.py:102-103).
CleanStop ==
    pc = "stopped" /\ faults = 0 /\ refused = {} =>
        \A p \in Partitions : \A o \in 0 .. (position[p] - 1) :
            /\ o < committed[p]
            /\ \/ <<p, o>> \in Garbage
               \/ \A t \in Topic : Delivered(t, <<p, o>>) \/ <<t, <<p, o>>>> \in lost

\* Without a fault or a refused copy no topic gets an event twice, however
\* often the process is stopped and started.
OnceWithoutFaults ==
    faults = 0 /\ refused = {} =>
        \A t \in Topic : \A i, j \in 1 .. Len(log[t]) :
            log[t][i] = log[t][j] => i = j

\* An event of wiki.raw reaches each topic, unless it is lost on the way or
\* the operator stops the process.
EventsReachTopics ==
    \A m \in Message \ Garbage : \A t \in Topic :
        (Running /\ m[2] < end[m[1]])
            ~> (Delivered(t, m) \/ <<t, m>> \in lost \union refused \/ stop)

\* demux.py:94: "Queue full -- back off and retry this message without
\* committing".
RefusedIsRetried ==
    \A c \in refused :
        LET m == c[2] IN
            m[2] < committed[m[1]] => Delivered(c[1], m) \/ Queued(c) \/ c \in lost
===============================================================================
