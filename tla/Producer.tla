------------------------------ MODULE Producer ------------------------------
(***************************************************************************)
(* The producer (services/producer.py): the Wikimedia event stream into    *)
(* wiki.raw, and what does not validate into wiki.deadletter.              *)
(*                                                                         *)
(* The stream sends one blob after another to whoever is connected, and    *)
(* has no replay: the request carries no Last-Event-ID.  `wire` is what    *)
(* was sent on the open connection and is not handled yet.  _handle_raw    *)
(* awaits nothing, so a blob is handled in one step.  A blob is valid,     *)
(* invalid (ValidationError, JSONDecodeError or another ValueError), or    *)
(* odd: normalize raises something else.  The blobs are of one language,   *)
(* hence of one partition of wiki.raw.                                     *)
(*                                                                         *)
(* Bounds: Len(Kinds) (blobs sent), MaxFaults (crashes, failed or broken   *)
(* connections, delivery timeouts), MaxEnds (streams that end orderly).    *)
(***************************************************************************)
EXTENDS Integers, Sequences, FiniteSets

CONSTANTS
    Kinds,       \* the kind of each blob: "valid", "invalid" or "odd"
    QueueMax,    \* queue.buffering.max.messages
    MaxBackoff,  \* max_backoff, in seconds: 60 in the code
    MaxFaults,   \* bound: faults, see above
    MaxEnds      \* bound: streams that end orderly

Blob       == 1 .. Len(Kinds)
Copy       == {"raw", "deadletter"} \X Blob
MinBackoff == 2

ASSUME KindAssumption == Kinds \in Seq({"valid", "invalid", "odd"})
ASSUME QueueAssumption == QueueMax \in Nat \ {0}
ASSUME BackoffAssumption == MaxBackoff \in Nat /\ MaxBackoff >= MinBackoff
ASSUME BoundAssumption == MaxFaults \in Nat /\ MaxEnds \in Nat

VARIABLES
    sent,     \* how many blobs the stream has sent
    pc,       \* where run_producer is
    wire,     \* blobs on the open connection
    queue,    \* the producer's queue of copies
    log,      \* what each topic got, in order (broker)
    backoff,  \* seconds
    stop,     \* the stop event
    missed,   \* blobs sent while nobody listened, or lost with a connection
    dropped,  \* blobs whose handling raised: logged, nothing else
    lost,     \* copies a crash, a delivery timeout or the final flush lost
    ends,     \* streams that ended orderly so far (bounded)
    faults    \* faults so far (bounded)

vars == <<sent, pc, wire, queue, log, backoff, stop, missed, dropped, lost,
          ends, faults>>

Running == pc \in {"top", "connect", "stream", "backoff", "flush"}

SetOf(s)      == {s[i] : i \in 1 .. Len(s)}
Without(s, i) == SubSeq(s, 1, i - 1) \o SubSeq(s, i + 1, Len(s))

-------------------------------------------------------------------------------
(* Actions.                                                                *)

Init ==
    /\ sent = 0
    /\ pc = "down"
    /\ wire = <<>> /\ queue = <<>>
    /\ log = [t \in {"raw", "deadletter"} |-> <<>>]
    /\ backoff = MinBackoff
    /\ stop = FALSE
    /\ missed = {} /\ dropped = {} /\ lost = {}
    /\ ends = 0 /\ faults = 0

\* The stream sends its next blob.
Send ==
    /\ sent < Len(Kinds)
    /\ sent' = sent + 1
    /\ IF pc = "stream" THEN wire' = Append(wire, sent') /\ missed' = missed
                        ELSE wire' = wire /\ missed' = missed \union {sent'}
    /\ UNCHANGED <<pc, queue, log, backoff, stop, dropped, lost, ends, faults>>

Start ==
    /\ ~Running
    /\ pc' = "top"
    /\ backoff' = MinBackoff
    /\ stop' = FALSE
    /\ UNCHANGED <<sent, wire, queue, log, missed, dropped, lost, ends, faults>>

\* The loop looks at the stop event here, and nowhere else.
LoopHead ==
    /\ pc = "top"
    /\ pc' = IF stop THEN "flush" ELSE "connect"
    /\ UNCHANGED <<sent, wire, queue, log, backoff, stop, missed, dropped, lost,
                   ends, faults>>

Connect ==
    /\ pc = "connect"
    /\ pc' = "stream"
    /\ UNCHANGED <<sent, wire, queue, log, backoff, stop, missed, dropped, lost,
                   ends, faults>>

Enqueue(t) == queue' = Append(queue, <<t, Head(wire)>>)

HandleValid ==
    /\ pc = "stream" /\ wire # <<>>
    /\ Kinds[Head(wire)] = "valid"
    /\ Len(queue) < QueueMax
    /\ Enqueue("raw")
    /\ wire' = Tail(wire)
    /\ UNCHANGED <<sent, pc, log, backoff, stop, missed, dropped, lost, ends, faults>>

HandleInvalid_Dropped ==
    /\ pc = "stream" /\ wire # <<>>
    /\ Kinds[Head(wire)] = "invalid"
    /\ wire' = Tail(wire)
    /\ UNCHANGED <<sent, pc, queue, log, backoff, stop, missed, dropped, lost,
                   ends, faults>>

HandleInvalid ==
    /\ pc = "stream" /\ wire # <<>>
    /\ Kinds[Head(wire)] = "invalid"
    /\ Len(queue) < QueueMax
    /\ Enqueue("deadletter")
    /\ wire' = Tail(wire)
    /\ UNCHANGED <<sent, pc, log, backoff, stop, missed, dropped, lost, ends, faults>>

\* _handle_raw raises: an odd payload, or BufferError of a full queue.
HandleRaises ==
    /\ pc = "stream" /\ wire # <<>>
    /\ Kinds[Head(wire)] = "odd" \/ Len(queue) = QueueMax
    /\ dropped' = dropped \union {Head(wire)}
    /\ wire' = Tail(wire)
    /\ UNCHANGED <<sent, pc, queue, log, backoff, stop, missed, lost, ends, faults>>

\* The stream ends without an error, which resets the backoff.
StreamEnds ==
    /\ pc = "stream" /\ wire = <<>>
    /\ ends < MaxEnds
    /\ ends' = ends + 1
    /\ backoff' = MinBackoff
    /\ pc' = "backoff"
    /\ UNCHANGED <<sent, wire, queue, log, stop, missed, dropped, lost, faults>>

\* The connection fails or breaks, and what is on it is gone.
StreamBreaks ==
    /\ pc \in {"connect", "stream"}
    /\ faults < MaxFaults
    /\ faults' = faults + 1
    /\ missed' = missed \union SetOf(wire)
    /\ wire' = <<>>
    /\ pc' = "backoff"
    /\ UNCHANGED <<sent, queue, log, backoff, stop, dropped, lost, ends>>

AfterBackoff(b) == IF 2 * b < MaxBackoff THEN 2 * b ELSE MaxBackoff

BackoffOver_WithoutTimeout ==
    /\ pc = "backoff" /\ stop
    /\ pc' = "top"
    /\ UNCHANGED <<sent, wire, queue, log, backoff, stop, missed, dropped, lost,
                   ends, faults>>

\* The wait times out, or the stop event ends it.
BackoffOver ==
    /\ pc = "backoff"
    /\ backoff' = AfterBackoff(backoff)
    /\ pc' = "top"
    /\ UNCHANGED <<sent, wire, queue, log, stop, missed, dropped, lost, ends, faults>>

RequestStop ==
    /\ Running /\ ~stop
    /\ stop' = TRUE
    /\ UNCHANGED <<sent, pc, wire, queue, log, backoff, missed, dropped, lost,
                   ends, faults>>

\* flush() returns when the queue is empty or its 15 seconds are over.
FlushReturns ==
    /\ pc = "flush"
    /\ lost' = lost \union SetOf(queue)
    /\ queue' = <<>>
    /\ pc' = "stopped"
    /\ UNCHANGED <<sent, wire, log, backoff, stop, missed, dropped, ends, faults>>

InOrder_Ignored(i) == TRUE

\* The copy at i is the first of its topic.
InOrder(i) == \A j \in 1 .. (i - 1) : queue[j][1] # queue[i][1]

\* The broker acknowledges a copy.
Deliver ==
    /\ \E i \in 1 .. Len(queue) :
          /\ InOrder(i)
          /\ log' = [log EXCEPT ![queue[i][1]] = Append(@, queue[i][2])]
          /\ queue' = Without(queue, i)
    /\ UNCHANGED <<sent, pc, wire, backoff, stop, missed, dropped, lost, ends, faults>>

\* A copy times out in the queue; the delivery report logs it.
DeliveryFails ==
    /\ faults < MaxFaults
    /\ faults' = faults + 1
    /\ \E i \in 1 .. Len(queue) :
          /\ InOrder(i)
          /\ lost' = lost \union {queue[i]}
          /\ queue' = Without(queue, i)
    /\ UNCHANGED <<sent, pc, wire, log, backoff, stop, missed, dropped, ends>>

\* The process dies, and its queue and its connection with it.
Crash ==
    /\ Running
    /\ faults < MaxFaults
    /\ faults' = faults + 1
    /\ missed' = missed \union SetOf(wire)
    /\ lost' = lost \union SetOf(queue)
    /\ wire' = <<>> /\ queue' = <<>>
    /\ pc' = "down"
    /\ UNCHANGED <<sent, log, backoff, stop, dropped, ends>>

Handle == HandleValid \/ HandleInvalid \/ HandleRaises

Next ==
    \/ Send \/ Start
    \/ LoopHead \/ Connect \/ Handle
    \/ StreamEnds \/ StreamBreaks \/ BackoffOver
    \/ RequestStop \/ FlushReturns
    \/ Deliver \/ DeliveryFails \/ Crash

Spec == Init /\ [][Next]_vars

\* The process runs while it can, its timers elapse, the stream accepts a
\* connection in the end, the broker accepts what is queued, and docker
\* restarts a process that died.  Nothing ends an open stream.
Fairness ==
    /\ WF_vars(LoopHead)
    /\ WF_vars(Connect)
    /\ WF_vars(Handle)
    /\ WF_vars(BackoffOver)
    /\ WF_vars(FlushReturns)
    /\ WF_vars(Deliver)
    /\ WF_vars(pc = "down" /\ Start)

FairSpec == Spec /\ Fairness

-------------------------------------------------------------------------------
(* Properties.                                                             *)

\* How often blob b is somewhere: on the wire, on its way to a topic, in one, or
\* among those that are gone.
Places(b) ==
    LET in(s)  == Cardinality({i \in 1 .. Len(s) : s[i] = b})
        one(p) == IF p THEN 1 ELSE 0
    IN  in(wire) + in(log["raw"]) + in(log["deadletter"])
        + Cardinality({i \in 1 .. Len(queue) : queue[i][2] = b})
        + Cardinality({c \in lost : c[2] = b})
        + one(b \in missed) + one(b \in dropped)

\* Every blob the stream has sent is in exactly one place, through reconnects,
\* full queues, timeouts, stops and crashes: none is published twice, and none
\* vanishes but as one of the losses the code knows of (producer.py:98-160).
EveryBlobOnce == \A b \in 1 .. sent : Places(b) = 1

\* A topic gets the blobs of a language in the order of the stream, across
\* reconnects and restarts (kafka/client.py:75-76).
StreamOrder ==
    \A t \in {"raw", "deadletter"} : \A i, j \in 1 .. Len(log[t]) :
        i < j => log[t][i] < log[t][j]

\* A producer that nobody stops is connected again and again, however the
\* connections end (producer.py:8-10, 194-206).
Reconnects == []<>(pc = "stream" \/ stop \/ pc = "stopped")

===============================================================================
