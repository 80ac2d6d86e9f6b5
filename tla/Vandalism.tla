------------------------------ MODULE Vandalism ------------------------------
(***************************************************************************)
(* The vandalism consumer (services/vandalism.py): wiki.vandalism into     *)
(* suspicious_edit_summary.  Its loop is that of the analytics consumer,   *)
(* statement by statement, so its steps are those of module Analytics; the *)
(* flush differs.  It scores the batch event by event, inserts a row for   *)
(* each event that reaches the threshold, and opens no transaction when    *)
(* none does.                                                              *)
(*                                                                         *)
(* `flagged` says how often a message was handled by a flush that came     *)
(* through: for one that reaches the threshold, the number of its rows.    *)
(* Module Events computes the scores; here they are given.                 *)
(***************************************************************************)
EXTENDS KafkaGroup, Sequences, FiniteSets

CONSTANTS
    Partitions, MaxOffset, Garbage, Poison, BatchSize, MaxFaults, MaxFailures,
    Score,      \* per message, what score_event returns, in hundredths
    Threshold   \* settings.vandalism_threshold, in hundredths

VARIABLES end, committed, position, base, batch, acked, pc, final, due, stop,
          flagged, faults, failures

Message == Partitions \X (0 .. MaxOffset - 1)

ASSUME ScoreAssumption == Score \in [Message -> 0 .. 100] /\ Threshold \in Nat

\* Events below the threshold get no row.
Skipped == {m \in Message : Score[m] < Threshold}

Consumer == INSTANCE Analytics WITH Silent <- Skipped, applied <- flagged

vars == Consumer!vars
-------------------------------------------------------------------------------
(* Actions.                                                                *)

Init == Consumer!Init

Start == Consumer!Start

Poll == \E p \in Partitions : Consumer!PollEvent(p) \/ Consumer!PollGarbage(p)

PollNothing == Consumer!PollNothing \/ Consumer!Tick

\* _persist: one insert of all the rows, or nothing at all to do.
Persist == Consumer!Upsert

PersistRaises_CommitsAnyway ==
    Consumer!UpsertFails_CommitsAnyway \/ Consumer!UpsertUnknown

\* The insert fails, or its outcome is not known, or an event cannot be scored
\* (it is not an object) or has no valid timestamp for its row.
PersistRaises == Consumer!UpsertFails \/ Consumer!UpsertUnknown

Commit == Consumer!CommitNext \/ Consumer!FlushDone

CommitRaises == Consumer!CommitRaises

LeaveLoop == Consumer!LeaveLoop

RequestStop == Consumer!RequestStop

\* The demux publishes, the process dies, the group rebalances.
Environment ==
    \/ \E p \in Partitions : Consumer!Publish(p)
    \/ Consumer!Crash
    \/ Consumer!Rebalance

Next ==
    \/ Start \/ Poll \/ PollNothing
    \/ Persist \/ PersistRaises \/ Commit \/ CommitRaises
    \/ LeaveLoop \/ RequestStop \/ Environment

Spec == Init /\ [][Next]_vars

\* The process is run, and restarted, as the analytics consumer is.
FairSpec == Spec /\ Consumer!Fairness
-------------------------------------------------------------------------------
(* Properties.                                                             *)

\* Persist-then-commit (vandalism.py:4-5): the consumer implements the
\* at-least-once sink; a skipped event counts as stored once a flush has
\* passed it.  A garbage message may hide events (vandalism.py:112).
ImplementsSink == Consumer!Sink!Spec

\* A suspicious edit read by the running process has its row in the end, unless
\* one of the exceptions of Analytics takes it.
SuspiciousAreFlagged ==
    \A m \in Message \ (Garbage \union Poison) :
        (Consumer!Running /\ base[m[1]] <= m[2] /\ m[2] < end[m[1]])
            ~> \/ flagged[m] > 0
               \/ stop
               \/ base[m[1]] > m[2]
               \/ Consumer!Hidden(m[1], m[2], committed[m[1]])
               \/ Consumer!Poisoned
===============================================================================
