------------------------------- MODULE Pipeline -------------------------------
(***************************************************************************)
(* From wiki.raw to the stores: the demux, and behind each topic it feeds  *)
(* the consumer group that stores the topic's events (README.md:89-100).   *)
(*                                                                         *)
(* The demux is module Demux, with its crashes, lost commits and full      *)
(* queue.  Of a sink, only its promise is used, that of AtLeastOnceSink:   *)
(* an offset is committed when everything before it is stored, from the    *)
(* offset the group began at.  Analytics, Vandalism and Indexer implement  *)
(* it; what Elasticsearch refuses, and what scores too low for a row,      *)
(* counts as stored here as it does there.  Their exception for garbage    *)
(* does not arise: the demux sends on what it has decoded, so a topic      *)
(* holds no garbage.                                                       *)
(*                                                                         *)
(* The topic's log is taken for one partition, in which all languages      *)
(* follow each other; the sinks keep the partitions of a topic apart.      *)
(***************************************************************************)
EXTENDS Demux

VARIABLES
    entered,    \* per topic, the offset its sink began reading at
    reached,    \* per topic, the committed offset of its sink
    stored      \* per topic, the offsets whose events are in the store

sinkVars == <<entered, reached, stored>>
pipeVars == <<end, committed, log, position, pc, current, next, queue, stop,
              lost, refused, faults, entered, reached, stored>>

-------------------------------------------------------------------------------
(* Actions.                                                                *)

PipeInit ==
    /\ Init
    /\ entered = [t \in Topic |-> 0]
    /\ reached = [t \in Topic |-> NoOffset]
    /\ stored = [t \in Topic |-> {}]

DemuxStep == Next /\ UNCHANGED sinkVars

\* A sink whose group has no committed offset starts at the end of the log.
Enter(t) ==
    /\ reached[t] = NoOffset
    /\ entered' = Replace(entered, t, StartLatest(reached[t], Len(log[t])))
    /\ UNCHANGED <<vars, reached, stored>>

\* One flush stores a run of events.  It leaves no gap behind the offset the
\* sink entered at, and may have in it a batch from before it entered again.
Store(t, first, last) ==
    /\ first \in 0 .. entered[t]
    /\ last \in (0 .. Len(log[t]) - 1) \ stored[t]
    /\ stored' = Replace(stored, t, stored[t] \union (first .. last))
    /\ UNCHANGED <<vars, entered, reached>>

\* The sink commits an offset, after a replay perhaps an older one.
Commit(t, c) ==
    /\ c \in 1 .. Len(log[t])
    /\ entered[t] .. c - 1 \subseteq stored[t]
    /\ reached' = Replace(reached, t, c)
    /\ UNCHANGED <<vars, entered, stored>>

SinkStep(t) ==
    \/ Enter(t)
    \/ \E first, last \in 0 .. Len(log[t]) : Store(t, first, last)
    \/ \E c \in 0 .. Len(log[t]) : Commit(t, c)

PipeNext == DemuxStep \/ \E t \in Topic : SinkStep(t)

PipeSpec == PipeInit /\ [][PipeNext]_pipeVars

-------------------------------------------------------------------------------
(* Properties.                                                             *)

\* The store behind topic t has event m, or will read it, or the sink's group
\* began behind it.
Reaches(t, m) ==
    \E i \in 1 .. Len(log[t]) :
        /\ log[t][i] = m
        /\ i - 1 \in stored[t] \/ reached[t] < i \/ i - 1 < entered[t]

\* No event vanishes between wiki.raw and a store: if its raw offset is
\* committed, then behind every topic it is stored, or in the topic and not yet
\* committed there, or in the producer queue of the running demux; or it is lost
\* in a way the code knows of, which the sinks' reset policy "latest" is
\* one of (demux.py:83-97, README.md:89-100).
NothingVanishes ==
    \A p \in Partitions : \A o \in 0 .. committed[p] - 1 :
        \/ <<p, o>> \in Garbage
        \/ \A t \in Topic :
              \/ <<t, <<p, o>>>> \in InQueue \union lost \union refused
              \/ Reaches(t, <<p, o>>)
===============================================================================
