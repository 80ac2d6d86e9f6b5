------------------------------- MODULE Aliases -------------------------------
(***************************************************************************)
(* The hourly live indices of Elasticsearch and their two aliases, which   *)
(* four programs change without coordination, one REST call at a time:     *)
(*   - the indexer, before every bulk request, and the scheduler's         *)
(*     hourly_rollover job run ensure_current_hour_index                   *)
(*     (search/aliases.py:85-118);                                         *)
(*   - the scheduler's cleanup_live job deletes what is older than the     *)
(*     retention (jobs/cleanup_live_data.py:24-61);                        *)
(*   - scripts/init_elasticsearch.py rebuilds both aliases when the stack  *)
(*     is brought up (lines 85-147).                                       *)
(* Each reads the clock once and acts on what earlier calls returned.      *)
(*                                                                         *)
(* An index is its hour.  Elasticsearch applies the actions of one         *)
(* update_aliases request together; it refuses them all when an index does *)
(* not exist, or when two indices would be the is_write_index of an alias. *)
(* Removing an alias an index does not have is harmless.  A bulk request to*)
(* a missing alias creates an index of the alias's own name (`stray`),     *)
(* which no alias can then share.                                          *)
(*                                                                         *)
(* Timing assumption: one pass of a program, a handful of requests with a  *)
(* timeout of 30 s each (aliases.py:34), ends before the hour turns twice. *)
(*                                                                         *)
(* Bounds: MaxHour (the clock), MaxFaults (what is out of the ordinary: a  *)
(* request that fails, a program that dies in a pass, the stack brought up *)
(* again, which runs init_elasticsearch).                                  *)
(***************************************************************************)
EXTENDS Integers, FiniteSets

CONSTANTS
    MaxHour,      \* bound: the last hour of the clock
    Retention,    \* settings.live_retention_hours
    MaxFaults     \* bound: faults, see above

Hour     == 0 .. MaxHour
NoHour   == -1
Ensurers == {"indexer", "scheduler"}
Programs == Ensurers \union {"cleanup", "init"}

ASSUME HourAssumption == MaxHour \in Nat
\* Two passes that are an hour late each do not add up to the retention.
ASSUME RetentionAssumption == Retention \in Nat /\ Retention >= 2
ASSUME FaultAssumption == MaxFaults \in Nat

VARIABLES
    hour,       \* the wall clock's hour
    exist,      \* the hourly indices
    write,      \* those the write alias covers
    flagged,    \* those that carry it with is_write_index
    read,       \* those the read alias covers
    stray,      \* an index has the write alias's name
    written,    \* the hours within the retention that got documents (history)
    pc,         \* where each program is, "idle" between two passes
    seen,       \* the hour each read in this pass, NoHour between two
    cur,        \* the indices each learnt of in this pass
    retained,   \* what init_elasticsearch knows of next to cur
    faults      \* faults so far (history, bounded)

cluster == <<exist, write, flagged, read, stray, written>>
vars == <<hour, exist, write, flagged, read, stray, written, pc, seen, cur,
          retained, faults>>

-------------------------------------------------------------------------------
(* Elasticsearch.                                                          *)

\* What the write alias is after one update_aliases request that takes it off
\* the indices S and puts it on index h, as its write index if f.
WriteAfter(S, h)      == (write \ S) \union {h}
FlaggedAfter(S, h, f) == (flagged \ (S \union {h})) \union (IF f THEN {h} ELSE {})

Accepted(S, h, f) ==
    /\ ~stray
    /\ S \union {h} \subseteq exist
    /\ Cardinality(FlaggedAfter(S, h, f)) <= 1

Rebind(S, h, f) ==
    /\ write' = WriteAfter(S, h)
    /\ flagged' = FlaggedAfter(S, h, f)

\* Where a request to the write alias goes: its write index, or its only one.
Targets == IF flagged # {} THEN flagged
           ELSE IF Cardinality(write) = 1 THEN write ELSE {}

-------------------------------------------------------------------------------
(* Actions.                                                                *)

Init ==
    /\ hour = 0
    /\ exist = {} /\ write = {} /\ flagged = {} /\ read = {}
    /\ stray = FALSE
    /\ written = {}
    /\ pc = [a \in Programs |-> "idle"]
    /\ seen = [a \in Programs |-> NoHour]
    /\ cur = [a \in Programs |-> {}]
    /\ retained = {}
    /\ faults = 0

\* Program a is at l, with the hour h it read and the indices S it knows of.
At(a, l, h, S) ==
    /\ pc' = [pc EXCEPT ![a] = l]
    /\ seen' = [seen EXCEPT ![a] = h]
    /\ cur' = [cur EXCEPT ![a] = S]

End(a)         == At(a, "idle", NoHour, {})
Learn(a, l, S) == At(a, l, seen[a], S)
Goto(a, l)     == IF l = "idle" THEN End(a) ELSE Learn(a, l, cur[a])

\* The clock, under the timing assumption.
HourPasses ==
    /\ hour < MaxHour
    /\ \A a \in Programs : seen[a] \in {NoHour, hour}
    /\ hour' = hour + 1
    /\ written' = {h \in written : h >= hour' - Retention}
    /\ UNCHANGED <<exist, write, flagged, read, stray, pc, seen, cur, retained, faults>>

\* ensure_current_hour_index reads the clock and asks for its index.
EnsureStarts(a) ==
    /\ pc[a] = "idle"
    /\ At(a, IF hour \in exist THEN "getwrite" ELSE "create", hour, {})
    /\ UNCHANGED <<hour, cluster, retained, faults>>

\* create() raises when another program was faster.
EnsureCreates(a) ==
    /\ pc[a] = "create"
    /\ exist' = exist \union {seen[a]}
    /\ Goto(a, IF seen[a] \in exist THEN "idle" ELSE "getwrite")
    /\ UNCHANGED <<hour, write, flagged, read, stray, written, retained, faults>>

\* _alias_indices of the write alias, which takes an error for "none".
EnsureGetsWrite(a) ==
    /\ pc[a] = "getwrite"
    /\ \/ /\ IF write = {seen[a]} THEN Goto(a, "getread") ELSE Learn(a, "bindwrite", write)
          /\ faults' = faults
       \/ /\ faults < MaxFaults
          /\ faults' = faults + 1
          /\ Goto(a, "bindwrite")
    /\ UNCHANGED <<hour, cluster, retained>>

EnsureBindsWrite_KeepsOthers(a) ==
    /\ pc[a] = "bindwrite"
    /\ write' = WriteAfter({}, seen[a]) /\ flagged' = FlaggedAfter(flagged, seen[a], TRUE)
    /\ Learn(a, "getread", {})
    /\ UNCHANGED <<hour, exist, read, stray, written, retained, faults>>

EnsureBindsWrite_RemoveOnly(a) ==
    /\ pc[a] = "bindwrite"
    /\ write' = write \ cur[a] /\ flagged' = flagged \ cur[a]
    /\ Learn(a, "getread", {})
    /\ UNCHANGED <<hour, exist, read, stray, written, retained, faults>>

\* update_aliases; it raises when Elasticsearch refuses.
EnsureBindsWrite(a) ==
    /\ pc[a] = "bindwrite"
    /\ LET others == cur[a] \ {seen[a]}
       IN  IF Accepted(others, seen[a], TRUE)
             THEN Rebind(others, seen[a], TRUE) /\ Learn(a, "getread", {})
             ELSE UNCHANGED <<write, flagged>> /\ End(a)
    /\ UNCHANGED <<hour, exist, read, stray, written, retained, faults>>

AfterEnsure(a) == IF a = "indexer" THEN "bulk" ELSE "idle"

\* _alias_indices of the read alias; an error makes the next call redundant.
EnsureGetsRead(a) ==
    /\ pc[a] = "getread"
    /\ \/ /\ Goto(a, IF seen[a] \in read THEN AfterEnsure(a) ELSE "bindread")
          /\ faults' = faults
       \/ /\ faults < MaxFaults
          /\ faults' = faults + 1
          /\ Goto(a, "bindread")
    /\ UNCHANGED <<hour, cluster, retained>>

EnsureBindsRead(a) ==
    /\ pc[a] = "bindread" /\ a \in Ensurers
    /\ read' = IF seen[a] \in exist THEN read \union {seen[a]} ELSE read
    /\ Goto(a, IF seen[a] \in exist THEN AfterEnsure(a) ELSE "idle")
    /\ UNCHANGED <<hour, exist, write, flagged, stray, written, retained, faults>>

\* The indexer's bulk request, through the write alias.
Bulk ==
    /\ pc["indexer"] = "bulk"
    /\ stray' = (stray \/ write = {})
    /\ written' = written \union Targets
    /\ End("indexer")
    /\ UNCHANGED <<hour, exist, write, flagged, read, retained, faults>>

Expired_OneHourEarly(h, now) == h <= now - Retention

\* cleanup_live_data: older than the cutoff.
Expired(h, now) == h < now - Retention

CleanupLists ==
    /\ pc["cleanup"] = "idle"
    /\ LET old == {h \in exist : Expired(h, hour)}
       IN  old # {} /\ At("cleanup", "unalias", hour, old)
    /\ UNCHANGED <<hour, cluster, retained, faults>>

CleanupUnaliases_EndsPass ==
    /\ pc["cleanup"] = "unalias"
    /\ read' = read \ cur["cleanup"]
    /\ End("cleanup")
    /\ UNCHANGED <<hour, exist, write, flagged, stray, written, retained, faults>>

\* The read alias is taken off, or the error is suppressed.
CleanupUnaliases ==
    /\ pc["cleanup"] = "unalias"
    /\ \/ read' = read \ cur["cleanup"] /\ faults' = faults
       \/ read' = read /\ faults < MaxFaults /\ faults' = faults + 1
    /\ Goto("cleanup", "delete")
    /\ UNCHANGED <<hour, exist, write, flagged, stray, written, retained>>

\* One delete of the loop, oldest first.  The index leaves its aliases with it;
\* an error is passed over.
CleanupDeletes ==
    /\ pc["cleanup"] = "delete"
    /\ \E h \in cur["cleanup"] :
          /\ \A other \in cur["cleanup"] : h <= other
          /\ \/ /\ exist' = exist \ {h} /\ read' = read \ {h}
                /\ write' = write \ {h} /\ flagged' = flagged \ {h}
                /\ faults' = faults
             \/ /\ faults < MaxFaults
                /\ faults' = faults + 1
                /\ UNCHANGED <<exist, read, write, flagged>>
          /\ LET rest == cur["cleanup"] \ {h}
             IN  IF rest = {} THEN End("cleanup") ELSE Learn("cleanup", "delete", rest)
    /\ UNCHANGED <<hour, stray, written, retained>>

\* init_elasticsearch makes sure that the current index exists,
InitCreates ==
    /\ pc["init"] = "idle"
    /\ faults < MaxFaults
    /\ faults' = faults + 1
    /\ exist' = exist \union {hour}
    /\ At("init", "list", hour, {})
    /\ UNCHANGED <<hour, write, flagged, read, stray, written, retained>>

\* lists the indices and which of them the write alias covers (`retained`),
InitLists ==
    /\ pc["init"] = "list"
    /\ Learn("init", "bindwrite", exist)
    /\ retained' = exist \intersect write
    /\ UNCHANGED <<hour, cluster, faults>>

\* puts the write alias on the current one, without is_write_index,
InitBindsWrite ==
    /\ pc["init"] = "bindwrite"
    /\ IF Accepted(retained, seen["init"], FALSE)
         THEN Rebind(retained, seen["init"], FALSE) /\ Goto("init", "retain")
         ELSE UNCHANGED <<write, flagged>> /\ End("init")
    /\ retained' = {}
    /\ UNCHANGED <<hour, exist, read, stray, written, faults>>

\* looks up which it lists are under the read alias and which hours to retain,
InitRetains ==
    /\ pc["init"] = "retain"
    /\ Learn("init", "bindread", cur["init"] \intersect read)
    /\ retained' = {h \in exist : hour - Retention < h /\ h <= hour}
    /\ UNCHANGED <<hour, cluster, faults>>

\* and rebuilds the read alias.
InitBindsRead ==
    /\ pc["init"] = "bindread"
    /\ read' = IF cur["init"] \union retained \subseteq exist
               THEN (read \ cur["init"]) \union retained ELSE read
    /\ End("init")
    /\ retained' = {}
    /\ UNCHANGED <<hour, exist, write, flagged, stray, written, faults>>

\* A request of a program fails, or the program dies: its pass is over.
PassFails(a) ==
    /\ pc[a] # "idle"
    /\ faults < MaxFaults
    /\ faults' = faults + 1
    /\ End(a)
    /\ retained' = IF a = "init" THEN {} ELSE retained
    /\ UNCHANGED <<hour, cluster>>

EnsureStep(a) ==
    \/ EnsureStarts(a) \/ EnsureCreates(a)
    \/ EnsureGetsWrite(a) \/ EnsureBindsWrite(a)
    \/ EnsureGetsRead(a) \/ EnsureBindsRead(a)

CleanupStep == CleanupLists \/ CleanupUnaliases \/ CleanupDeletes

InitStep ==
    InitCreates \/ InitLists \/ InitBindsWrite \/ InitRetains \/ InitBindsRead

Next ==
    \/ HourPasses
    \/ \E a \in Ensurers : EnsureStep(a)
    \/ Bulk
    \/ CleanupStep
    \/ InitStep
    \/ \E a \in Programs : PassFails(a)

Spec == Init /\ [][Next]_vars

\* Time passes, the two jobs of the scheduler run again and again
\* (scheduler.py:35-52), and a pass that began goes on to its end.  The indexer
\* flushes only when there are events.
Fairness ==
    /\ WF_vars(HourPasses)
    /\ WF_vars(EnsureStep("scheduler"))
    /\ WF_vars(pc["indexer"] # "idle" /\ (EnsureStep("indexer") \/ Bulk))
    /\ WF_vars(CleanupStep)
    /\ WF_vars(pc["init"] # "idle" /\ InitStep)

FairSpec == Spec /\ Fairness

-------------------------------------------------------------------------------
(* Properties.                                                             *)

\* A bulk request of the indexer finds the write alias bound to one index it
\* can resolve, whatever the three other programs do between the end of
\* ensure_current_hour_index and the request (writer.py:26-44): no document is
\* refused for an ambiguous alias and no stray index appears.
BulkResolves ==
    /\ ~stray
    /\ pc["indexer"] = "bulk" => Cardinality(Targets) = 1

\* A pass of ensure_current_hour_index is about to put h under the read alias.
ReadPending(h) == \E a \in Ensurers :
    seen[a] = h /\ pc[a] \in {"getwrite", "bindwrite", "getread", "bindread"}

\* Without a fault or a run of init_elasticsearch documents stay
\* searchable for the retention: an hour that was written to and is within it
\* has its index under the read alias, or a pass is on its way to put it there,
\* although the documents may come from another program's pass than the one
\* that bound the write alias (aliases.py:112-117, cleanup_live_data.py:45-58).
WrittenIsSearchable ==
    faults = 0 => \A h \in written : h \in read \/ ReadPending(h)

\* Once the hour stands still the write alias comes to rest on the current
\* index alone, whatever a late pass or init_elasticsearch left behind.
AliasConverges == <>[](hour = MaxHour => write = {MaxHour})

\* Once the hour stands still the expired indices are gone, and no late pass
\* brings one back (cleanup_live_data.py:56-60).
ExpiredAreDeleted == <>[](hour = MaxHour => \A h \in exist : ~Expired(h, MaxHour))
===============================================================================
