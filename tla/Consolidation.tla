---------------------------- MODULE Consolidation ----------------------------
(***************************************************************************)
(* The consolidation job (jobs/consolidate_3h.py): the scheduler's loop    *)
(* that runs it (services/scheduler.py, _every), the same job started by   *)
(* hand (make consolidate, make consolidate-window), the live documents it *)
(* counts and the rows it keeps in consolidated_windows.                   *)
(*                                                                         *)
(* A pass reads the clock, counts the documents of the latest window,      *)
(* looks for the window's row, and updates or inserts it; the table's      *)
(* unique constraint refuses a second insert.  A count that fails is 0.    *)
(*                                                                         *)
(* A window is named by the hour it starts at; it is Window hours long.    *)
(*                                                                         *)
(* Timing assumption: the scheduler wakes within Slip ticks of its         *)
(* deadline, a pass ends within Slip ticks, less than an hour, and a process*)
(* that ended is back before the next tick.                                *)
(*                                                                         *)
(* make consolidate-window is the same pass: --window-start comes without  *)
(* a window_end, so the latest window is taken all the same (line 72).     *)
(*                                                                         *)
(* Bounds: MaxTick (the clock), MaxDocs (documents), one run by hand,      *)
(* MaxFaults (a count or a transaction that fails, the process ends).      *)
(***************************************************************************)
EXTENDS Integers, FiniteSets

CONSTANTS
    PerHour,          \* ticks in an hour
    Window,           \* settings.consolidation_window_hours
    Interval,         \* settings.scheduler_consolidate_interval_s, in ticks
    Slip,             \* see above
    Retention,        \* settings.live_retention_hours
    WindowRetention,  \* settings.consolidated_retention_days, in hours
    MaxTick, MaxDocs, MaxFaults   \* bounds, see above

ASSUME CountAssumption ==
    {PerHour, Window, Slip, Retention, WindowRetention, MaxTick} \subseteq Nat \ {0}
ASSUME IntervalAssumption == Interval = Window * PerHour /\ Slip < PerHour
ASSUME RetentionAssumption == Retention > Window /\ WindowRetention >= 3 * Window

None     == -1
Programs == {"scheduler", "manual"}

VARIABLES
    tick,      \* the wall clock
    docs,      \* the live documents: [stamp, index] of hours, and an identity
    arrived,   \* all that ever were (history)
    rows,      \* consolidated_windows, by window
    pc,        \* where each program is
    win,       \* the window of its pass
    count,     \* the documents it counted
    due,       \* those of its window when the pass began (history)
    counted,   \* its count did not fail (history)
    existing,  \* it found the window's row
    begun,     \* when it began its last pass
    last,      \* the last window of the scheduler's process, or None (history)
    faults     \* faults so far (history, bounded)

passVars == <<win, count, due, counted, existing>>
vars == <<tick, docs, arrived, rows, pc, win, count, due, counted, existing,
          begun, last, faults>>

hour == tick \div PerHour

\* latest_completed_window: ends at the full hour.
LatestWindow == hour - Window

InWindow_WithTheEnd(w, d) == w <= d.stamp /\ d.stamp <= w + Window

\* @timestamp in [window_start, window_end).
InWindow(w, d) == w <= d.stamp /\ d.stamp < w + Window

Counted(w) == Cardinality({d \in docs : InWindow(w, d)})

\* The events of window w so far, counted or not (for due, a history).
Arrived(w) == Cardinality({d \in arrived : d.stamp \in w .. w + Window - 1})
-------------------------------------------------------------------------------
(* The surroundings.                                                       *)

Passing(p) == pc[p] \in {"count", "select", "write"}

OnTime ==
    /\ pc["scheduler"] # "down"
    /\ pc["scheduler"] = "asleep" => tick < begun["scheduler"] + Interval + Slip
    /\ \A p \in Programs : Passing(p) => tick < begun[p] + Slip

Tick ==
    /\ tick < MaxTick /\ OnTime
    /\ tick' = tick + 1
    /\ UNCHANGED <<docs, arrived, rows, pc, passVars, begun, last, faults>>

\* The indexer puts an event in the current hour's index; an event of the hour
\* before may come late.
Indexed ==
    /\ Cardinality(arrived) < MaxDocs
    /\ \E stamp \in {hour - 1, hour} :
          LET d == [id |-> Cardinality(arrived), stamp |-> stamp, index |-> hour]
          IN  docs' = docs \union {d} /\ arrived' = arrived \union {d}
    /\ UNCHANGED <<tick, rows, pc, passVars, begun, last, faults>>

\* cleanup_live_data deletes whole indices (module Aliases).
Expired(d) == d.index < hour - Retention

CleanupLive ==
    /\ \E d \in docs : Expired(d)
    /\ docs' = {d \in docs : ~Expired(d)}
    /\ UNCHANGED <<tick, arrived, rows, pc, passVars, begun, last, faults>>

\* cleanup_old_aggregates, the part of this table.
CleanupWindows ==
    LET old == {w \in DOMAIN rows : w * PerHour < tick - WindowRetention * PerHour}
    IN  /\ old # {}
        /\ rows' = [w \in DOMAIN rows \ old |-> rows[w]]
        /\ UNCHANGED <<tick, docs, arrived, pc, passVars, begun, last, faults>>

-------------------------------------------------------------------------------
(* A pass.                                                                 *)

\* The program p begins a pass.
Begin(p) ==
    /\ pc' = [pc EXCEPT ![p] = "count"]
    /\ win' = [win EXCEPT ![p] = LatestWindow]
    /\ due' = [due EXCEPT ![p] = Arrived(LatestWindow)]
    /\ begun' = [begun EXCEPT ![p] = tick]
    /\ UNCHANGED <<tick, docs, arrived, rows, count, counted, existing, faults>>

\* p's pass is over, and what it knew is gone.
End(p, l) ==
    /\ pc' = [pc EXCEPT ![p] = l]
    /\ win' = [win EXCEPT ![p] = None]
    /\ count' = [count EXCEPT ![p] = 0]
    /\ due' = [due EXCEPT ![p] = 0]
    /\ counted' = [counted EXCEPT ![p] = FALSE]
    /\ existing' = [existing EXCEPT ![p] = FALSE]
    /\ UNCHANGED <<tick, docs, arrived, begun>>

SchedulerBegins_BeforeDeadline ==
    /\ \/ pc["scheduler"] = "down"
       \/ pc["scheduler"] = "asleep" /\ tick >= begun["scheduler"] + Interval - Slip
    /\ Begin("scheduler")
    /\ last' = LatestWindow

\* The scheduler's loop begins at once, and again when the deadline has come.
SchedulerBegins ==
    /\ \/ pc["scheduler"] = "down"
       \/ pc["scheduler"] = "asleep" /\ tick >= begun["scheduler"] + Interval
    /\ Begin("scheduler")
    /\ last' = LatestWindow

\* main().
ManualBegins ==
    /\ pc["manual"] = "ready"
    /\ Begin("manual")
    /\ last' = last

\* _count_window_events.
CountDocs(p) ==
    /\ pc[p] = "count"
    /\ \/ /\ count' = [count EXCEPT ![p] = Counted(win[p])]
          /\ counted' = [counted EXCEPT ![p] = TRUE]
          /\ faults' = faults
       \/ /\ faults < MaxFaults
          /\ faults' = faults + 1
          /\ count' = [count EXCEPT ![p] = 0]
          /\ counted' = [counted EXCEPT ![p] = FALSE]
    /\ pc' = [pc EXCEPT ![p] = "select"]
    /\ UNCHANGED <<tick, docs, arrived, rows, win, due, existing, begun, last>>

Select(p) ==
    /\ pc[p] = "select"
    /\ existing' = [existing EXCEPT ![p] = win[p] \in DOMAIN rows]
    /\ pc' = [pc EXCEPT ![p] = "write"]
    /\ UNCHANGED <<tick, docs, arrived, rows, win, count, due, counted, begun,
                   last, faults>>

\* After a pass the scheduler sleeps; a run by hand is over.
Ended(p) == IF p = "scheduler" THEN "asleep" ELSE "over"

\* The row is updated, or inserted unless another pass has done so since.
Write(p) ==
    /\ pc[p] = "write"
    /\ LET row == [count |-> count[p], due |-> due[p], counted |-> counted[p]]
       IN  rows' = IF existing[p] = (win[p] \in DOMAIN rows)
                   THEN [w \in DOMAIN rows \union {win[p]} |->
                            IF w = win[p] THEN row ELSE rows[w]]
                   ELSE rows
    /\ End(p, Ended(p))
    /\ UNCHANGED <<last, faults>>

PassFails_EndsTask(p) ==
    /\ pc[p] \in {"select", "write"}
    /\ faults < MaxFaults
    /\ faults' = faults + 1
    /\ End(p, "over")
    /\ UNCHANGED <<rows, last>>

\* PostgreSQL fails. _every logs it and goes on; its next pass takes the latest
\* window of then.
PassFails(p) ==
    /\ pc[p] \in {"select", "write"}
    /\ faults < MaxFaults
    /\ faults' = faults + 1
    /\ End(p, Ended(p))
    /\ UNCHANGED <<rows, last>>

\* A crash, or a stop that the container's restart follows.
ProcessEnds ==
    /\ pc["scheduler"] # "down"
    /\ faults < MaxFaults
    /\ faults' = faults + 1
    /\ End("scheduler", "down")
    /\ last' = None
    /\ rows' = rows

Init ==
    /\ tick = Window * PerHour
    /\ docs = {} /\ arrived = {}
    /\ rows = [w \in {} |-> None]
    /\ pc = [p \in Programs |-> IF p = "scheduler" THEN "down" ELSE "ready"]
    /\ win = [p \in Programs |-> None]
    /\ count = [p \in Programs |-> 0] /\ due = [p \in Programs |-> 0]
    /\ counted = [p \in Programs |-> FALSE]
    /\ existing = [p \in Programs |-> FALSE]
    /\ begun = [p \in Programs |-> 0]
    /\ last = None
    /\ faults = 0

PassStep(p) == CountDocs(p) \/ Select(p) \/ Write(p) \/ PassFails(p)

Next ==
    \/ Tick \/ Indexed \/ CleanupLive \/ CleanupWindows
    \/ SchedulerBegins \/ ManualBegins
    \/ \E p \in Programs : PassStep(p)
    \/ ProcessEnds

Spec == Init /\ [][Next]_vars

\* Time passes, the container restarts, the loop wakes and its passes end.
FairSpec ==
    Spec /\ WF_vars(Tick) /\ WF_vars(SchedulerBegins) /\ WF_vars(PassStep("scheduler"))
-------------------------------------------------------------------------------
(* Properties.                                                             *)

\* The windows of one process of the scheduler never overlap, so no event is
\* accounted for twice, and as the passes drift through the hour at most one
\* hour between two of them is left out (scheduler.py:38-52 with the floor of
\* consolidate_3h.py:31-39).
WindowsAbut ==
    [][pc["scheduler"] = "asleep" /\ pc'["scheduler"] = "count"
           => last' - (last + Window) \in {0, 1}]_vars

\* The row of a window counts every event of the window that had arrived when
\* its pass began, although the cleanup deletes indices meanwhile and two
\* passes may race for the row, and no event of another window; unless the
\* count failed (consolidate_3h.py:42-63, 75-107).
RowsCountTheirWindow ==
    \A w \in DOMAIN rows : rows[w].counted =>
        rows[w].due <= rows[w].count /\ rows[w].count <= Arrived(w)

\* What the status page shows as the last window.
LastWindow == CHOOSE w \in DOMAIN rows : \A v \in DOMAIN rows : v <= w

\* A pass that fails does not end the job: in the end there is a last window,
\* and it is no older than two rounds of the loop with their slips, of which
\* one pass failed (scheduler.py:43-47).
JobGoesOn ==
    <>[](tick = MaxTick => DOMAIN rows # {} /\ LastWindow + 2 * Window + 1 >= LatestWindow)
===============================================================================
