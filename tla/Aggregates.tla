------------------------------ MODULE Aggregates ------------------------------
(***************************************************************************)
(* The hourly tables of PostgreSQL and the programs that write them: the   *)
(* analytics consumer's upserts (repositories/aggregates.py), the          *)
(* reconciliation of distinct counts (jobs/reconcile_live.py), the cleanup *)
(* of old rows (jobs/cleanup_old_aggregates.py) and the two demo-data      *)
(* scripts; the dashboard's queries (main.py, api/analytics.py) read them. *)
(*                                                                         *)
(* A transaction takes the locks of the rows it writes one by one, in the  *)
(* order of its statements and of the rows in each, and holds them until   *)
(* it ends; its writes show when it commits (READ COMMITTED).  An UPDATE   *)
(* does not see a row whose insert is not committed.  PostgreSQL breaks a  *)
(* circular wait by failing either transaction.                            *)
(*                                                                         *)
(* One count stands for the additive columns of a row, and active_users    *)
(* for the distinct ones.  What becomes of offsets is module Analytics's   *)
(* concern: here events are applied in the order of their log.             *)
(*                                                                         *)
(* Bounds: Len(Log), MaxHour, MaxFailures (failed transactions and         *)
(* queries; those of a circular wait are unlimited); demo data go into an  *)
(* empty database only.                                                    *)
(***************************************************************************)
EXTENDS Integers, FiniteSetsExt, SequencesExt

CONSTANTS
    Log,          \* the events of wiki.analytics, in order
    BatchSize,    \* settings.analytics_batch_size
    Lookback,     \* settings.reconcile_hours
    MaxBuckets,   \* the languages an hour's query returns (100)
    Retention,    \* settings.hourly_retention_days, in hours
    Limits,       \* the limits a page asks the dashboard's queries for
    MaxHour,      \* bound: the clock's last hour
    MaxFailures   \* bound, see above

Events == 1 .. Len(Log)

ASSUME LogAssumption ==
    /\ Log \in Seq(ToSet(Log))
    /\ \A e \in Events : Log[e].hour \in 0 .. MaxHour
ASSUME SettingsAssumption ==
    /\ {BatchSize, Lookback, MaxBuckets, Retention} \subseteq Nat \ {0}
    /\ Lookback <= Retention   \* three hours against ninety days
    /\ Limits \subseteq Nat \ {0}
    /\ {MaxHour, MaxFailures} \subseteq Nat

VARIABLES
    clock,     \* the current hour
    table,     \* the committed rows of the four tables
    applied,   \* how many events of the log are in committed upserts
    batch,     \* how many events the analytics consumer holds
    upserts,   \* the rows its transaction has still to lock
    flushing,  \* its transaction is open
    shown,     \* how many events of the log Elasticsearch shows
    back,      \* which hour of its lookback the reconciliation is at
    since,     \* the hour that pass started in
    updates,   \* the rows its transaction has still to update
    users,     \* the distinct counts the index gave it, per row
    writing,   \* its transaction is open
    held,      \* the row locks of each
    failures   \* failures so far (history, bounded)

flushVars     == <<applied, batch, upserts, flushing>>
reconcileVars == <<back, since, updates, users, writing>>
vars == <<clock, table, applied, batch, upserts, flushing, shown, back, since,
          updates, users, writing, held, failures>>
-------------------------------------------------------------------------------
(* Rows.                                                                   *)

\* The key of each table's unique constraint.
Key(t, e) == CASE t = "wiki" -> <<>>
               [] t = "lang" -> <<e.language>>
               [] t = "page" -> <<e.language, e.title>>
               [] t = "user" -> <<e.user>>

Row(t, hour, key, source) == [table |-> t, hour |-> hour, key |-> key, source |-> source]

RowOf(t, e) == Row(t, Log[e].hour, Key(t, Log[e]), "live")

\* build_rows: one row per key, in the order the keys first come up in the next
\* n events.  (The set holds one sequence.)
RowsOf(t, n) ==
    LET first(row) == CHOOSE i \in 1 .. n :
                          /\ RowOf(t, applied + i) = row
                          /\ \A j \in 1 .. i - 1 : RowOf(t, applied + j) # row
    IN  {rows \in SetToSeqs({RowOf(t, applied + i) : i \in 1 .. n}) :
            \A i \in DOMAIN rows : \A j \in 1 .. i - 1 : first(rows[j]) < first(rows[i])}

Locks_LanguagesFirst(n) == {l \o w : l \in RowsOf("lang", n), w \in RowsOf("wiki", n)}

\* The locks apply_events waits for, in order. Nobody else takes locks of the
\* other two tables, whose statements come last: they are part of the commit.
Locks(n) == {w \o l : w \in RowsOf("wiki", n), l \in RowsOf("lang", n)}

Written == {RowOf(t, applied + i) : t \in {"wiki", "lang", "page", "user"}, i \in 1 .. batch}

\* How many edits the batch adds to a row.
Added(row) == Cardinality({i \in 1 .. batch : RowOf(row.table, applied + i) = row})

Old(row) == IF row \in DOMAIN table THEN table[row] ELSE [edits |-> 0, users |-> 0]

Upserted_Overwrites(rows) ==
    [row \in DOMAIN table \union rows |->
        IF row \in rows THEN [edits |-> Added(row), users |-> Old(row).users] ELSE table[row]]

Upserted_ResetsUsers(rows) ==
    [row \in DOMAIN table \union rows |->
        IF row \in rows THEN [edits |-> Old(row).edits + Added(row), users |-> 0]
                        ELSE table[row]]

\* INSERT ... ON CONFLICT DO UPDATE: the additive columns grow, the distinct
\* ones are left alone.
Upserted(rows) ==
    [row \in DOMAIN table \union rows |->
        IF row \in rows THEN [edits |-> Old(row).edits + Added(row), users |-> Old(row).users]
                        ELSE table[row]]

Kept(rows) == [row \in rows |-> table[row]]

\* The two transactions wait for each other.
CircularWait ==
    /\ upserts # <<>> /\ Head(upserts) \in held["reconcile"]
    /\ updates # <<>> /\ Head(updates) \in held["analytics"]
    /\ Head(updates) \in DOMAIN table

Release(who) == held' = [held EXCEPT ![who] = {}]

Fails ==
    \/ CircularWait /\ failures' = failures
    \/ failures < MaxFailures /\ failures' = failures + 1
-------------------------------------------------------------------------------
(* Actions.                                                                *)

Init ==
    /\ clock = 0
    /\ table = [row \in {} |-> 0]
    /\ applied = 0 /\ batch = 0 /\ upserts = <<>> /\ flushing = FALSE
    /\ shown = 0
    /\ back = Lookback /\ since = 0 /\ updates = <<>> /\ users = [row \in {} |-> 0]
    /\ writing = FALSE
    /\ held = [who \in {"analytics", "reconcile"} |-> {}]
    /\ failures = 0

\* No event is as late as the retention is long.
HourPasses ==
    /\ clock < MaxHour
    /\ \A e \in Events : Log[e].hour <= clock + 1 - Retention => e <= applied
    /\ clock' = clock + 1
    /\ UNCHANGED <<table, flushVars, shown, reconcileVars, held, failures>>

\* Elasticsearch shows the next event, in its own time.
Index ==
    /\ shown < Len(Log) /\ Log[shown + 1].hour <= clock
    /\ shown' = shown + 1
    /\ UNCHANGED <<clock, table, flushVars, reconcileVars, held, failures>>

\* A flush of the events at hand, those of a failed flush included.
FlushStarts ==
    /\ ~flushing
    /\ batch' \in Max({1, batch}) .. Max({BatchSize, batch})
    /\ applied + batch' <= Len(Log)
    /\ \A i \in 1 .. batch' : Log[applied + i].hour <= clock
    /\ flushing' = TRUE
    /\ upserts' \in Locks(batch')
    /\ UNCHANGED <<clock, table, applied, shown, reconcileVars, held, failures>>

UpsertRow ==
    /\ upserts # <<>>
    /\ Head(upserts) \notin held["reconcile"]
    /\ held' = [held EXCEPT !["analytics"] = @ \union {Head(upserts)}]
    /\ upserts' = Tail(upserts)
    /\ UNCHANGED <<clock, table, applied, batch, flushing, shown, reconcileVars, failures>>

FlushCommits ==
    /\ flushing /\ upserts = <<>>
    /\ table' = Upserted(Written)
    /\ applied' = applied + batch
    /\ batch' = 0
    /\ flushing' = FALSE
    /\ Release("analytics")
    /\ UNCHANGED <<clock, upserts, shown, reconcileVars, failures>>

FlushFails_WithoutRollback ==
    /\ flushing
    /\ Fails
    /\ table' = Upserted(held["analytics"])
    /\ flushing' = FALSE
    /\ upserts' = <<>>
    /\ Release("analytics")
    /\ UNCHANGED <<clock, applied, batch, shown, reconcileVars>>

\* Rolled back; the consumer keeps its batch.
FlushFails ==
    /\ flushing
    /\ Fails
    /\ flushing' = FALSE
    /\ upserts' = <<>>
    /\ Release("analytics")
    /\ UNCHANGED <<clock, table, applied, batch, shown, reconcileVars>>

\* run_reconcile, from the current hour backwards.
PassStarts ==
    /\ back = Lookback
    /\ back' = 0
    /\ since' = clock
    /\ UNCHANGED <<clock, table, flushVars, shown, updates, users, writing, held, failures>>

Hour == since - back

ShownIn(hour) == {e \in 1 .. shown : Log[e].hour = hour}

UsersOf(events) == Cardinality({Log[e].user : e \in events})

InLanguage(events, l) == {e \in events : Log[e].language = l}

\* The languages of the query's buckets, the most active first.
Buckets(events) ==
    LET found == {Log[e].language : e \in events}
        edits(l) == Cardinality(InLanguage(events, l))
        size == Min({MaxBuckets, Cardinality(found)})
    IN  {s \in UNION {SetToSeqs(top) : top \in kSubset(size, found)} :
            \A l \in found, i \in 1 .. size :
                \/ edits(l) <= edits(s[i])
                \/ \E j \in 1 .. i : s[j] = l}

EmptyHour_EndsPass == Lookback

\* An hour without events is skipped.
EmptyHour == back + 1

QueryHour ==
    /\ back < Lookback /\ ~writing
    /\ LET events == ShownIn(Hour)
       IN  IF events = {}
           THEN back' = EmptyHour /\ UNCHANGED <<updates, users, writing>>
           ELSE \E languages \in Buckets(events) :
                  LET langRow(l) == Row("lang", Hour, <<l>>, "live")
                      wikiRow == Row("wiki", Hour, <<>>, "live")
                      count(row) == IF row = wikiRow THEN UsersOf(events)
                                    ELSE UsersOf(InLanguage(events, row.key[1]))
                      rows == <<wikiRow>> \o [i \in DOMAIN languages |-> langRow(languages[i])]
                  IN  /\ updates' = rows
                      /\ users' = [row \in ToSet(rows) |-> count(row)]
                      /\ writing' = TRUE
                      /\ back' = back
    /\ UNCHANGED <<clock, table, flushVars, shown, since, held, failures>>

\* Elasticsearch does not answer: the hour is skipped.
QueryFails ==
    /\ back < Lookback /\ ~writing
    /\ failures < MaxFailures
    /\ failures' = failures + 1
    /\ back' = back + 1
    /\ UNCHANGED <<clock, table, flushVars, shown, since, updates, users, writing,
                   held>>

\* UPDATE: nothing happens to a row that is not there.
UpdateRow ==
    /\ updates # <<>>
    /\ \/ /\ Head(updates) \notin DOMAIN table
          /\ held' = held
       \/ /\ Head(updates) \in DOMAIN table \ held["analytics"]
          /\ held' = [held EXCEPT !["reconcile"] = @ \union {Head(updates)}]
    /\ updates' = Tail(updates)
    /\ UNCHANGED <<clock, table, flushVars, shown, back, since, users, writing, failures>>

WriteCommits ==
    /\ writing /\ updates = <<>>
    /\ table' = [row \in DOMAIN table |->
                    IF row \in held["reconcile"]
                    THEN [table[row] EXCEPT !.users = users[row]] ELSE table[row]]
    /\ writing' = FALSE
    /\ users' = [row \in {} |-> 0]
    /\ back' = back + 1
    /\ Release("reconcile")
    /\ UNCHANGED <<clock, flushVars, shown, since, updates, failures>>

\* Only the query's errors are caught: the pass is over.
WriteFails ==
    /\ writing
    /\ Fails
    /\ writing' = FALSE
    /\ updates' = <<>>
    /\ users' = [row \in {} |-> 0]
    /\ back' = Lookback
    /\ Release("reconcile")
    /\ UNCHANGED <<clock, table, flushVars, shown, since>>

\* run_cleanup of the aggregates: one transaction over all tables.
CleanupAgg ==
    LET old == {row \in DOMAIN table : row.hour <= clock - Retention}
    IN  /\ old # {}
        /\ \A who \in DOMAIN held : held[who] \intersect old = {}
        /\ table' = Kept(DOMAIN table \ old)
        /\ UNCHANGED <<clock, flushVars, shown, reconcileVars, held, failures>>

\* One transaction of inserts, for the current hour and those before it.
Seed ==
    /\ DOMAIN table = {}
    /\ LET rows == {Row(t, hour, Key(t, Log[e]), "synthetic") :
                       t \in {"wiki", "lang", "page", "user"}, e \in Events,
                       hour \in Max({0, clock + 1 - Retention}) .. clock}
       IN  table' = [row \in rows |-> [edits |-> 1, users |-> 3]]
    /\ UNCHANGED <<clock, flushVars, shown, reconcileVars, held, failures>>

Unseed ==
    /\ \E row \in DOMAIN table : row.source = "synthetic"
    /\ table' = Kept({row \in DOMAIN table : row.source # "synthetic"})
    /\ UNCHANGED <<clock, flushVars, shown, reconcileVars, held, failures>>

Next ==
    \/ HourPasses \/ Index
    \/ FlushStarts \/ UpsertRow \/ FlushCommits \/ FlushFails
    \/ PassStarts \/ QueryHour \/ QueryFails \/ UpdateRow \/ WriteCommits \/ WriteFails
    \/ CleanupAgg \/ Seed \/ Unseed

Spec == Init /\ [][Next]_vars

\* Time passes; the analytics consumer and the indexer work off their logs
\* (modules Analytics and Indexer); the scheduler runs the reconciliation again
\* and again; who waits for a row lock is next in its queue, and a circular wait
\* ends with the failure of one of the two.
Fairness ==
    /\ WF_vars(HourPasses) /\ WF_vars(Index)
    /\ WF_vars(FlushStarts \/ FlushCommits) /\ SF_vars(UpsertRow)
    /\ WF_vars(PassStarts \/ QueryHour \/ WriteCommits) /\ SF_vars(UpdateRow)
    /\ WF_vars(CircularWait /\ (FlushFails \/ WriteFails))

FairSpec == Spec /\ Fairness
-------------------------------------------------------------------------------
(* The dashboard's queries, each cut to a limit: the sets of the answers    *)
(* the database may give.                                                  *)

SumEdits(rows) == MapThenSumSet(LAMBDA row : table[row].edits, rows)

RowsIn(t) == {row \in DOMAIN table : row.table = t}

\* ORDER BY hour DESC LIMIT.
Timeseries(limit) ==
    LET rows == RowsIn("wiki")
        newest == {S \in kSubset(Min({limit, Cardinality(rows)}), rows) :
                      \A row \in S, older \in rows \ S : older.hour <= row.hour}
    IN  {[row \in S |-> table[row].edits] : S \in newest}

\* GROUP BY ... ORDER BY edits DESC LIMIT, of the rows of a table with the group
\* of each.
Top(t, group, limit) ==
    LET groups == {group[row] : row \in RowsIn(t)}
        edits == [x \in groups |-> SumEdits({row \in RowsIn(t) : group[row] = x})]
        most == {S \in kSubset(Min({limit, Cardinality(groups)}), groups) :
                    \A x \in S, y \in groups \ S : edits[y] <= edits[x]}
    IN  {[x \in S |-> edits[x]] : S \in most}

ByKey(t) == [row \in RowsIn(t) |-> row.key]

TopLanguages(limit) == Top("lang", ByKey("lang"), limit)

TopPages(limit) == Top("page", ByKey("page"), limit)

\* By name and by the is_bot a row was inserted with: that of its first event,
\* which a later row of the same name may contradict.
TopUsers(limit) ==
    UNION {Top("user", [row \in RowsIn("user") |-> <<row.key, row \in bots>>], limit) :
              bots \in SUBSET RowsIn("user")}

Total(answer) == MapThenSumSet(LAMBDA i : answer[i], DOMAIN answer)
-------------------------------------------------------------------------------
(* Properties.                                                             *)

\* Lists of the most active have no more edits than all hours together, and no
\* fewer when they are shorter than their limit.
AddUp(answers, limit) ==
    \A answer \in answers :
        /\ Total(answer) <= SumEdits(RowsIn("wiki"))
        /\ Cardinality(DOMAIN answer) < limit => Total(answer) = SumEdits(RowsIn("wiki"))

\* The four tables tell the same story at every moment a query may come: a batch
\* shows in all of them or in none, whatever fails. The hours of a time series
\* have as many edits in each of the other tables; the most active languages,
\* pages or users never have more than all hours together, and no fewer when the
\* list is shorter than its limit. (A list that was cut says no more than that;
\* the demo data do not add up, so this is about a database without them.)
DashboardAgrees ==
    (\A row \in DOMAIN table : row.source = "live") =>
        \A limit \in Limits :
            /\ \A answer \in Timeseries(limit), t \in {"lang", "page", "user"} :
                  LET hours == {row.hour : row \in DOMAIN answer}
                  IN  Total(answer) = SumEdits({row \in RowsIn(t) : row.hour \in hours})
            /\ AddUp(TopLanguages(limit), limit)
            /\ AddUp(TopPages(limit), limit)
            /\ AddUp(TopUsers(limit), limit)

\* No lost update: every row that has not expired counts exactly the applied
\* events of its key, although the reconciliation rewrites the same rows, and
\* the demo data come and go beside them.
EveryEditCounted ==
    \A t \in {"wiki", "lang", "page", "user"} : \A e \in 1 .. applied :
        Log[e].hour > clock - Retention =>
            /\ RowOf(t, e) \in DOMAIN table
            /\ table[RowOf(t, e)].edits =
                 Cardinality({f \in 1 .. applied : RowOf(t, f) = RowOf(t, e)})

\* The distinct count of a row never goes back: the upserts leave it alone
\* (aggregates.py:8-12), and each reconciliation knows at least what the one
\* before it knew.
DistinctNeverShrinks ==
    [][\A row \in DOMAIN table \intersect DOMAIN table' :
          row.source = "live" => table'[row].users >= table[row].users]_table

\* Both transactions start an hour with its row of hourly_wiki_stats, so they
\* cannot block each other once the reconciliation holds it: a deadlock takes a
\* reconciliation that found no such row, in the first moments of an hour.
WikiRowIsTheGate ==
    CircularWait => Row("wiki", Hour, <<>>, "live") \notin held["reconcile"]

\* The distinct counts of the hours within the lookback become those of the
\* events, in spite of rows that were not there yet when the reconciliation came
\* by (reconcile_live.py:3-10): of the hour as a whole, and of its languages
\* unless the query leaves some out.
DistinctConverges ==
    \A e \in Events :
        LET hour == Log[e].hour
            events == {f \in Events : Log[f].hour = hour}
            mine == InLanguage(events, Log[e].language)
        IN  hour > MaxHour - Lookback =>
              <>[](/\ {RowOf("wiki", e), RowOf("lang", e)} \subseteq DOMAIN table
                   /\ table[RowOf("wiki", e)].users = UsersOf(events)
                   /\ Cardinality({Log[f].language : f \in events}) <= MaxBuckets =>
                        table[RowOf("lang", e)].users = UsersOf(mine))
===============================================================================
