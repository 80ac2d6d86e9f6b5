-------------------------- MODULE ConsolidationProof --------------------------
(***************************************************************************)
(* Proofs about Consolidation, for every length of an hour, of a window    *)
(* and of the retentions, every number of documents and of faults.         *)
(***************************************************************************)
EXTENDS Consolidation, FiniteSetTheorems, TLAPS

-------------------------------------------------------------------------------
(* The invariant.                                                          *)

Label == {"down", "ready", "count", "select", "write", "asleep", "over"}

Document == [id : Nat, stamp : Int, index : Int]

TypeInv ==
    /\ tick \in Nat
    /\ IsFiniteSet(arrived) /\ arrived \subseteq Document /\ docs \subseteq arrived
    /\ pc \in [Programs -> Label]
    /\ pc["scheduler"] \in {"down", "count", "select", "write", "asleep"}
    /\ win \in [Programs -> Int] /\ begun \in [Programs -> Nat]
    /\ count \in [Programs -> Nat] /\ due \in [Programs -> Nat]
    /\ counted \in [Programs -> BOOLEAN] /\ existing \in [Programs -> BOOLEAN]

\* The clock never runs past what OnTime allows, so the last window of the
\* scheduler is the one that was the latest when its last pass began.
TimeInv ==
    /\ \A p \in Programs : Passing(p) =>
          /\ begun[p] <= tick /\ tick <= begun[p] + Slip
          /\ win[p] = begun[p] \div PerHour - Window
    /\ pc["scheduler"] = "asleep" => tick <= begun["scheduler"] + Interval + Slip
    /\ pc["scheduler"] # "down" => last = begun["scheduler"] \div PerHour - Window

\* An index takes events of its hour and of the one before, and the cleanup
\* deletes it only when it is older than the retention.
DocsInv ==
    /\ \A d \in arrived : d.stamp <= d.index
    /\ \A d \in arrived \ docs : Expired(d)

\* A pass that has counted has counted enough and nothing else.
PassInv ==
    \A p \in Programs :
        /\ Passing(p) => due[p] <= Arrived(win[p])
        /\ pc[p] \in {"select", "write"} /\ counted[p] =>
              due[p] <= count[p] /\ count[p] <= Arrived(win[p])

RowType == \A w \in DOMAIN rows : rows[w] \in [count : Nat, due : Nat, counted : BOOLEAN]

IInv == TypeInv /\ TimeInv /\ DocsInv /\ PassInv /\ RowType /\ RowsCountTheirWindow

-------------------------------------------------------------------------------
(* The hours of the clock.                                                 *)

\* The hour of a tick begins at most an hour before it.
LEMMA HourOf ==
    ASSUME NEW P \in Nat \ {0}, NEW n \in Int
    PROVE  n \div P \in Int /\ P * (n \div P) <= n /\ n < P * (n \div P) + P
  OBVIOUS

\* Products keep the order of their factors.
LEMMA Scaled ==
    ASSUME NEW P \in Nat \ {0}, NEW a \in Int, NEW b \in Int
    PROVE  P * a \in Int /\ (a <= b => P * a <= P * b) /\ P * (a + 1) = P * a + P
  OBVIOUS

\* Only one hour has the tick.
LEMMA HourIs ==
    ASSUME NEW P \in Nat \ {0}, NEW n \in Int, NEW q \in Int,
           P * q <= n, n < P * q + P
    PROVE  n \div P = q
<1> PICK k \in Int : k = n \div P /\ P * k <= n /\ n < P * k + P
  BY HourOf
<1>1. ~ (k + 1 <= q)
  <2>1. P * (k + 1) = P * k + P /\ (k + 1 <= q => P * (k + 1) <= P * q)
        /\ P * k \in Int /\ P * q \in Int
    BY Scaled
  <2> QED
    BY <2>1
<1>2. ~ (q + 1 <= k)
  <2>1. P * (q + 1) = P * q + P /\ (q + 1 <= k => P * (q + 1) <= P * k)
        /\ P * k \in Int /\ P * q \in Int
    BY Scaled
  <2> QED
    BY <2>1
<1> QED
  BY <1>1, <1>2

\* A later tick is of the same hour or of a later one, and of the next at most
\* when less than an hour has passed.
LEMMA HoursPass ==
    ASSUME NEW P \in Nat \ {0}, NEW m \in Int, NEW n \in Int, m <= n
    PROVE  /\ m \div P <= n \div P
           /\ n < m + P => n \div P <= m \div P + 1
<1> PICK a \in Int : a = m \div P /\ P * a <= m /\ m < P * a + P
  BY HourOf
<1> PICK b \in Int : b = n \div P /\ P * b <= n /\ n < P * b + P
  BY HourOf
<1>1. a <= b
  <2>1. P * (b + 1) = P * b + P /\ (b + 1 <= a => P * (b + 1) <= P * a)
        /\ P * a \in Int /\ P * b \in Int
    BY Scaled
  <2> QED
    BY <2>1
<1>2. n < m + P => b <= a + 1
  <2>1. P * (a + 1) = P * a + P /\ P * (a + 1 + 1) = P * (a + 1) + P
        /\ (a + 1 + 1 <= b => P * (a + 1 + 1) <= P * b)
        /\ P * a \in Int /\ P * b \in Int
    BY Scaled
  <2> QED
    BY <2>1
<1> QED
  BY <1>1, <1>2

\* W hours and less than an hour later it is W hours later, or W + 1.
LEMMA HoursLater ==
    ASSUME NEW P \in Nat \ {0}, NEW W \in Nat, NEW m \in Int, NEW n \in Int,
           m + W * P <= n, n < m + W * P + P
    PROVE  n \div P - (m \div P + W) \in {0, 1}
<1> PICK a \in Int : a = m \div P /\ P * a <= m /\ m < P * a + P
  BY HourOf
<1>1. /\ P * (a + W) = P * a + W * P
      /\ P * (a + W + 1) = P * (a + W) + P
      /\ P * a \in Int /\ W * P \in Int
  OBVIOUS
<1>2. CASE n < P * (a + W) + P
  <2>1. n \div P = a + W
    <3>1. P * (a + W) <= n
      BY <1>1
    <3> QED
      BY <1>2, <3>1, HourIs
  <2> QED
    BY <2>1
<1>3. CASE ~ (n < P * (a + W) + P)
  <2>1. n \div P = a + W + 1
    <3>1. P * (a + W + 1) <= n /\ n < P * (a + W + 1) + P
      BY <1>1, <1>3
    <3> QED
      BY <3>1, HourIs
  <2> QED
    BY <2>1
<1> QED
  BY <1>2, <1>3

USE CountAssumption, IntervalAssumption, RetentionAssumption

\* The lengths are natural numbers, the interval too.
LEMMA Lengths ==
    /\ PerHour \in Nat \ {0} /\ Window \in Nat \ {0} /\ Slip \in Nat \ {0}
    /\ Retention \in Nat /\ WindowRetention \in Nat
    /\ Slip < PerHour /\ Window + 1 <= Retention
    /\ Interval = Window * PerHour /\ Interval \in Nat
<1>1. PerHour \in Nat /\ Window \in Nat
  BY CountAssumption
<1>2. Window * PerHour \in Nat
  BY ONLY <1>1
<1> QED
  BY <1>2, CountAssumption, IntervalAssumption, RetentionAssumption

-------------------------------------------------------------------------------
(* The documents of a window.                                              *)

Of(w, S) == {d \in S : d.stamp \in w .. w + Window - 1}

\* Of more documents a window has no fewer.
LEMMA MoreDocuments ==
    ASSUME NEW S, IsFiniteSet(S), NEW T \in SUBSET S, NEW w
    PROVE  /\ Cardinality(Of(w, T)) \in Nat
           /\ Cardinality(Of(w, T)) <= Cardinality(Of(w, S))
<1>1. Of(w, S) \subseteq S /\ Of(w, T) \subseteq Of(w, S)
  BY DEF Of
<1>2. IsFiniteSet(Of(w, S)) /\ IsFiniteSet(Of(w, T))
  BY <1>1, FS_Subset
<1> QED
  BY <1>1, <1>2, FS_Subset, FS_CardinalityType

\* What has arrived of a window.
LEMMA ArrivedIs ==
    ASSUME TypeInv, NEW w
    PROVE  Arrived(w) = Cardinality(Of(w, arrived)) /\ Arrived(w) \in Nat
<1>1. Arrived(w) = Cardinality(Of(w, arrived))
  BY DEF Arrived, Of
<1> QED
  BY <1>1, MoreDocuments DEF TypeInv

\* It never gets less.
LEMMA ArrivedGrows ==
    ASSUME TypeInv, TypeInv', arrived \subseteq arrived', NEW w
    PROVE  Arrived(w) <= Arrived(w)' /\ Arrived(w) \in Nat /\ Arrived(w)' \in Nat
<1>1. Arrived(w) = Cardinality(Of(w, arrived)) /\ Arrived(w) \in Nat
  BY ArrivedIs
<1>2. Arrived(w)' = Cardinality(Of(w, arrived'))
  BY DEF Arrived, Of
<1>3. IsFiniteSet(arrived')
  BY DEF TypeInv
<1> QED
  BY <1>1, <1>2, <1>3, MoreDocuments

\* What the cleanup has left of a window is a finite number of documents.
LEMMA CountedType ==
    ASSUME TypeInv, NEW w
    PROVE  Counted(w) \in Nat
<1>1. {d \in docs : InWindow(w, d)} \subseteq arrived /\ IsFiniteSet(arrived)
  BY DEF TypeInv
<1> QED
  BY <1>1, FS_Subset, FS_CardinalityType DEF Counted

\* The hour is a number, and that of a later tick is no earlier.
LEMMA HourGrows ==
    ASSUME TypeInv, TypeInv', tick <= tick'
    PROVE  hour \in Int /\ hour' \in Int /\ hour <= hour'
<1>1. tick \in Int /\ tick' \in Int /\ PerHour \in Nat \ {0}
  BY Lengths DEF TypeInv
<1>2. tick \div PerHour \in Int /\ tick' \div PerHour \in Int
      /\ tick \div PerHour <= tick' \div PerHour
  BY <1>1, HourOf, HoursPass
<1> QED
  BY <1>2 DEF hour

\* The latest window starts at a full hour.
LEMMA LatestType ==
    ASSUME TypeInv
    PROVE  /\ hour \in Int /\ LatestWindow \in Int
           /\ LatestWindow = tick \div PerHour - Window
<1>1. tick \in Int /\ PerHour \in Nat \ {0} /\ Window \in Nat
  BY Lengths DEF TypeInv
<1>2. tick \div PerHour \in Int
  BY <1>1, HourOf
<1> QED
  BY <1>1, <1>2 DEF hour, LatestWindow

-------------------------------------------------------------------------------
(* The types.                                                              *)

\* The programs are two.
LEMMA ProgramNames ==
    /\ \A p \in Programs : p = "scheduler" \/ p = "manual"
    /\ "scheduler" \in Programs /\ "manual" \in Programs
  BY DEF Programs

\* A pass that begins keeps the types.
LEMMA BeginTypes ==
    ASSUME TypeInv, NEW p \in Programs, Begin(p)
    PROVE  TypeInv'
<1>1. LatestWindow \in Int /\ Arrived(LatestWindow) \in Nat
  BY LatestType, ArrivedIs
<1>2. /\ pc' \in [Programs -> Label]
      /\ pc'["scheduler"] \in {"down", "count", "select", "write", "asleep"}
  BY ProgramNames DEF TypeInv, Begin, Label
<1>3. /\ win' \in [Programs -> Int] /\ begun' \in [Programs -> Nat]
      /\ due' \in [Programs -> Nat]
  BY <1>1 DEF TypeInv, Begin, Label
<1> QED
  BY <1>2, <1>3 DEF TypeInv, Begin, Label

\* So does one that ends.
LEMMA EndTypes ==
    ASSUME TypeInv, NEW p \in Programs, NEW l, End(p, l),
           \/ p = "scheduler" /\ l \in {"asleep", "down"}
           \/ p = "manual" /\ l = "over"
    PROVE  TypeInv'
<1>1. /\ pc' \in [Programs -> Label]
      /\ pc'["scheduler"] \in {"down", "count", "select", "write", "asleep"}
  BY ProgramNames DEF TypeInv, End, Label
<1>2. win' \in [Programs -> Int] /\ None \in Int
  BY DEF TypeInv, End, None
<1>3. /\ count' \in [Programs -> Nat] /\ due' \in [Programs -> Nat]
      /\ counted' \in [Programs -> BOOLEAN] /\ existing' \in [Programs -> BOOLEAN]
  BY DEF TypeInv, End, Label
<1> QED
  BY <1>1, <1>2, <1>3 DEF TypeInv, End, Label

\* Every step keeps the types.
LEMMA TypeKept ==
    ASSUME TypeInv, [Next]_vars
    PROVE  TypeInv'
<1>1. CASE Tick
  BY <1>1 DEF Tick, TypeInv, passVars
<1>2. CASE Indexed
  <2> PICK stamp \in {hour - 1, hour} :
          docs' = docs \union {[id |-> Cardinality(arrived), stamp |-> stamp, index |-> hour]}
          /\ arrived' = arrived \union {[id |-> Cardinality(arrived), stamp |-> stamp, index |-> hour]}
    BY <1>2 DEF Indexed
  <2>1. hour \in Int /\ stamp \in Int /\ Cardinality(arrived) \in Nat
    <3>1. hour \in Int
      BY LatestType
    <3>2. stamp \in Int
      BY <3>1
    <3>3. Cardinality(arrived) \in Nat
      BY FS_CardinalityType DEF TypeInv
    <3> QED
      BY <3>1, <3>2, <3>3
  <2> PICK d : d = [id |-> Cardinality(arrived), stamp |-> stamp, index |-> hour]
    OBVIOUS
  <2>2. d \in Document
    BY <2>1 DEF Document
  <2>3. IsFiniteSet(arrived \union {d})
    BY FS_AddElement DEF TypeInv
  <2>4. arrived' = arrived \union {d} /\ docs' = docs \union {d}
    OBVIOUS
  <2> QED
    BY <1>2, <2>2, <2>3, <2>4 DEF TypeInv, Indexed, passVars
<1>3. CASE CleanupLive
  BY <1>3 DEF CleanupLive, TypeInv, passVars
<1>4. CASE CleanupWindows
  BY <1>4 DEF CleanupWindows, TypeInv, passVars
<1>5. CASE SchedulerBegins
  BY <1>5, BeginTypes, ProgramNames DEF SchedulerBegins
<1>6. CASE ManualBegins
  BY <1>6, BeginTypes, ProgramNames DEF ManualBegins
<1>7. ASSUME NEW p \in Programs, CountDocs(p)
      PROVE  TypeInv'
  <2>1. Counted(win[p]) \in Nat
    BY CountedType
  <2>2. count' \in [Programs -> Nat] /\ counted' \in [Programs -> BOOLEAN]
    <3>1. PICK n \in Nat, b \in BOOLEAN :
              count' = [count EXCEPT ![p] = n] /\ counted' = [counted EXCEPT ![p] = b]
      BY <1>7, <2>1 DEF CountDocs
    <3> QED
      BY <3>1 DEF TypeInv
  <2>3. /\ pc' \in [Programs -> Label]
        /\ pc'["scheduler"] \in {"down", "count", "select", "write", "asleep"}
    BY <1>7, ProgramNames DEF CountDocs, TypeInv, Label
  <2> QED
    BY <1>7, <2>2, <2>3 DEF CountDocs, TypeInv
<1>8. ASSUME NEW p \in Programs, Select(p)
      PROVE  TypeInv'
  <2>1. existing' \in [Programs -> BOOLEAN]
    BY <1>8 DEF Select, TypeInv
  <2>2. /\ pc' \in [Programs -> Label]
        /\ pc'["scheduler"] \in {"down", "count", "select", "write", "asleep"}
    BY <1>8, ProgramNames DEF Select, TypeInv, Label
  <2> QED
    BY <1>8, <2>1, <2>2 DEF Select, TypeInv
<1>9. ASSUME NEW p \in Programs, Write(p) \/ PassFails(p)
      PROVE  TypeInv'
  <2>1. End(p, Ended(p))
    BY <1>9 DEF Write, PassFails
  <2> QED
    BY <2>1, EndTypes, ProgramNames DEF Ended
<1>10. CASE ProcessEnds
  BY <1>10, EndTypes, ProgramNames DEF ProcessEnds
<1>11. CASE UNCHANGED vars
  BY <1>11 DEF vars, TypeInv
<1> QED
  BY <1>1, <1>2, <1>3, <1>4, <1>5, <1>6, <1>7, <1>8, <1>9, <1>10, <1>11 DEF Next, PassStep

-------------------------------------------------------------------------------
(* The clock and the passes.                                               *)

\* A step that is not a pass's, nor the clock's.
Aside == UNCHANGED <<tick, pc, passVars, begun, last>>

\* A pass that begins takes the window that is the latest.
LEMMA BeginTime ==
    ASSUME TypeInv, TimeInv, NEW p \in Programs, Begin(p),
           last' = IF p = "scheduler" THEN LatestWindow ELSE last,
           p = "manual" => pc[p] = "ready"
    PROVE  TimeInv'
<1>1. LatestWindow = tick \div PerHour - Window
  BY LatestType
<1>2. /\ pc' = [pc EXCEPT ![p] = "count"] /\ pc \in [Programs -> Label]
      /\ win' = [win EXCEPT ![p] = LatestWindow] /\ win \in [Programs -> Int]
      /\ begun' = [begun EXCEPT ![p] = tick] /\ begun \in [Programs -> Nat]
      /\ tick' = tick /\ tick \in Nat
  BY DEF Begin, TypeInv
<1>3. /\ pc'[p] = "count" /\ win'[p] = LatestWindow /\ begun'[p] = tick
      /\ \A q \in Programs : q # p => pc'[q] = pc[q] /\ win'[q] = win[q] /\ begun'[q] = begun[q]
  BY <1>2
<1>4. ASSUME NEW q \in Programs, Passing(q)'
      PROVE  /\ begun'[q] <= tick' /\ tick' <= begun'[q] + Slip
             /\ win'[q] = begun'[q] \div PerHour - Window
  <2>1. CASE q = p
    BY <1>1, <1>2, <1>3, <2>1, Lengths
  <2>2. CASE q # p
    <3>1. Passing(q)
      BY <1>3, <1>4, <2>2 DEF Passing
    <3> QED
      BY <1>2, <1>3, <2>2, <3>1 DEF TimeInv
  <2> QED
    BY <2>1, <2>2
<1>5. pc'["scheduler"] = "asleep" => tick' <= begun'["scheduler"] + Interval + Slip
  BY <1>2, <1>3, ProgramNames DEF TimeInv
<1>6. pc'["scheduler"] # "down" => last' = begun'["scheduler"] \div PerHour - Window
  <2>1. CASE p = "scheduler"
    BY <1>1, <1>3, <2>1
  <2>2. CASE p # "scheduler"
    BY <1>3, <2>2, ProgramNames DEF TimeInv
  <2> QED
    BY <2>1, <2>2
<1> QED
  BY <1>4, <1>5, <1>6 DEF TimeInv

\* A pass that goes on or ends, within its time.
LEMMA PassTime ==
    ASSUME TypeInv, TimeInv, NEW p \in Programs, Passing(p), NEW l,
           pc' = [pc EXCEPT ![p] = l], l # "down",
           \/ l \in {"select", "write"} /\ win' = win
           \/ l \notin {"count", "select", "write"} /\ win' = [win EXCEPT ![p] = None],
           UNCHANGED <<tick, begun, last>>
    PROVE  TimeInv'
<1>1. /\ pc'[p] = l
      /\ \A q \in Programs : q # p => pc'[q] = pc[q] /\ win'[q] = win[q]
      /\ l \in {"select", "write"} => win'[p] = win[p]
  BY DEF TypeInv
<1>2. ASSUME NEW q \in Programs, Passing(q)'
      PROVE  Passing(q) /\ win'[q] = win[q]
  BY <1>1, <1>2 DEF Passing
<1>3. pc'["scheduler"] = "asleep" => tick <= begun["scheduler"] + Interval + Slip
  <2>1. begun["scheduler"] \in Nat /\ tick \in Nat /\ Slip \in Nat /\ Interval \in Nat
    BY Lengths, ProgramNames DEF TypeInv
  <2>2. CASE p = "scheduler"
    <3>1. tick <= begun["scheduler"] + Slip
      BY <2>2 DEF TimeInv
    <3> QED
      BY <2>1, <3>1
  <2>3. CASE p # "scheduler"
    BY <1>1, <2>3, ProgramNames DEF TimeInv
  <2> QED
    BY <2>2, <2>3
<1>4. pc'["scheduler"] # "down" => last = begun["scheduler"] \div PerHour - Window
  <2>1. pc'["scheduler"] # "down" => pc["scheduler"] # "down"
    BY <1>1, ProgramNames DEF Passing
  <2> QED
    BY <2>1 DEF TimeInv
<1> QED
  BY <1>2, <1>3, <1>4 DEF TimeInv

\* Every step keeps what is known of the time.
LEMMA TimeKept ==
    ASSUME TypeInv, TimeInv, [Next]_vars
    PROVE  TimeInv'
<1>1. CASE Tick
  <2>1. tick' = tick + 1 /\ UNCHANGED <<pc, win, begun, last>> /\ OnTime
    BY <1>1 DEF Tick, passVars
  <2>2. tick \in Nat /\ begun["scheduler"] \in Nat /\ \A p \in Programs : begun[p] \in Nat
    BY ProgramNames DEF TypeInv
  <2>3. Interval \in Nat /\ Slip \in Nat
    BY Lengths
  <2>4. ASSUME NEW p \in Programs, Passing(p)'
        PROVE  /\ begun'[p] <= tick' /\ tick' <= begun'[p] + Slip
               /\ win'[p] = begun'[p] \div PerHour - Window
    <3>1. Passing(p)
      BY <2>1, <2>4 DEF Passing
    <3>2. begun[p] <= tick /\ win[p] = begun[p] \div PerHour - Window /\ tick < begun[p] + Slip
      BY <2>1, <3>1 DEF TimeInv, OnTime
    <3> QED
      BY <2>1, <2>2, <2>3, <3>2
  <2>5. pc'["scheduler"] = "asleep" => tick' <= begun'["scheduler"] + Interval + Slip
    BY <2>1, <2>2, <2>3 DEF OnTime
  <2>6. pc'["scheduler"] # "down" => last' = begun'["scheduler"] \div PerHour - Window
    BY <2>1 DEF TimeInv
  <2> QED
    BY <2>4, <2>5, <2>6 DEF TimeInv
<1>2. CASE Indexed \/ CleanupLive \/ CleanupWindows
  <2>1. Aside
    BY <1>2 DEF Indexed, CleanupLive, CleanupWindows, Aside
  <2> QED
    BY <2>1 DEF Aside, passVars, TimeInv, Passing
<1>3. CASE SchedulerBegins
  BY <1>3, BeginTime, ProgramNames DEF SchedulerBegins
<1>4. CASE ManualBegins
  BY <1>4, BeginTime, ProgramNames DEF ManualBegins
<1>5. ASSUME NEW p \in Programs, CountDocs(p) \/ Select(p)
      PROVE  TimeInv'
  <2>1. Passing(p) /\ UNCHANGED <<tick, begun, last, win>>
    BY <1>5 DEF CountDocs, Select, Passing
  <2>2. PICK l \in {"select", "write"} : pc' = [pc EXCEPT ![p] = l]
    BY <1>5 DEF CountDocs, Select
  <2> QED
    BY <2>1, <2>2, PassTime
<1>6. ASSUME NEW p \in Programs, Write(p) \/ PassFails(p)
      PROVE  TimeInv'
  <2>1. Passing(p) /\ UNCHANGED <<tick, begun, last>> /\ win' = [win EXCEPT ![p] = None]
    BY <1>6 DEF Write, PassFails, Passing, End
  <2>2. PICK l : l = Ended(p)
    OBVIOUS
  <2>3. l \in {"asleep", "over"} /\ pc' = [pc EXCEPT ![p] = l]
    BY <1>6, <2>2 DEF Write, PassFails, End, Ended
  <2>4. l # "down" /\ l \notin {"count", "select", "write"}
    BY <2>3
  <2> QED
    BY <2>1, <2>3, <2>4, PassTime
<1>7. CASE ProcessEnds
  <2>1. /\ pc' = [pc EXCEPT !["scheduler"] = "down"]
        /\ win' = [win EXCEPT !["scheduler"] = None] /\ UNCHANGED <<tick, begun>>
    BY <1>7 DEF ProcessEnds, End
  <2>2. /\ pc'["scheduler"] = "down" /\ pc'["manual"] = pc["manual"]
        /\ win'["manual"] = win["manual"]
    BY <2>1, ProgramNames DEF TypeInv
  <2>3. ASSUME NEW p \in Programs, Passing(p)'
        PROVE  Passing(p) /\ win'[p] = win[p]
    BY <2>2, <2>3, ProgramNames DEF Passing
  <2> QED
    BY <2>1, <2>2, <2>3 DEF TimeInv
<1>8. CASE UNCHANGED vars
  BY <1>8 DEF vars, passVars, TimeInv, Passing
<1> QED
  BY <1>1, <1>2, <1>3, <1>4, <1>5, <1>6, <1>7, <1>8 DEF Next, PassStep

-------------------------------------------------------------------------------
(* The documents and the counts.                                           *)

\* Every step keeps what is known of the documents.
LEMMA DocsKept ==
    ASSUME TypeInv, TypeInv', DocsInv, [Next]_vars
    PROVE  DocsInv' /\ arrived \subseteq arrived'
<1>1. CASE Indexed
  <2> PICK stamp \in {hour - 1, hour} :
          docs' = docs \union {[id |-> Cardinality(arrived), stamp |-> stamp, index |-> hour]}
          /\ arrived' = arrived \union {[id |-> Cardinality(arrived), stamp |-> stamp, index |-> hour]}
    BY <1>1 DEF Indexed
  <2> PICK d : d = [id |-> Cardinality(arrived), stamp |-> stamp, index |-> hour]
    OBVIOUS
  <2>1. arrived' = arrived \union {d} /\ docs' = docs \union {d}
    OBVIOUS
  <2>2. d.stamp <= d.index
    BY LatestType
  <2>3. tick' = tick
    BY <1>1 DEF Indexed
  <2> QED
    BY <2>1, <2>2, <2>3 DEF DocsInv, Expired, hour
<1>2. CASE CleanupLive
  BY <1>2 DEF CleanupLive, DocsInv, Expired, hour
<1>3. CASE Tick \/ (docs' = docs /\ arrived' = arrived /\ tick' = tick)
  <2>1. docs' = docs /\ arrived' = arrived /\ tick <= tick'
    BY <1>3 DEF Tick, TypeInv
  <2>2. hour \in Int /\ hour' \in Int /\ hour <= hour' /\ Retention \in Nat
    BY <2>1, HourGrows, Lengths
  <2>3. ASSUME NEW d \in arrived' \ docs'
        PROVE  d.index < hour' - Retention
    <3>1. d.index \in Int /\ d.index < hour - Retention
      BY <2>1, <2>3 DEF DocsInv, Expired, TypeInv, Document
    <3> QED
      BY <2>2, <3>1
  <2> QED
    BY <2>1, <2>3 DEF DocsInv, Expired
<1>4. \/ Indexed \/ CleanupLive \/ Tick
      \/ (docs' = docs /\ arrived' = arrived /\ tick' = tick)
  BY DEF Next, PassStep, CleanupWindows, SchedulerBegins, ManualBegins, CountDocs, Select,
         Write, PassFails, ProcessEnds, Begin, End, vars
<1>5. arrived \subseteq arrived'
  <2>1. Indexed => arrived \subseteq arrived'
    BY DEF Indexed
  <2>2. CleanupLive \/ Tick => arrived \subseteq arrived'
    BY DEF CleanupLive, Tick
  <2> QED
    BY <1>4, <2>1, <2>2
<1>6. DocsInv'
  BY <1>1, <1>2, <1>3, <1>4
<1> QED
  BY <1>5, <1>6

\* The cleanup has left a window whole while a pass counts it.
LEMMA WindowIsWhole ==
    ASSUME TypeInv, TimeInv, DocsInv, NEW p \in Programs, Passing(p)
    PROVE  Counted(win[p]) = Arrived(win[p])
<1>1. /\ tick \in Int /\ begun[p] \in Int /\ begun[p] <= tick /\ tick < begun[p] + PerHour
      /\ win[p] = begun[p] \div PerHour - Window
  <2>1. begun[p] <= tick /\ tick <= begun[p] + Slip /\ win[p] = begun[p] \div PerHour - Window
    BY DEF TimeInv
  <2>2. tick \in Nat /\ begun[p] \in Nat
    BY DEF TypeInv
  <2> QED
    BY <2>1, <2>2, Lengths
<1>2. hour \in Int /\ win[p] \in Int /\ hour - Retention <= win[p]
  <2>1. tick \div PerHour <= begun[p] \div PerHour + 1
    BY <1>1, HoursPass, Lengths
  <2>2. tick \div PerHour \in Int /\ begun[p] \div PerHour \in Int
    BY <1>1, HourOf, Lengths
  <2> QED
    BY <1>1, <2>1, <2>2, Lengths DEF hour
<1>3. ASSUME NEW d \in arrived, win[p] <= d.stamp
      PROVE  d \in docs
  <2>1. d.stamp \in Int /\ d.index \in Int /\ d.stamp <= d.index
    BY DEF TypeInv, Document, DocsInv
  <2>2. ~ (d.index < hour - Retention)
    BY <1>2, <1>3, <2>1, Lengths
  <2> QED
    BY <2>2 DEF DocsInv, Expired
<1>4. \A d \in arrived :
          d.stamp \in win[p] .. win[p] + Window - 1 <=> InWindow(win[p], d)
  BY <1>2, Lengths DEF TypeInv, Document, InWindow
<1>5. {d \in docs : InWindow(win[p], d)}
          = {d \in arrived : d.stamp \in win[p] .. win[p] + Window - 1}
  BY <1>3, <1>4 DEF TypeInv, InWindow
<1> QED
  BY <1>5 DEF Counted, Arrived

\* What a program knows of its pass stays right as documents arrive.
LEMMA PassStays ==
    ASSUME TypeInv, TypeInv', PassInv, arrived \subseteq arrived', NEW q \in Programs,
           \/ ~ Passing(q)'
           \/ /\ pc'[q] = pc[q] /\ win'[q] = win[q] /\ due'[q] = due[q]
              /\ count'[q] = count[q] /\ counted'[q] = counted[q]
    PROVE  /\ Passing(q)' => due'[q] <= Arrived(win[q])'
           /\ pc'[q] \in {"select", "write"} /\ counted'[q] =>
                 due'[q] <= count'[q] /\ count'[q] <= Arrived(win[q])'
<1> SUFFICES ASSUME Passing(q)'
             PROVE  /\ due'[q] <= Arrived(win[q])'
                    /\ pc'[q] \in {"select", "write"} /\ counted'[q] =>
                          due'[q] <= count'[q] /\ count'[q] <= Arrived(win[q])'
  BY DEF Passing
<1>1. /\ pc'[q] = pc[q] /\ win'[q] = win[q] /\ due'[q] = due[q]
      /\ count'[q] = count[q] /\ counted'[q] = counted[q]
  OBVIOUS
<1> PICK w : w = win[q]
  OBVIOUS
<1>2. Arrived(w) <= Arrived(w)' /\ Arrived(w) \in Nat /\ Arrived(w)' \in Nat
  BY ArrivedGrows
<1>3. count[q] \in Nat /\ due[q] \in Nat
  BY DEF TypeInv
<1>4. Passing(q)
  BY <1>1 DEF Passing
<1>5. /\ due[q] <= Arrived(w)
      /\ pc[q] \in {"select", "write"} /\ counted[q] =>
            due[q] <= count[q] /\ count[q] <= Arrived(w)
  BY <1>4 DEF PassInv
<1>6. Arrived(w)' = Arrived(win[q])'
  BY <1>1 DEF Arrived
<1> QED
  BY <1>1, <1>2, <1>3, <1>5, <1>6

\* Every step keeps what is known of the counts.
LEMMA PassKept ==
    ASSUME TypeInv, TypeInv', TimeInv, DocsInv, DocsInv', PassInv,
           arrived \subseteq arrived', [Next]_vars
    PROVE  PassInv'
<1>1. CASE UNCHANGED <<pc, passVars>>
  <2>1. ASSUME NEW q \in Programs
        PROVE  /\ pc'[q] = pc[q] /\ win'[q] = win[q] /\ due'[q] = due[q]
               /\ count'[q] = count[q] /\ counted'[q] = counted[q]
    BY <1>1 DEF passVars
  <2> QED
    BY <2>1, PassStays DEF PassInv
<1>2. ASSUME NEW p \in Programs, Begin(p)
      PROVE  PassInv'
  <2>1. /\ pc'[p] = "count" /\ win'[p] = LatestWindow /\ due'[p] = Arrived(LatestWindow)
        /\ arrived' = arrived
    BY <1>2 DEF Begin, TypeInv
  <2>2. ASSUME NEW q \in Programs, q # p
        PROVE  /\ pc'[q] = pc[q] /\ win'[q] = win[q] /\ due'[q] = due[q]
               /\ count'[q] = count[q] /\ counted'[q] = counted[q]
    BY <1>2, <2>2 DEF Begin, TypeInv
  <2>3. Arrived(win[p])' = Arrived(LatestWindow) /\ Arrived(LatestWindow) \in Nat
    BY <2>1, ArrivedIs DEF Arrived
  <2>4. due'[p] <= Arrived(win[p])' /\ pc'[p] \notin {"select", "write"}
    BY <2>1, <2>3
  <2>5. ASSUME NEW q \in Programs
        PROVE  /\ Passing(q)' => due'[q] <= Arrived(win[q])'
               /\ pc'[q] \in {"select", "write"} /\ counted'[q] =>
                     due'[q] <= count'[q] /\ count'[q] <= Arrived(win[q])'
    BY <2>2, <2>4, PassStays
  <2> QED
    BY <2>5 DEF PassInv
<1>3. ASSUME NEW p \in Programs, NEW l \in {"asleep", "over", "down"}, End(p, l)
      PROVE  PassInv'
  <2>1. pc'[p] = l
    BY <1>3 DEF End, TypeInv
  <2>2. ~ Passing(p)'
    BY <2>1 DEF Passing
  <2>3. ASSUME NEW q \in Programs, q # p
        PROVE  /\ pc'[q] = pc[q] /\ win'[q] = win[q] /\ due'[q] = due[q]
               /\ count'[q] = count[q] /\ counted'[q] = counted[q]
    BY <1>3, <2>3 DEF End, TypeInv
  <2>4. ASSUME NEW q \in Programs
        PROVE  /\ Passing(q)' => due'[q] <= Arrived(win[q])'
               /\ pc'[q] \in {"select", "write"} /\ counted'[q] =>
                     due'[q] <= count'[q] /\ count'[q] <= Arrived(win[q])'
    BY <2>2, <2>3, PassStays
  <2> QED
    BY <2>4 DEF PassInv
<1>4. ASSUME NEW p \in Programs, CountDocs(p)
      PROVE  PassInv'
  <2>1. /\ pc[p] = "count" /\ Passing(p) /\ win' = win /\ due' = due /\ arrived' = arrived
    BY <1>4 DEF CountDocs, Passing
  <2>2. PICK n, b : /\ count' = [count EXCEPT ![p] = n] /\ counted' = [counted EXCEPT ![p] = b]
                    /\ b => n = Counted(win[p])
    BY <1>4 DEF CountDocs
  <2>3. count'[p] = n /\ counted'[p] = b
    BY <2>2 DEF TypeInv
  <2>4. Counted(win[p]) = Arrived(win[p]) /\ due[p] <= Arrived(win[p])
        /\ Arrived(win[p]) \in Nat
    BY <2>1, WindowIsWhole, ArrivedIs DEF PassInv
  <2>5. Arrived(win[p])' = Arrived(win[p])
    BY <2>1 DEF Arrived
  <2>6. ASSUME NEW q \in Programs, q # p
        PROVE  /\ pc'[q] = pc[q] /\ win'[q] = win[q] /\ due'[q] = due[q]
               /\ count'[q] = count[q] /\ counted'[q] = counted[q]
    BY <1>4, <2>1, <2>2, <2>6 DEF CountDocs, TypeInv
  <2>7. /\ due'[p] <= Arrived(win[p])'
        /\ counted'[p] => due'[p] <= count'[p] /\ count'[p] <= Arrived(win[p])'
    BY <2>1, <2>2, <2>3, <2>4, <2>5
  <2>8. ASSUME NEW q \in Programs
        PROVE  /\ Passing(q)' => due'[q] <= Arrived(win[q])'
               /\ pc'[q] \in {"select", "write"} /\ counted'[q] =>
                     due'[q] <= count'[q] /\ count'[q] <= Arrived(win[q])'
    BY <2>6, <2>7, PassStays
  <2> QED
    BY <2>8 DEF PassInv
<1>5. ASSUME NEW p \in Programs, Select(p)
      PROVE  PassInv'
  <2>1. /\ pc' = [pc EXCEPT ![p] = "write"] /\ pc[p] = "select"
        /\ UNCHANGED <<win, due, count, counted, arrived>>
    BY <1>5 DEF Select
  <2>2. \A q \in Programs : Passing(q)' => Passing(q)
    BY <2>1 DEF Passing, TypeInv
  <2>3. \A q \in Programs : pc'[q] \in {"select", "write"} => pc[q] \in {"select", "write"}
    BY <2>1 DEF TypeInv
  <2>4. \A q \in Programs : Arrived(win[q])' = Arrived(win[q])
    BY <2>1 DEF Arrived
  <2> QED
    BY <2>1, <2>2, <2>3, <2>4 DEF PassInv
<1>6. CASE Tick \/ Indexed \/ CleanupLive \/ CleanupWindows \/ UNCHANGED vars
  <2>1. UNCHANGED <<pc, passVars>>
    BY <1>6 DEF Tick, Indexed, CleanupLive, CleanupWindows, vars, passVars
  <2> QED
    BY <2>1, <1>1
<1>7. CASE SchedulerBegins \/ ManualBegins
  <2>1. Begin("scheduler") \/ Begin("manual")
    BY <1>7 DEF SchedulerBegins, ManualBegins
  <2> QED
    BY <2>1, <1>2, ProgramNames
<1>8. ASSUME NEW p \in Programs, Write(p) \/ PassFails(p)
      PROVE  PassInv'
  <2>1. End(p, Ended(p)) /\ Ended(p) \in {"asleep", "over", "down"}
    BY <1>8 DEF Write, PassFails, Ended
  <2> QED
    BY <2>1, <1>3
<1>9. CASE ProcessEnds
  <2>1. End("scheduler", "down")
    BY <1>9 DEF ProcessEnds
  <2> QED
    BY <2>1, <1>3, ProgramNames
<1> QED
  BY <1>4, <1>5, <1>6, <1>7, <1>8, <1>9 DEF Next, PassStep

-------------------------------------------------------------------------------
(* The rows.                                                               *)

\* A row that stays, while documents arrive, stays right.
LEMMA RowStays ==
    ASSUME TypeInv, TypeInv', arrived \subseteq arrived', RowType, RowsCountTheirWindow,
           NEW w \in DOMAIN rows, rows[w].counted
    PROVE  rows[w].due <= rows[w].count /\ rows[w].count <= Arrived(w)'
<1>1. rows[w].due <= rows[w].count /\ rows[w].count <= Arrived(w) /\ rows[w].count \in Nat
  BY DEF RowType, RowsCountTheirWindow
<1>2. Arrived(w) <= Arrived(w)' /\ Arrived(w) \in Nat /\ Arrived(w)' \in Nat
  BY ArrivedGrows
<1> QED
  BY <1>1, <1>2

\* Every step keeps the rows right.
LEMMA RowsKept ==
    ASSUME TypeInv, TypeInv', PassInv, RowType, RowsCountTheirWindow,
           arrived \subseteq arrived', [Next]_vars
    PROVE  RowType' /\ RowsCountTheirWindow'
<1>1. CASE rows' = rows
  BY <1>1, RowStays DEF RowType, RowsCountTheirWindow
<1>2. CASE CleanupWindows
  <2>1. PICK old : rows' = [w \in DOMAIN rows \ old |-> rows[w]]
    BY <1>2 DEF CleanupWindows
  <2>2. /\ DOMAIN rows' \subseteq DOMAIN rows
        /\ \A w \in DOMAIN rows' : rows'[w] = rows[w]
    BY <2>1
  <2> QED
    BY <2>2, RowStays DEF RowType, RowsCountTheirWindow
<1>3. ASSUME NEW p \in Programs, Write(p), rows' # rows
      PROVE  RowType' /\ RowsCountTheirWindow'
  <2> PICK row : row = [count |-> count[p], due |-> due[p], counted |-> counted[p]]
    OBVIOUS
  <2>1. rows' = [w \in DOMAIN rows \union {win[p]} |-> IF w = win[p] THEN row ELSE rows[w]]
    BY <1>3 DEF Write
  <2>2. /\ rows'[win[p]] = row
        /\ \A w \in DOMAIN rows' : w # win[p] => w \in DOMAIN rows /\ rows'[w] = rows[w]
    BY <2>1
  <2>3. row \in [count : Nat, due : Nat, counted : BOOLEAN]
    BY DEF TypeInv
  <2>4. pc[p] = "write" /\ arrived' = arrived
    BY <1>3 DEF Write, End
  <2>5. row.counted => row.due <= row.count /\ row.count <= Arrived(win[p])
    BY <2>4 DEF PassInv
  <2>6. Arrived(win[p]) = Cardinality({d \in arrived' : d.stamp \in win[p] .. win[p] + Window - 1})
    BY <2>4 DEF Arrived
  <2>7. ASSUME NEW w \in DOMAIN rows', rows'[w].counted
        PROVE  rows'[w].due <= rows'[w].count /\ rows'[w].count <= Arrived(w)'
    <3>1. CASE w = win[p]
      <4>1. Arrived(w)' = Cardinality({d \in arrived' : d.stamp \in w .. w + Window - 1})
        BY DEF Arrived
      <4> QED
        BY <2>2, <2>5, <2>6, <2>7, <3>1, <4>1
    <3>2. CASE w # win[p]
      BY <2>2, <2>7, <3>2, RowStays
    <3> QED
      BY <3>1, <3>2
  <2>8. RowType'
    BY <2>2, <2>3 DEF RowType
  <2> QED
    BY <2>7, <2>8 DEF RowsCountTheirWindow
<1>4. \/ rows' = rows \/ CleanupWindows \/ \E p \in Programs : Write(p)
  BY DEF Next, PassStep, Tick, Indexed, CleanupLive, SchedulerBegins, ManualBegins, CountDocs,
         Select, PassFails, ProcessEnds, Begin, vars
<1> QED
  BY <1>1, <1>2, <1>3, <1>4

-------------------------------------------------------------------------------
(* The theorems.                                                           *)

\* It holds at first.
LEMMA InitHolds == Init => IInv
<1> SUFFICES ASSUME Init PROVE IInv
  OBVIOUS
<1>1. tick \in Nat
  <2>1. Window \in Nat /\ PerHour \in Nat
    BY Lengths
  <2>2. Window * PerHour \in Nat
    BY ONLY <2>1
  <2> QED
    BY <2>2 DEF Init
<1>2. IsFiniteSet({})
  BY FS_EmptySet
<1>3. /\ pc \in [Programs -> Label] /\ pc["scheduler"] = "down"
      /\ \A p \in Programs : ~ Passing(p)
  BY ProgramNames DEF Init, Label, Passing
<1>4. win \in [Programs -> Int] /\ begun \in [Programs -> Nat]
  BY DEF Init, None
<1>5. TypeInv
  BY <1>1, <1>2, <1>3, <1>4 DEF Init, TypeInv
<1>6. TimeInv
  BY <1>3 DEF TimeInv
<1>7. DocsInv
  BY DEF Init, DocsInv
<1>8. PassInv
  BY <1>3 DEF PassInv, Passing
<1>9. RowType /\ RowsCountTheirWindow
  BY DEF Init, RowType, RowsCountTheirWindow
<1> QED
  BY <1>5, <1>6, <1>7, <1>8, <1>9 DEF IInv

\* Every step keeps it.
LEMMA NextKeeps == IInv /\ [Next]_vars => IInv'
<1> SUFFICES ASSUME IInv, [Next]_vars PROVE IInv'
  OBVIOUS
<1>1. TypeInv /\ TimeInv /\ DocsInv /\ PassInv /\ RowType /\ RowsCountTheirWindow
  BY DEF IInv
<1>2. TypeInv' /\ TimeInv'
  BY <1>1, TypeKept, TimeKept
<1>3. DocsInv' /\ arrived \subseteq arrived'
  BY <1>1, <1>2, DocsKept
<1>4. PassInv'
  BY <1>1, <1>2, <1>3, PassKept
<1>5. RowType' /\ RowsCountTheirWindow'
  BY <1>1, <1>2, <1>3, RowsKept
<1> QED
  BY <1>2, <1>3, <1>4, <1>5 DEF IInv

\* The inductive invariant holds of every behaviour.
LEMMA InvHolds == Spec => []IInv
<1>1. Init => IInv
  BY InitHolds
<1>2. IInv /\ [Next]_vars => IInv'
  BY NextKeeps
<1> QED
  BY <1>1, <1>2, PTL DEF Spec

\* The state has its types.
THEOREM TypeCorrect == Spec => []TypeInv
<1>1. IInv => TypeInv
  BY DEF IInv
<1> QED
  BY <1>1, InvHolds, PTL

\* The row of a window counts every event of it that had arrived when its pass
\* began, and none of another window, unless the count failed.
THEOREM RowsCount == Spec => []RowsCountTheirWindow
<1>1. IInv => RowsCountTheirWindow
  BY DEF IInv
<1> QED
  BY <1>1, InvHolds, PTL

\* The windows of one process of the scheduler never overlap, and at most one
\* hour is left out between two of them.
THEOREM WindowsDoAbut == Spec => WindowsAbut
<1>1. ASSUME TypeInv, TimeInv, [Next]_vars, pc["scheduler"] = "asleep",
             pc'["scheduler"] = "count"
      PROVE  last' - (last + Window) \in {0, 1}
  <2>1. SchedulerBegins
    <3>1. ASSUME NEW p \in Programs, PassStep(p) PROVE FALSE
      <4>1. p # "scheduler" \/ pc'["scheduler"] # "count"
        BY <1>1, <3>1 DEF PassStep, CountDocs, Select, Write, PassFails, End, Ended, TypeInv
      <4>2. p # "scheduler" => pc'["scheduler"] = pc["scheduler"]
        BY <1>1, <3>1, ProgramNames
           DEF PassStep, CountDocs, Select, Write, PassFails, End, TypeInv
      <4> QED
        BY <1>1, <4>1, <4>2
    <3>2. ~ ManualBegins
      BY <1>1, ProgramNames DEF ManualBegins, Begin, TypeInv
    <3>3. ~ ProcessEnds
      BY <1>1, ProgramNames DEF ProcessEnds, End, TypeInv
    <3> QED
      BY <1>1, <3>1, <3>2, <3>3 DEF Next, Tick, Indexed, CleanupLive, CleanupWindows, vars
  <2>2. /\ last' = tick \div PerHour - Window
        /\ last = begun["scheduler"] \div PerHour - Window
        /\ begun["scheduler"] + Interval <= tick
        /\ tick <= begun["scheduler"] + Interval + Slip
    BY <1>1, <2>1, LatestType DEF SchedulerBegins, TimeInv
  <2> PICK m \in Int : m = begun["scheduler"]
    BY <1>1, ProgramNames DEF TypeInv
  <2>3. tick \in Int /\ m + Window * PerHour <= tick /\ tick < m + Window * PerHour + PerHour
    BY <1>1, <2>2, Lengths DEF TypeInv
  <2>4. tick \div PerHour - (m \div PerHour + Window) \in {0, 1}
    BY <2>3, HoursLater, Lengths
  <2>5. tick \div PerHour \in Int /\ m \div PerHour \in Int /\ Window \in Nat
    BY <2>3, HourOf, Lengths
  <2> QED
    BY <2>2, <2>4, <2>5
<1>2. IInv /\ [Next]_vars =>
          [pc["scheduler"] = "asleep" /\ pc'["scheduler"] = "count"
               => last' - (last + Window) \in {0, 1}]_vars
  BY <1>1 DEF IInv
<1> QED
  BY <1>2, InvHolds, PTL DEF Spec, WindowsAbut
===============================================================================
