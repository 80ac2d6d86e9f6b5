---------------------------- MODULE AggregatesProof ----------------------------
(***************************************************************************)
(* Proofs about Aggregates, for any log of events, batch size, lookback,   *)
(* retention and number of failures.                                       *)
(***************************************************************************)
EXTENDS Aggregates, FiniteSetTheorems, SequenceTheorems, WellFoundedInduction, TLAPS

\* The numbers up to n are finitely many.
LEMMA UpToIsFinite ==
    ASSUME NEW n \in Nat
    PROVE  IsFiniteSet(1 .. n) /\ Cardinality(1 .. n) = n
  BY FS_Interval

\* A set of numbers has a least one.
LEMMA LeastMember ==
    ASSUME NEW T, T \subseteq Nat, T # {}
    PROVE  \E m \in T : \A n \in T : m <= n
<1>1. PICK m \in T : \A n \in T : ~ (<<n, m>> \in OpToRel(<, Nat))
  BY NatLessThanWellFounded, WFMin
<1>2. \A n \in T : ~ (n < m)
  BY <1>1 DEF OpToRel
<1> QED
  BY <1>2

-------------------------------------------------------------------------------
(* Sums.                                                                   *)

\* The elements of E that g puts into s,
Hits(E, g, s) == {e \in E : g[e] \in s}

\* and a function that adds up the counts of a set's members one after the other.
AddsUp(F, E, g, S) ==
    /\ F[{}] = 0
    /\ \A s \in SUBSET S : s # {} =>
          \E x \in s : F[s] = Cardinality(Hits(E, g, {x})) + F[s \ {x}]

\* The elements put into a set are those of one member and those of the others.
LEMMA OneByOne ==
    ASSUME NEW E, IsFiniteSet(E), NEW g, NEW s, NEW x \in s
    PROVE  /\ Cardinality(Hits(E, g, s)) \in Nat
           /\ Cardinality(Hits(E, g, s)) =
                 Cardinality(Hits(E, g, {x})) + Cardinality(Hits(E, g, s \ {x}))
<1>1. /\ IsFiniteSet(Hits(E, g, s)) /\ IsFiniteSet(Hits(E, g, {x}))
      /\ IsFiniteSet(Hits(E, g, s \ {x}))
  BY FS_Subset DEF Hits
<1>2. Hits(E, g, s) = Hits(E, g, {x}) \union Hits(E, g, s \ {x})
  BY DEF Hits
<1>3. Hits(E, g, {x}) \cap Hits(E, g, s \ {x}) = {}
  BY DEF Hits
<1>4. PICK A, B : A = Hits(E, g, {x}) /\ B = Hits(E, g, s \ {x})
  OBVIOUS
<1>5. /\ Cardinality(A \union B) = Cardinality(A) + Cardinality(B) - Cardinality(A \cap B)
      /\ Cardinality(A) \in Nat /\ Cardinality(B) \in Nat
  BY <1>1, <1>4, FS_Union, FS_CardinalityType
<1>6. Cardinality(A \cap B) = 0
  BY <1>3, <1>4, FS_EmptySet
<1>7. Cardinality(A \union B) = Cardinality(A) + Cardinality(B)
  BY <1>5, <1>6
<1> QED
  BY <1>1, <1>2, <1>4, <1>7, FS_CardinalityType

\* Whatever adds up the counts of one member after the other has in the end
\* counted them all, in whatever order.
LEMMA SumIsCount ==
    ASSUME NEW E, IsFiniteSet(E), NEW g, NEW S, IsFiniteSet(S), NEW F, AddsUp(F, E, g, S)
    PROVE  F[S] = Cardinality(Hits(E, g, S))
<1> DEFINE wrong == {s \in SUBSET S : F[s] # Cardinality(Hits(E, g, s))}
           T == {Cardinality(s) : s \in wrong}
<1>1. SUFFICES ASSUME S \in wrong PROVE FALSE
  OBVIOUS
<1>2. \A s \in wrong : IsFiniteSet(s) /\ Cardinality(s) \in Nat
  BY FS_Subset, FS_CardinalityType
<1>3. T \subseteq Nat /\ T # {}
  BY <1>1, <1>2
<1> HIDE DEF T
<1>4. \E m \in T : \A n \in T : m <= n
  BY <1>3, LeastMember
<1> USE DEF T
<1>5. PICK s \in wrong : \A r \in wrong : Cardinality(s) <= Cardinality(r)
  BY <1>4
<1>6. s \in SUBSET S /\ F[s] # Cardinality(Hits(E, g, s))
  OBVIOUS
<1>7. s # {}
  <2>1. Cardinality(Hits(E, g, {})) = 0
    BY FS_EmptySet DEF Hits
  <2> QED
    BY <1>6, <2>1 DEF AddsUp
<1>8. PICK x \in s : F[s] = Cardinality(Hits(E, g, {x})) + F[s \ {x}]
  BY <1>6, <1>7 DEF AddsUp
<1>9. F[s \ {x}] # Cardinality(Hits(E, g, s \ {x}))
  BY <1>6, <1>8, OneByOne
<1>10. s \ {x} \in wrong
  BY <1>6, <1>9
<1>11. Cardinality(s \ {x}) = Cardinality(s) - 1
  BY <1>2, FS_RemoveElement
<1> QED
  BY <1>2, <1>5, <1>10, <1>11

\* So does the sum of the rows' edits, when each row counts its own.
LEMMA EditsAreCounted ==
    ASSUME NEW E, IsFiniteSet(E), NEW g, NEW S, IsFiniteSet(S),
           \A x \in S : table[x].edits = Cardinality(Hits(E, g, {x}))
    PROVE  SumEdits(S) = Cardinality(Hits(E, g, S))
<1> DEFINE C(s) == CHOOSE x \in s : TRUE
           Step(f) == [s \in SUBSET S |-> IF s = {} THEN 0 ELSE table[C(s)].edits + f[s \ {C(s)}]]
           G == [s \in SUBSET S |-> Cardinality(Hits(E, g, s))]
           F == CHOOSE f : f = Step(f)
<1>1. SumEdits(S) = F[S]
  BY DEF SumEdits, MapThenSumSet, MapThenFoldSet
<1>2. \A s \in SUBSET S : s # {} => C(s) \in s
  OBVIOUS
<1>3. ASSUME NEW s \in SUBSET S
      PROVE  G[s] = IF s = {} THEN 0 ELSE table[C(s)].edits + G[s \ {C(s)}]
  <2>1. CASE s = {}
    <3>1. Cardinality(Hits(E, g, {})) = 0
      BY FS_EmptySet DEF Hits
    <3> QED
      BY <2>1, <3>1
  <2>2. CASE s # {}
    <3>1. PICK x \in s : x = C(s)
      BY <1>2, <2>2
    <3>2. /\ Cardinality(Hits(E, g, s)) =
                Cardinality(Hits(E, g, {x})) + Cardinality(Hits(E, g, s \ {x}))
          /\ table[x].edits = Cardinality(Hits(E, g, {x}))
      <4>1. x \in S
        OBVIOUS
      <4>2. Cardinality(Hits(E, g, s)) =
               Cardinality(Hits(E, g, {x})) + Cardinality(Hits(E, g, s \ {x}))
        BY OneByOne
      <4> QED
        BY <4>1, <4>2
    <3>3. G[s] = table[x].edits + G[s \ {x}]
      BY <3>2
    <3> HIDE DEF G, C
    <3> QED
      BY <2>2, <3>1, <3>3
  <2> QED
    BY <2>1, <2>2
<1>4. G = Step(G)
  <2>1. G = [s \in SUBSET S |-> G[s]]
    OBVIOUS
  <2> HIDE DEF G, C
  <2> QED
    BY <1>3, <2>1
<1>5. F = Step(F)
  <2>1. \E f : f = Step(f)
    BY <1>4
  <2> HIDE DEF Step
  <2> QED
    BY <2>1
<1> HIDE DEF F, G
<1>6. \A s \in SUBSET S : F[s] = IF s = {} THEN 0 ELSE table[C(s)].edits + F[s \ {C(s)}]
  BY <1>5
<1> HIDE DEF C, Step
<1>7. F[{}] = 0
  BY <1>6
<1>8. ASSUME NEW s \in SUBSET S, s # {}
      PROVE  \E x \in s : F[s] = Cardinality(Hits(E, g, {x})) + F[s \ {x}]
  <2>1. C(s) \in s
    BY <1>2, <1>8
  <2>2. F[s] = table[C(s)].edits + F[s \ {C(s)}]
    BY <1>6, <1>8
  <2>3. PICK x \in s : x = C(s)
    BY <2>1
  <2>4. table[x].edits = Cardinality(Hits(E, g, {x}))
    <3>1. x \in S
      OBVIOUS
    <3> QED
      BY <3>1
  <2>5. F[s] = table[x].edits + F[s \ {x}]
    BY <2>2, <2>3
  <2> QED
    BY <2>4, <2>5
<1>9. AddsUp(F, E, g, S)
  BY <1>7, <1>8 DEF AddsUp
<1>10. F[S] = Cardinality(Hits(E, g, S))
  BY <1>9, SumIsCount
<1> QED
  BY <1>1, <1>10
\* An answer that counts hits, group by group.
CountsHits(answer, E, g) ==
    /\ IsFiniteSet(DOMAIN answer)
    /\ \A x \in DOMAIN answer : answer[x] = Cardinality(Hits(E, g, {x}))

\* Its total counts all of them.
LEMMA TotalIsCounted ==
    ASSUME NEW E, IsFiniteSet(E), NEW g, NEW answer, CountsHits(answer, E, g)
    PROVE  Total(answer) = Cardinality(Hits(E, g, DOMAIN answer))
<1>0. PICK S : S = DOMAIN answer
  OBVIOUS
<1> DEFINE C(s) == CHOOSE x \in s : TRUE
           Step(f) == [s \in SUBSET S |-> IF s = {} THEN 0 ELSE answer[C(s)] + f[s \ {C(s)}]]
           G == [s \in SUBSET S |-> Cardinality(Hits(E, g, s))]
           F == CHOOSE f : f = Step(f)
<1>1. Total(answer) = F[S]
  BY <1>0 DEF Total, MapThenSumSet, MapThenFoldSet
<1>2. \A s \in SUBSET S : s # {} => C(s) \in s
  OBVIOUS
<1>3. ASSUME NEW s \in SUBSET S
      PROVE  G[s] = IF s = {} THEN 0 ELSE answer[C(s)] + G[s \ {C(s)}]
  <2>1. CASE s = {}
    <3>1. Cardinality(Hits(E, g, {})) = 0
      BY FS_EmptySet DEF Hits
    <3> QED
      BY <2>1, <3>1
  <2>2. CASE s # {}
    <3>1. PICK x \in s : x = C(s)
      BY <1>2, <2>2
    <3>2. /\ Cardinality(Hits(E, g, s)) =
                Cardinality(Hits(E, g, {x})) + Cardinality(Hits(E, g, s \ {x}))
          /\ answer[x] = Cardinality(Hits(E, g, {x}))
      <4>1. x \in S /\ answer[x] = Cardinality(Hits(E, g, {x}))
        BY <1>0 DEF CountsHits
      <4>2. Cardinality(Hits(E, g, s)) =
               Cardinality(Hits(E, g, {x})) + Cardinality(Hits(E, g, s \ {x}))
        BY OneByOne
      <4> QED
        BY <4>1, <4>2
    <3>3. G[s] = answer[x] + G[s \ {x}]
      BY <3>2
    <3> HIDE DEF G, C
    <3> QED
      BY <2>2, <3>1, <3>3
  <2> QED
    BY <2>1, <2>2
<1>4. G = Step(G)
  <2>1. G = [s \in SUBSET S |-> G[s]]
    OBVIOUS
  <2> HIDE DEF G, C
  <2> QED
    BY <1>3, <2>1
<1>5. F = Step(F)
  <2>1. \E f : f = Step(f)
    BY <1>4
  <2> HIDE DEF Step
  <2> QED
    BY <2>1
<1> HIDE DEF F, G
<1>6. \A s \in SUBSET S : F[s] = IF s = {} THEN 0 ELSE answer[C(s)] + F[s \ {C(s)}]
  BY <1>5
<1> HIDE DEF C, Step
<1>7. F[{}] = 0
  BY <1>6
<1>8. ASSUME NEW s \in SUBSET S, s # {}
      PROVE  \E x \in s : F[s] = Cardinality(Hits(E, g, {x})) + F[s \ {x}]
  <2>1. C(s) \in s
    BY <1>2, <1>8
  <2>2. F[s] = answer[C(s)] + F[s \ {C(s)}]
    BY <1>6, <1>8
  <2>3. PICK x \in s : x = C(s)
    BY <2>1
  <2>4. answer[x] = Cardinality(Hits(E, g, {x}))
    <3>1. x \in S
      OBVIOUS
    <3> QED
      BY <1>0, <3>1 DEF CountsHits
  <2>5. F[s] = answer[x] + F[s \ {x}]
    BY <2>2, <2>3
  <2> QED
    BY <2>4, <2>5
<1>9. AddsUp(F, E, g, S)
  BY <1>7, <1>8 DEF AddsUp
<1>10. F[S] = Cardinality(Hits(E, g, S))
  <2>1. IsFiniteSet(S)
    BY <1>0 DEF CountsHits
  <2> QED
    BY <1>9, <2>1, SumIsCount
<1> QED
  BY <1>0, <1>1, <1>10

\* The lesser of two numbers is one of them.
LEMMA MinOfTwo ==
    ASSUME NEW m \in Nat, NEW n \in Nat
    PROVE  Min({m, n}) = m \/ Min({m, n}) = n
<1>1. \E x \in {m, n} : \A y \in {m, n} : x <= y
  <2>1. CASE m <= n
    BY <2>1
  <2>2. CASE n <= m
    BY <2>2
  <2> QED
    BY <2>1, <2>2
<1>2. Min({m, n}) \in {m, n}
  BY <1>1 DEF Min
<1> QED
  BY <1>2

-------------------------------------------------------------------------------
(* Rows and the invariant.                                                 *)

USE LogAssumption, SettingsAssumption

Tables   == {"wiki", "lang", "page", "user"}
LiveRows == {RowOf(t, e) : t \in Tables, e \in Events}

\* The row both transactions start an hour with.
Gate(hour) == Row("wiki", hour, <<>>, "live")

\* The first n events of the log that belong to a row.
Matching(row, n) == {e \in 1 .. n : RowOf(row.table, e) = row}

\* The row of an event is younger than the retention.
Fresh(e) == Log[e].hour > clock - Retention
-------------------------------------------------------------------------------
(* The invariant.                                                          *)

TypeInv ==
    /\ clock \in Nat /\ since \in Nat /\ back \in 0 .. Lookback
    /\ applied \in Nat /\ batch \in Nat /\ applied + batch <= Len(Log)
    /\ shown \in Nat /\ shown <= Len(Log)
    /\ flushing \in BOOLEAN /\ writing \in BOOLEAN
    /\ table \in [DOMAIN table -> [edits : Nat, users : Nat]]
    /\ users \in [DOMAIN users -> Nat]
    /\ upserts \in Seq(LiveRows) /\ updates \in Seq(DOMAIN users)
    /\ held = [who \in {"analytics", "reconcile"} |-> held[who]]
    /\ held["analytics"] \subseteq LiveRows /\ held["reconcile"] \subseteq DOMAIN users
    /\ failures \in Nat

\* Between two transactions nothing is locked or waited for.
NothingOpen ==
    /\ ~flushing => upserts = <<>> /\ held["analytics"] = {}
    /\ ~writing => updates = <<>> /\ held["reconcile"] = {} /\ DOMAIN users = {}
    /\ writing => back < Lookback

\* An event that is not counted yet is fresh; the rows of the fresh ones that
\* are counted are there; and a fresh row counts exactly what is applied.
Counted ==
    /\ \A e \in Events : ~Fresh(e) => e <= applied
    /\ \A t \in Tables : \A e \in 1 .. applied : Fresh(e) => RowOf(t, e) \in DOMAIN table
    /\ \A t \in Tables : \A e \in Events :
          Fresh(e) /\ RowOf(t, e) \in DOMAIN table =>
              table[RowOf(t, e)].edits = Cardinality(Matching(RowOf(t, e), applied))

\* A distinct count is at most what the index shows now; the one about to be
\* written lies between the one in the table and that.
Known ==
    /\ \A row \in DOMAIN table : row.source = "live" =>
          table[row].users <= UsersOf(Matching(row, shown))
    /\ \A row \in DOMAIN users :
          /\ row.source = "live"
          /\ users[row] <= UsersOf(Matching(row, shown))
          /\ row \in DOMAIN table => table[row].users <= users[row]

\* No row is locked twice.  The flush locks a language's row only after the row
\* of its hour; the reconciliation starts an hour with that row.
GateFirst ==
    /\ held["analytics"] \intersect held["reconcile"] = {}
    /\ \A row \in held["analytics"] : row.table = "lang" => Gate(row.hour) \in held["analytics"]
    /\ \A i \in DOMAIN upserts : upserts[i].table = "lang" =>
          \/ Gate(upserts[i].hour) \in held["analytics"]
          \/ \E j \in 1 .. i - 1 : upserts[j] = Gate(upserts[i].hour)
    /\ \A i \in DOMAIN updates :
          \/ i = 1 /\ updates[i] = Gate(Hour) /\ held["reconcile"] = {}
          \/ updates[i].table = "lang" /\ updates[i].hour = Hour

AggInv == TypeInv /\ NothingOpen /\ Counted /\ Known /\ GateFirst

-------------------------------------------------------------------------------
(* Rows and counts.                                                        *)

\* What the rows of events and of hours are made of.
LEMMA RowFields ==
    /\ \A t, e : /\ RowOf(t, e).table = t /\ RowOf(t, e).hour = Log[e].hour
                 /\ RowOf(t, e).key = Key(t, Log[e]) /\ RowOf(t, e).source = "live"
    /\ \A h : Gate(h).table = "wiki" /\ Gate(h).hour = h /\ Gate(h).source = "live"
    /\ \A e : RowOf("wiki", e) = Gate(Log[e].hour)
  BY DEF RowOf, Row, Gate, Key

\* The log is a sequence, the hours of its events are numbers.
LEMMA LogFacts ==
    /\ Len(Log) \in Nat
    /\ \A n \in Nat : n <= Len(Log) => 1 .. n \subseteq Events
    /\ \A e \in Events : Log[e].hour \in Nat
<1>1. Len(Log) \in Nat
  OBVIOUS
<1> QED
  BY <1>1 DEF Events

\* The events of a row among the first n are finitely many, and more with more.
LEMMA MatchingIsFinite ==
    ASSUME NEW row, NEW m \in Nat, NEW n \in Nat, m <= n
    PROVE  /\ IsFiniteSet(Matching(row, n)) /\ Cardinality(Matching(row, n)) \in Nat
           /\ Matching(row, m) \subseteq Matching(row, n)
<1>1. IsFiniteSet(1 .. n)
  BY FS_Interval
<1>2. IsFiniteSet(Matching(row, n))
  BY <1>1, FS_Subset DEF Matching
<1> QED
  BY <1>2, FS_CardinalityType DEF Matching

\* More events have more users.
LEMMA UsersGrow ==
    ASSUME NEW S, NEW T, IsFiniteSet(T), S \subseteq T
    PROVE  UsersOf(S) \in Nat /\ UsersOf(T) \in Nat /\ UsersOf(S) <= UsersOf(T)
<1> DEFINE U(E) == {Log[e].user : e \in E}
           f == [e \in T |-> Log[e].user]
<1>1. f \in Surjection(T, U(T))
  BY DEF Surjection
<1>2. IsFiniteSet(U(T))
  BY <1>1, FS_Surjection
<1>3. U(S) \subseteq U(T)
  OBVIOUS
<1>4. /\ IsFiniteSet(U(S))
      /\ Cardinality(U(S)) <= Cardinality(U(T))
  BY <1>2, <1>3, FS_Subset
<1> QED
  BY <1>2, <1>4, FS_CardinalityType DEF UsersOf

\* The distinct users of a row's events, as the index shows them.
LEMMA UsersOfARow ==
    ASSUME NEW row, NEW m \in Nat, NEW n \in Nat, m <= n
    PROVE  /\ UsersOf(Matching(row, m)) \in Nat /\ UsersOf(Matching(row, n)) \in Nat
           /\ UsersOf(Matching(row, m)) <= UsersOf(Matching(row, n))
<1>1. IsFiniteSet(Matching(row, n)) /\ Matching(row, m) \subseteq Matching(row, n)
  BY MatchingIsFinite
<1> QED
  BY <1>1, UsersGrow

\* The languages a query returns are a sequence of those of its events.
LEMMA BucketsAreSequences ==
    ASSUME NEW n \in Nat, NEW S \in SUBSET (1 .. n), NEW s \in Buckets(S)
    PROVE  s \in Seq({Log[e].language : e \in S})
<1> DEFINE found == {Log[e].language : e \in S}
           f == [e \in S |-> Log[e].language]
           size == Min({MaxBuckets, Cardinality(found)})
<1>1. IsFiniteSet(S)
  <2>1. IsFiniteSet(1 .. n)
    BY UpToIsFinite
  <2> QED
    BY <2>1, FS_Subset
<1>2. f \in Surjection(S, found)
  BY DEF Surjection
<1>3. Cardinality(found) \in Nat
  BY <1>1, <1>2, FS_Surjection, FS_CardinalityType
<1>4. size \in Nat
  <2> HIDE DEF found
  <2>1. CASE MaxBuckets <= Cardinality(found)
    BY <1>3, <2>1 DEF Min
  <2>2. CASE Cardinality(found) <= MaxBuckets
    BY <1>3, <2>2 DEF Min
  <2> QED
    BY <1>3, <2>1, <2>2
<1>5. PICK top \in kSubset(size, found) : s \in SetToSeqs(top)
  BY DEF Buckets
<1>6. top \subseteq found /\ Cardinality(top) = size
  BY <1>5 DEF kSubset
<1>7. s \in [1 .. size -> found]
  BY <1>5, <1>6 DEF SetToSeqs
<1> HIDE DEF size, found
<1>8. s \in Seq(found)
  BY <1>4, <1>7
<1> QED
  BY <1>8 DEF found

\* A query skips an hour or hands out the updates of its rows: the row of the
\* hour, then those of languages, each with the count of what the index shows.
LEMMA QueryMeans ==
    ASSUME TypeInv, QueryHour
    PROVE  \/ back' = back + 1 /\ UNCHANGED <<updates, users, writing>>
           \/ /\ back' = back /\ writing' = TRUE
              /\ updates' \in Seq(DOMAIN users')
              /\ \A i \in DOMAIN updates' :
                    \/ i = 1 /\ updates'[i] = Gate(Hour)
                    \/ updates'[i].table = "lang" /\ updates'[i].hour = Hour
              /\ users' \in [DOMAIN users' -> Nat]
              /\ \A row \in DOMAIN users' :
                    row.source = "live" /\ users'[row] = UsersOf(Matching(row, shown))
<1> DEFINE events == ShownIn(Hour)
<1>1. shown \in Nat
  BY DEF TypeInv
<1>2. CASE events = {}
  BY <1>2 DEF QueryHour, EmptyHour
<1>3. CASE events # {}
  <2> DEFINE langRow(l) == Row("lang", Hour, <<l>>, "live")
             wikiRow == Gate(Hour)
             count(row) == IF row = wikiRow THEN UsersOf(events)
                           ELSE UsersOf(InLanguage(events, row.key[1]))
  <2>1. PICK languages \in Buckets(events) :
           /\ updates' = <<wikiRow>> \o [i \in DOMAIN languages |-> langRow(languages[i])]
           /\ users' = [row \in ToSet(updates') |-> count(row)]
           /\ writing' = TRUE /\ back' = back
    BY <1>3 DEF QueryHour, Gate
  <2>2. languages \in Seq({Log[e].language : e \in events})
    BY <1>1, BucketsAreSequences DEF ShownIn
  <2> DEFINE rest == [i \in DOMAIN languages |-> langRow(languages[i])]
             Langs == {langRow(l) : l \in {Log[e].language : e \in events}}
  <2>3. rest \in Seq(Langs) /\ DOMAIN rest = 1 .. Len(languages) /\ Len(languages) \in Nat
    <3>1. DOMAIN languages = 1 .. Len(languages) /\ Len(languages) \in Nat
      BY <2>2
    <3>2. ASSUME NEW i \in 1 .. Len(languages) PROVE langRow(languages[i]) \in Langs
      <4>1. languages[i] \in {Log[e].language : e \in events}
        BY <2>2
      <4> QED
        BY <4>1
    <3> HIDE DEF Langs, langRow
    <3>3. rest \in [1 .. Len(languages) -> Langs]
      BY <3>1, <3>2
    <3> QED
      BY <3>1, <3>3
  <2>4. \A row \in Langs : row.table = "lang" /\ row.hour = Hour /\ row.source = "live"
    BY DEF Row
  <2>5. wikiRow.table = "wiki" /\ wikiRow.source = "live"
    BY RowFields
  <2> DEFINE rows == <<wikiRow>> \o rest
  <2>6. /\ rows \in Seq({wikiRow} \union Langs)
        /\ rows[1] = wikiRow
        /\ \A i \in DOMAIN rows : i # 1 => rows[i] \in Langs
    <3> HIDE DEF rest, Langs, wikiRow
    <3>1. rest \in Seq({wikiRow} \union Langs) /\ <<wikiRow>> \in Seq({wikiRow} \union Langs)
      BY <2>3
    <3>2. \A i \in 1 .. Len(rest) : rest[i] \in Langs
      BY <2>3
    <3>3. /\ Len(<<wikiRow>>) = 1 /\ Len(rows) = 1 + Len(rest)
          /\ \A i \in 1 .. Len(rows) :
                rows[i] = IF i <= 1 THEN <<wikiRow>>[i] ELSE rest[i - 1]
      BY <3>1, ConcatProperties
    <3> QED
      BY <3>1, <3>2, <3>3, ConcatProperties
  <2>7. updates' = rows
    BY <2>1
  <2>8. ASSUME NEW row \in {wikiRow} \union Langs
        PROVE  row.source = "live" /\ count(row) = UsersOf(Matching(row, shown))
    <3>1. CASE row = wikiRow
      <4>1. events = Matching(row, shown)
        BY <3>1, RowFields DEF ShownIn, Matching, RowOf, Row, Gate, Key
      <4> QED
        BY <2>5, <3>1, <4>1
    <3>2. ASSUME NEW l, row = langRow(l)
          PROVE  count(row) = UsersOf(Matching(row, shown))
      <4>1. row.key[1] = l /\ row.table = "lang" /\ row # wikiRow
        BY <2>5, <3>2 DEF Row
      <4>2. InLanguage(events, l) = Matching(row, shown)
        <5>1. \A e \in 1 .. shown : RowOf("lang", e) = row <=>
                 Log[e].hour = Hour /\ Log[e].language = l
          BY <3>2 DEF RowOf, Row, Key
        <5> QED
          BY <4>1, <5>1 DEF InLanguage, ShownIn, Matching
      <4> QED
        BY <4>1, <4>2
    <3> QED
      BY <2>4, <3>1, <3>2
  <2>9. updates' \in Seq({wikiRow} \union Langs) /\ updates'[1] = wikiRow
        /\ \A i \in DOMAIN updates' : i # 1 => updates'[i] \in Langs
    BY <2>6, <2>7
  <2>10. ToSet(updates') \subseteq {wikiRow} \union Langs /\ updates' \in Seq(ToSet(updates'))
    <3> HIDE DEF wikiRow, Langs, rows, rest
    <3>1. updates' \in [1 .. Len(updates') -> {wikiRow} \union Langs] /\ Len(updates') \in Nat
      BY <2>9
    <3> QED
      BY <3>1 DEF ToSet
  <2>11. \A row \in {wikiRow} \union Langs : count(row) \in Nat
    <3> SUFFICES ASSUME NEW row \in {wikiRow} \union Langs PROVE count(row) \in Nat
      OBVIOUS
    <3>1. UsersOf(Matching(row, shown)) \in Nat
      BY <1>1, UsersOfARow
    <3> QED
      BY <2>8, <3>1
  <2>12. DOMAIN users' = ToSet(updates') /\ users' \in [DOMAIN users' -> Nat]
         /\ \A row \in DOMAIN users' : users'[row] = count(row)
    <3> HIDE DEF wikiRow, Langs, count
    <3> QED
      BY <2>1, <2>10, <2>11
  <2> QED
    <3> HIDE DEF wikiRow, Langs, count, rows, rest
    <3>1. wikiRow = Gate(Hour)
      BY DEF wikiRow
    <3> QED
      BY <2>1, <2>4, <2>8, <2>9, <2>10, <2>12, <3>1
<1> QED
  BY <1>2, <1>3

\* The greater of two numbers.
LEMMA MaxOfTwo ==
    ASSUME NEW m \in Nat, NEW n \in Nat
    PROVE  Max({m, n}) \in Nat /\ Max({m, n}) >= m /\ Max({m, n}) >= n
<1>1. \E x \in {m, n} : \A y \in {m, n} : x >= y
  <2>1. CASE m <= n
    BY <2>1
  <2>2. CASE n <= m
    BY <2>2
  <2> QED
    BY <2>1, <2>2
<1>2. Max({m, n}) \in {m, n} /\ \A y \in {m, n} : Max({m, n}) >= y
  BY <1>1 DEF Max
<1> QED
  BY <1>2

\* A sequence of a finite set's elements has them all.
LEMMA SequencesOfASet ==
    ASSUME NEW S, IsFiniteSet(S), NEW s \in SetToSeqs(S)
    PROVE  s \in Seq(S) /\ \A x \in S : \E i \in DOMAIN s : s[i] = x
<1> DEFINE D == 1 .. Cardinality(S)
<1>1. Cardinality(S) \in Nat
  BY FS_CardinalityType
<1>2. s \in Injection(D, S)
  BY DEF SetToSeqs, Injection, IsInjective
<1>3. Cardinality(D) = Cardinality(S)
  BY <1>1, UpToIsFinite
<1>4. s \in Surjection(D, S)
  BY <1>2, <1>3, FS_Injection
<1>5. s \in [D -> S] /\ \A x \in S : \E i \in D : s[i] = x
  BY <1>4 DEF Surjection
<1> QED
  BY <1>1, <1>5, SMTT(30)

\* What build_rows makes of the next n events.
LEMMA RowsAreThose ==
    ASSUME NEW t \in Tables, NEW n \in Nat, NEW s \in RowsOf(t, n)
    PROVE  /\ s \in Seq({RowOf(t, applied + i) : i \in 1 .. n})
           /\ \A i \in 1 .. n : \E j \in DOMAIN s : s[j] = RowOf(t, applied + i)
<1> DEFINE S == {RowOf(t, applied + i) : i \in 1 .. n}
           f == [i \in 1 .. n |-> RowOf(t, applied + i)]
<1>1. s \in SetToSeqs(S)
  BY DEF RowsOf
<1>2. f \in Surjection(1 .. n, S)
  BY DEF Surjection
<1>3. IsFiniteSet(1 .. n)
  BY FS_Interval
<1>4. IsFiniteSet(S)
  BY <1>2, <1>3, FS_Surjection
<1>5. \A i \in 1 .. n : RowOf(t, applied + i) \in S
  OBVIOUS
<1> HIDE DEF S
<1>6. s \in Seq(S) /\ \A x \in S : \E i \in DOMAIN s : s[i] = x
  BY <1>1, <1>4, SequencesOfASet
<1> QED
  BY <1>5, <1>6 DEF S

\* The locks of a flush are for rows of events, the row of an hour before those
\* of its languages.
LEMMA LocksAreThose ==
    ASSUME TypeInv, NEW n \in Nat, applied + n <= Len(Log), NEW s \in Locks(n)
    PROVE  /\ s \in Seq(LiveRows)
           /\ \A i \in DOMAIN s : s[i].table = "lang" =>
                 \E j \in 1 .. i - 1 : s[j] = Gate(s[i].hour)
<1>1. PICK w \in RowsOf("wiki", n), l \in RowsOf("lang", n) : s = w \o l
  BY DEF Locks
<1>2. /\ w \in Seq({RowOf("wiki", applied + i) : i \in 1 .. n})
      /\ \A i \in 1 .. n : \E j \in DOMAIN w : w[j] = RowOf("wiki", applied + i)
      /\ l \in Seq({RowOf("lang", applied + i) : i \in 1 .. n})
  BY <1>1, RowsAreThose DEF Tables
<1>3. \A i \in 1 .. n : applied + i \in Events
  BY LogFacts, SMTT(30) DEF TypeInv, Events
<1>4. \A t \in Tables, i \in 1 .. n : RowOf(t, applied + i) \in LiveRows
  BY <1>3 DEF LiveRows
<1>5. /\ \A i \in 1 .. Len(w) : \E k \in 1 .. n : w[i] = RowOf("wiki", applied + k)
      /\ \A i \in 1 .. Len(l) : \E k \in 1 .. n : l[i] = RowOf("lang", applied + k)
  <2> DEFINE W == {RowOf("wiki", applied + k) : k \in 1 .. n}
             L == {RowOf("lang", applied + k) : k \in 1 .. n}
  <2>1. w \in Seq(W) /\ l \in Seq(L)
    BY <1>2
  <2>2. /\ \A x \in W : \E k \in 1 .. n : x = RowOf("wiki", applied + k)
        /\ \A x \in L : \E k \in 1 .. n : x = RowOf("lang", applied + k)
    OBVIOUS
  <2> HIDE DEF W, L
  <2>3. \A i \in 1 .. Len(w) : w[i] \in W
    BY <2>1
  <2>4. \A i \in 1 .. Len(l) : l[i] \in L
    BY <2>1
  <2> QED
    BY <2>2, <2>3, <2>4
<1>6. w \in Seq(LiveRows) /\ l \in Seq(LiveRows)
  <2>1. /\ w = [i \in 1 .. Len(w) |-> w[i]] /\ Len(w) \in Nat
        /\ l = [i \in 1 .. Len(l) |-> l[i]] /\ Len(l) \in Nat
    BY <1>2
  <2>2. \A i \in 1 .. Len(w) : w[i] \in LiveRows
    BY <1>4, <1>5 DEF Tables
  <2>3. \A i \in 1 .. Len(l) : l[i] \in LiveRows
    BY <1>4, <1>5 DEF Tables
  <2>4. /\ [i \in 1 .. Len(w) |-> w[i]] \in Seq(LiveRows)
        /\ [i \in 1 .. Len(l) |-> l[i]] \in Seq(LiveRows)
    BY <2>1, <2>2, <2>3, IsASeq
  <2> QED
    BY <2>1, <2>4
<1>7. /\ s \in Seq(LiveRows) /\ Len(s) = Len(w) + Len(l)
      /\ \A i \in 1 .. Len(s) : s[i] = IF i <= Len(w) THEN w[i] ELSE l[i - Len(w)]
  BY <1>1, <1>6, ConcatProperties
<1>8. ASSUME NEW i \in DOMAIN s, s[i].table = "lang"
      PROVE  \E j \in 1 .. i - 1 : s[j] = Gate(s[i].hour)
  <2>1. /\ i \in 1 .. Len(w) + Len(l) /\ Len(w) \in Nat /\ Len(l) \in Nat
        /\ DOMAIN w = 1 .. Len(w)
    BY <1>6, <1>7
  <2>2. ~(i <= Len(w))
    <3> SUFFICES ASSUME i <= Len(w) PROVE FALSE
      OBVIOUS
    <3>1. s[i] = w[i] /\ i \in 1 .. Len(w)
      BY <1>7, <2>1
    <3>2. w[i].table = "wiki"
      BY <1>5, <3>1, RowFields
    <3> QED
      BY <1>8, <3>1, <3>2
  <2>3. PICK k \in 1 .. n : s[i] = RowOf("lang", applied + k)
    <3>1. s[i] = l[i - Len(w)] /\ i - Len(w) \in 1 .. Len(l)
      BY <1>7, <2>1, <2>2
    <3> QED
      BY <1>5, <3>1
  <2>4. PICK j \in 1 .. Len(w) : w[j] = RowOf("wiki", applied + k)
    BY <1>2, <2>1
  <2>5. s[j] = Gate(s[i].hour)
    <3>1. s[j] = w[j]
      BY <1>7, <2>1, <2>4
    <3> QED
      BY <2>3, <2>4, <3>1, RowFields
  <2> QED
    BY <2>1, <2>2, <2>5
<1> QED
  BY <1>7, <1>8

\* How much an upsert adds is a number.
LEMMA AddedIsNat ==
    ASSUME TypeInv, NEW row
    PROVE  Added(row) \in Nat
<1>1. IsFiniteSet(1 .. batch)
  <2>1. batch \in Nat
    BY DEF TypeInv
  <2> QED
    BY <2>1, UpToIsFinite
<1>2. IsFiniteSet({i \in 1 .. batch : RowOf(row.table, applied + i) = row})
  BY <1>1, FS_Subset
<1> QED
  BY <1>2, FS_CardinalityType DEF Added

\* The tables after the upserts of a flush: a row grows by what is added, its users stay.
UpsertOf(rows, new) ==
    /\ DOMAIN new = DOMAIN table \union rows
    /\ new \in [DOMAIN new -> [edits : Nat, users : Nat]]
    /\ \A row \in rows : /\ new[row].edits = Old(row).edits + Added(row)
                         /\ new[row].users = Old(row).users
    /\ \A row \in DOMAIN table \ rows : new[row] = table[row]

\* Such is what Upserted makes,
LEMMA UpsertedMeans ==
    ASSUME TypeInv, NEW rows, NEW new, new = Upserted(rows)
    PROVE  UpsertOf(rows, new)
<1>1. DOMAIN new = DOMAIN table \union rows
  BY DEF Upserted
<1>2. \A row \in rows : new[row] = [edits |-> Old(row).edits + Added(row), users |-> Old(row).users]
  BY DEF Upserted
<1>3. \A row \in DOMAIN table \ rows : new[row] = table[row]
  BY DEF Upserted
<1>4. \A row : Old(row) \in [edits : Nat, users : Nat]
  BY DEF Old, TypeInv
<1>5. ASSUME NEW row \in DOMAIN new PROVE new[row] \in [edits : Nat, users : Nat]
  <2>1. CASE row \in rows
    <3>1. Old(row).edits + Added(row) \in Nat /\ Old(row).users \in Nat
      BY <1>4, AddedIsNat
    <3> DEFINE m == Old(row).edits + Added(row)
               u == Old(row).users
    <3>2. new[row] = [edits |-> m, users |-> u]
      BY <1>2, <2>1
    <3> HIDE DEF m, u
    <3>3. m \in Nat /\ u \in Nat
      BY <3>1 DEF m, u
    <3> QED
      BY <3>2, <3>3
  <2>2. CASE row \notin rows
    BY <1>1, <1>3, <1>5, <2>2 DEF TypeInv
  <2> QED
    BY <2>1, <2>2
<1>6. new = [row \in DOMAIN new |-> new[row]]
  BY DEF Upserted
<1> QED
  BY <1>1, <1>2, <1>3, <1>5, <1>6 DEF UpsertOf

\* and what a flush that commits leaves in the tables.
LEMMA CommitMeans ==
    ASSUME TypeInv, FlushCommits
    PROVE  UpsertOf(Written, table')
<1>1. PICK rows, new : rows = Written /\ new = table'
  OBVIOUS
<1>2. new = Upserted(rows)
  BY <1>1 DEF FlushCommits
<1>3. UpsertOf(rows, new)
  BY <1>2, UpsertedMeans
<1> QED
  BY <1>1, <1>3

\* The reconciliation's updates change nothing but the users of the rows it
\* holds.
LEMMA WriteMeans ==
    ASSUME TypeInv, WriteCommits
    PROVE  /\ DOMAIN table' = DOMAIN table
           /\ table' \in [DOMAIN table' -> [edits : Nat, users : Nat]]
           /\ \A row \in DOMAIN table :
                 /\ table'[row].edits = table[row].edits
                 /\ row \in held["reconcile"] => table'[row].users = users[row]
                 /\ row \notin held["reconcile"] => table'[row].users = table[row].users
<1>1. /\ table' = [row \in DOMAIN table' |-> table'[row]]
      /\ DOMAIN table' = DOMAIN table
  BY DEF WriteCommits
<1>2. ASSUME NEW row \in DOMAIN table
      PROVE  /\ table'[row] \in [edits : Nat, users : Nat]
             /\ table'[row].edits = table[row].edits
             /\ row \in held["reconcile"] => table'[row].users = users[row]
             /\ row \notin held["reconcile"] => table'[row].users = table[row].users
  <2>1. table[row] \in [edits : Nat, users : Nat]
    BY DEF TypeInv
  <2>2. CASE row \in held["reconcile"]
    <3>1. table'[row] = [table[row] EXCEPT !.users = users[row]]
      BY <2>2 DEF WriteCommits
    <3>2. users[row] \in Nat
      BY <2>2 DEF TypeInv
    <3> QED
      BY <2>1, <2>2, <3>1, <3>2
  <2>3. CASE row \notin held["reconcile"]
    <3>1. table'[row] = table[row]
      BY <2>3 DEF WriteCommits
    <3> QED
      BY <2>1, <2>3, <3>1
  <2> QED
    BY <2>2, <2>3
<1> QED
  BY <1>1, <1>2

\* Deletes leave the other rows as they are.
LEMMA KeptMeans ==
    ASSUME TypeInv, NEW rows \in SUBSET DOMAIN table, NEW new, new = Kept(rows)
    PROVE  /\ DOMAIN new = rows
           /\ new \in [DOMAIN new -> [edits : Nat, users : Nat]]
           /\ \A row \in rows : new[row] = table[row]
  BY DEF Kept, TypeInv

\* The demo data are rows of their own.
LEMMA SeedMeans ==
    ASSUME Seed
    PROVE  /\ table' \in [DOMAIN table' -> [edits : Nat, users : Nat]]
           /\ \A row \in DOMAIN table' : row.source = "synthetic"
<1> DEFINE rows == {Row(t, hour, Key(t, Log[e]), "synthetic") :
                       t \in {"wiki", "lang", "page", "user"}, e \in Events,
                       hour \in Max({0, clock + 1 - Retention}) .. clock}
<1>1. \A row \in rows : row.source = "synthetic"
  BY DEF Row
<1>2. table' = [row \in rows |-> [edits |-> 1, users |-> 3]]
  BY DEF Seed
<1> HIDE DEF rows
<1> QED
  BY <1>1, <1>2

\* The locks of one transaction change, those of the other do not.
LEMMA HeldBy ==
    ASSUME TypeInv, NEW who \in {"analytics", "reconcile"}, NEW S,
           held' = [held EXCEPT ![who] = S]
    PROVE  /\ held' = [w \in {"analytics", "reconcile"} |-> held'[w]]
           /\ held'[who] = S
           /\ \A w \in {"analytics", "reconcile"} : w # who => held'[w] = held[w]
<1>1. held = [w \in {"analytics", "reconcile"} |-> held[w]]
  BY DEF TypeInv
<1> QED
  BY <1>1

-------------------------------------------------------------------------------
(* Types, and when a transaction is open.                                  *)

\* What the flush does keeps them.
LEMMA FlushTypes ==
    ASSUME TypeInv, NothingOpen, FlushStarts \/ UpsertRow \/ FlushCommits \/ FlushFails
    PROVE  TypeInv' /\ NothingOpen'
<1> USE DEF reconcileVars
<1>1. CASE FlushStarts
  <2>1. batch' \in Nat /\ applied + batch' <= Len(Log) /\ upserts' \in Locks(batch')
    <3>1. batch \in Nat /\ BatchSize \in Nat
      BY DEF TypeInv
    <3>2. Max({1, batch}) \in Nat /\ Max({BatchSize, batch}) \in Nat
      BY <3>1, MaxOfTwo
    <3> QED
      BY <1>1, <3>2 DEF FlushStarts
  <2>2. upserts' \in Seq(LiveRows)
    BY <2>1, LocksAreThose
  <2>3. /\ flushing' = TRUE
        /\ UNCHANGED <<clock, table, applied, shown, reconcileVars, held, failures>>
    BY <1>1 DEF FlushStarts
  <2> QED
    BY <2>1, <2>2, <2>3 DEF TypeInv, NothingOpen
<1>2. CASE UpsertRow
  <2>1. flushing = TRUE /\ upserts \in Seq(LiveRows) /\ upserts # <<>>
    BY <1>2 DEF UpsertRow, NothingOpen, TypeInv
  <2>2. Head(upserts) \in LiveRows /\ Tail(upserts) \in Seq(LiveRows)
    BY <2>1
  <2>3. /\ held' = [w \in {"analytics", "reconcile"} |-> held'[w]]
        /\ held'["analytics"] = held["analytics"] \union {Head(upserts)}
        /\ held'["reconcile"] = held["reconcile"]
    BY <1>2, HeldBy DEF UpsertRow
  <2>4. /\ upserts' = Tail(upserts)
        /\ UNCHANGED <<clock, table, applied, batch, flushing, shown, reconcileVars, failures>>
    BY <1>2 DEF UpsertRow
  <2>5. TypeInv'
    BY <2>2, <2>3, <2>4 DEF TypeInv
  <2>6. NothingOpen'
    BY <2>1, <2>3, <2>4 DEF NothingOpen
  <2> QED
    BY <2>5, <2>6
<1>3. CASE FlushCommits \/ FlushFails
  <2>1. /\ held' = [w \in {"analytics", "reconcile"} |-> held'[w]]
        /\ held'["analytics"] = {} /\ held'["reconcile"] = held["reconcile"]
    BY <1>3, HeldBy DEF FlushCommits, FlushFails, Release
  <2>2. /\ flushing' = FALSE /\ upserts' = <<>> /\ upserts' \in Seq(LiveRows)
        /\ UNCHANGED <<clock, shown, reconcileVars>>
    <3>1. /\ flushing' = FALSE /\ upserts' = <<>>
          /\ UNCHANGED <<clock, shown, reconcileVars>>
      BY <1>3 DEF FlushCommits, FlushFails
    <3>2. <<>> \in Seq(LiveRows)
      OBVIOUS
    <3> QED
      BY <3>1, <3>2
  <2>3. table' \in [DOMAIN table' -> [edits : Nat, users : Nat]]
    <3>1. CASE FlushCommits
      BY <3>1, CommitMeans DEF UpsertOf
    <3>2. CASE FlushFails
      BY <3>2 DEF FlushFails, TypeInv
    <3> QED
      BY <1>3, <3>1, <3>2
  <2>4. applied' \in Nat /\ batch' \in Nat /\ applied' + batch' <= Len(Log)
    <3>1. applied \in Nat /\ batch \in Nat /\ applied + batch <= Len(Log)
      BY DEF TypeInv
    <3> QED
      BY <1>3, <3>1 DEF FlushCommits, FlushFails
  <2>5. failures' \in Nat
    <3>1. failures \in Nat
      BY DEF TypeInv
    <3>2. failures' = failures \/ failures' = failures + 1
      BY <1>3 DEF FlushCommits, FlushFails, Fails
    <3> QED
      BY <3>1, <3>2
  <2>6. TypeInv'
    BY <2>1, <2>2, <2>3, <2>4, <2>5 DEF TypeInv
  <2>7. NothingOpen'
    BY <2>1, <2>2 DEF NothingOpen
  <2> QED
    BY <2>6, <2>7
<1> QED
  BY <1>1, <1>2, <1>3

\* What the reconciliation does keeps them.
LEMMA PassTypes ==
    ASSUME TypeInv, NothingOpen,
           PassStarts \/ QueryHour \/ QueryFails \/ UpdateRow \/ WriteCommits \/ WriteFails
    PROVE  TypeInv' /\ NothingOpen'
<1> USE DEF flushVars
<1>0. /\ back \in 0 .. Lookback /\ clock \in Nat /\ Lookback \in Nat /\ failures \in Nat
      /\ writing \in BOOLEAN
  BY DEF TypeInv
<1>1. CASE PassStarts
  <2>1. /\ back' \in 0 .. Lookback /\ since' \in Nat /\ back = Lookback
        /\ UNCHANGED <<clock, table, flushVars, shown, updates, users, writing, held, failures>>
    BY <1>0, <1>1 DEF PassStarts
  <2>2. ~writing
    BY <1>0, <2>1 DEF NothingOpen
  <2> QED
    BY <2>1, <2>2 DEF TypeInv, NothingOpen
<1>2. CASE QueryHour
  <2>1. /\ back < Lookback /\ writing = FALSE
        /\ UNCHANGED <<clock, table, flushVars, shown, since, held, failures>>
    BY <1>0, <1>2 DEF QueryHour
  <2>2. held["reconcile"] = {} /\ DOMAIN users = {}
    BY <2>1 DEF NothingOpen
  <2>3. CASE back' = back + 1 /\ UNCHANGED <<updates, users, writing>>
    <3>1. back' \in 0 .. Lookback
      BY <1>0, <2>1, <2>3
    <3>2. TypeInv'
      BY <2>1, <2>3, <3>1 DEF TypeInv
    <3> QED
      BY <2>1, <2>3, <3>2 DEF NothingOpen
  <2>4. CASE /\ back' = back /\ writing' = TRUE
             /\ updates' \in Seq(DOMAIN users')
             /\ users' \in [DOMAIN users' -> Nat]
    BY <1>0, <2>1, <2>2, <2>4 DEF TypeInv, NothingOpen
  <2> QED
    BY <1>2, <2>3, <2>4, QueryMeans
<1>3. CASE QueryFails
  <2>1. /\ back' \in 0 .. Lookback /\ failures' \in Nat /\ ~writing
        /\ UNCHANGED <<clock, table, flushVars, shown, since, updates, users, writing, held>>
    BY <1>0, <1>3 DEF QueryFails
  <2>2. TypeInv'
    BY <2>1 DEF TypeInv
  <2> QED
    BY <2>1, <2>2 DEF NothingOpen
<1>4. CASE UpdateRow
  <2>1. writing = TRUE /\ updates \in Seq(DOMAIN users) /\ updates # <<>>
    BY <1>4 DEF UpdateRow, NothingOpen, TypeInv
  <2>2. Head(updates) \in DOMAIN users /\ Tail(updates) \in Seq(DOMAIN users)
    BY <2>1
  <2>3. /\ updates' = Tail(updates)
        /\ UNCHANGED <<clock, table, flushVars, shown, back, since, users, writing, failures>>
    BY <1>4 DEF UpdateRow
  <2>4. /\ held' = [w \in {"analytics", "reconcile"} |-> held'[w]]
        /\ held'["analytics"] = held["analytics"]
        /\ held'["reconcile"] \subseteq held["reconcile"] \union {Head(updates)}
    <3>1. CASE held' = held
      BY <3>1 DEF TypeInv
    <3>2. CASE held' = [held EXCEPT !["reconcile"] = @ \union {Head(updates)}]
      BY <3>2, HeldBy
    <3> QED
      BY <1>4, <3>1, <3>2 DEF UpdateRow
  <2>5. TypeInv'
    BY <2>2, <2>3, <2>4 DEF TypeInv
  <2>6. NothingOpen'
    BY <2>1, <2>3, <2>4 DEF NothingOpen
  <2> QED
    BY <2>5, <2>6
<1>5. CASE WriteCommits \/ WriteFails
  <2>1. /\ held' = [w \in {"analytics", "reconcile"} |-> held'[w]]
        /\ held'["reconcile"] = {} /\ held'["analytics"] = held["analytics"]
    BY <1>5, HeldBy DEF WriteCommits, WriteFails, Release
  <2>2. /\ writing' = FALSE /\ updates' = <<>> /\ DOMAIN users' = {}
        /\ updates' \in Seq(DOMAIN users') /\ users' \in [DOMAIN users' -> Nat]
        /\ UNCHANGED <<clock, flushVars, shown, since>>
    <3>1. /\ writing' = FALSE /\ updates' = <<>> /\ users' = [row \in {} |-> 0]
          /\ UNCHANGED <<clock, flushVars, shown, since>>
      BY <1>5 DEF WriteCommits, WriteFails
    <3>2. <<>> \in Seq({})
      OBVIOUS
    <3>3. DOMAIN users' = {} /\ users' \in [{} -> Nat]
      BY <3>1
    <3> QED
      BY <3>1, <3>2, <3>3
  <2>3. table' \in [DOMAIN table' -> [edits : Nat, users : Nat]]
    <3>1. CASE WriteCommits
      BY <3>1, WriteMeans
    <3>2. CASE WriteFails
      BY <3>2 DEF WriteFails, TypeInv
    <3> QED
      BY <1>5, <3>1, <3>2
  <2>4. back' \in 0 .. Lookback
    <3>1. writing
      BY <1>5 DEF WriteCommits, WriteFails
    <3>2. back < Lookback
      BY <3>1 DEF NothingOpen
    <3> QED
      BY <1>0, <1>5, <3>2 DEF WriteCommits, WriteFails
  <2>5. failures' \in Nat
    <3>1. failures' = failures \/ failures' = failures + 1
      BY <1>5 DEF WriteCommits, WriteFails, Fails
    <3> QED
      BY <1>0, <3>1
  <2>6. TypeInv'
    BY <2>1, <2>2, <2>3, <2>4, <2>5 DEF TypeInv
  <2>7. NothingOpen'
    BY <2>1, <2>2 DEF NothingOpen
  <2> QED
    BY <2>6, <2>7
<1> QED
  BY <1>1, <1>2, <1>3, <1>4, <1>5

\* The steps of neither transaction.
Aside == HourPasses \/ Index \/ CleanupAgg \/ Seed \/ Unseed

\* They keep types too, and leave both transactions alone.
LEMMA AsideTypes ==
    ASSUME TypeInv, NothingOpen, Aside
    PROVE  TypeInv' /\ NothingOpen' /\ UNCHANGED <<flushVars, reconcileVars, held, failures>>
<1>1. UNCHANGED <<flushVars, reconcileVars, held, failures>>
  BY DEF Aside, HourPasses, Index, CleanupAgg, Seed, Unseed
<1>2. table' \in [DOMAIN table' -> [edits : Nat, users : Nat]]
  <2>1. CASE HourPasses \/ Index
    BY <2>1 DEF HourPasses, Index, TypeInv
  <2>2. CASE CleanupAgg
    BY <2>2, KeptMeans DEF CleanupAgg
  <2>3. CASE Seed
    BY <2>3, SeedMeans
  <2>4. CASE Unseed
    BY <2>4, KeptMeans DEF Unseed
  <2> QED
    BY <2>1, <2>2, <2>3, <2>4 DEF Aside
<1>3. clock' \in Nat /\ shown' \in Nat /\ shown' <= Len(Log)
  <2>1. clock \in Nat /\ shown \in Nat /\ shown <= Len(Log) /\ Len(Log) \in Nat
    BY LogFacts DEF TypeInv
  <2> QED
    BY <2>1 DEF Aside, HourPasses, Index, CleanupAgg, Seed, Unseed
<1> QED
  BY <1>1, <1>2, <1>3 DEF TypeInv, NothingOpen, flushVars, reconcileVars

\* Every step keeps types and what is open.
LEMMA TypeStep ==
    ASSUME TypeInv, NothingOpen, [Next]_vars
    PROVE  TypeInv' /\ NothingOpen'
<1>1. CASE UNCHANGED vars
  BY <1>1 DEF vars, flushVars, reconcileVars, TypeInv, NothingOpen
<1> QED
  BY <1>1, FlushTypes, PassTypes, AsideTypes DEF Next, Aside

-------------------------------------------------------------------------------
(* The order of the locks.                                                 *)

\* A flush locks the row of an hour before those of its languages.
LEMMA FlushLocks ==
    ASSUME TypeInv, NothingOpen, GateFirst,
           FlushStarts \/ UpsertRow \/ FlushCommits \/ FlushFails
    PROVE  GateFirst'
<1>1. /\ held["analytics"] \intersect held["reconcile"] = {}
      /\ UNCHANGED reconcileVars
      /\ \A i \in DOMAIN updates :
            \/ i = 1 /\ updates[i] = Gate(Hour) /\ held["reconcile"] = {}
            \/ updates[i].table = "lang" /\ updates[i].hour = Hour
  BY DEF GateFirst, FlushStarts, UpsertRow, FlushCommits, FlushFails
<1>2. CASE FlushStarts
  <2>1. /\ held["analytics"] = {} /\ held' = held /\ upserts' \in Locks(batch')
        /\ applied + batch' <= Len(Log) /\ batch' \in Nat
    <3>1. TypeInv'
      BY <1>2, FlushTypes
    <3> QED
      BY <1>2, <3>1 DEF FlushStarts, NothingOpen, TypeInv
  <2>2. \A i \in DOMAIN upserts' : upserts'[i].table = "lang" =>
           \E j \in 1 .. i - 1 : upserts'[j] = Gate(upserts'[i].hour)
    BY <2>1, LocksAreThose
  <2> QED
    BY <1>1, <2>1, <2>2 DEF GateFirst, Gate, Row, reconcileVars, Hour
<1>3. CASE UpsertRow
  <2>1. /\ upserts \in Seq(LiveRows) /\ upserts # <<>>
        /\ Head(upserts) \notin held["reconcile"] /\ upserts' = Tail(upserts)
    BY <1>3 DEF UpsertRow, TypeInv
  <2>2. /\ held'["analytics"] = held["analytics"] \union {Head(upserts)}
        /\ held'["reconcile"] = held["reconcile"]
    BY <1>3, HeldBy DEF UpsertRow
  <2>3. /\ Len(upserts) \in Nat /\ Len(upserts) >= 1 /\ DOMAIN upserts = 1 .. Len(upserts)
        /\ Head(upserts) = upserts[1]
        /\ DOMAIN upserts' = 1 .. Len(upserts) - 1
        /\ \A i \in 1 .. Len(upserts) - 1 : upserts'[i] = upserts[i + 1]
    BY <2>1
  <2>4. \A i \in DOMAIN upserts : upserts[i].table = "lang" =>
           \/ Gate(upserts[i].hour) \in held["analytics"]
           \/ \E j \in 1 .. i - 1 : upserts[j] = Gate(upserts[i].hour)
    BY DEF GateFirst
  <2>5. upserts[1].table = "lang" => Gate(upserts[1].hour) \in held["analytics"]
    BY <2>3, <2>4
  <2>6. \A row \in held'["analytics"] : row.table = "lang" =>
           Gate(row.hour) \in held'["analytics"]
    BY <2>2, <2>3, <2>5 DEF GateFirst
  <2>7. ASSUME NEW i \in DOMAIN upserts', upserts'[i].table = "lang"
        PROVE  \/ Gate(upserts'[i].hour) \in held'["analytics"]
               \/ \E j \in 1 .. i - 1 : upserts'[j] = Gate(upserts'[i].hour)
    <3>1. i + 1 \in DOMAIN upserts /\ upserts'[i] = upserts[i + 1] /\ i \in Nat
      BY <2>3
    <3>2. CASE Gate(upserts[i + 1].hour) \in held["analytics"]
      BY <2>2, <3>1, <3>2
    <3>3. ASSUME NEW j \in 1 .. i, upserts[j] = Gate(upserts[i + 1].hour)
          PROVE  \/ Gate(upserts'[i].hour) \in held'["analytics"]
                 \/ \E k \in 1 .. i - 1 : upserts'[k] = Gate(upserts'[i].hour)
      <4>1. CASE j = 1
        BY <2>2, <2>3, <3>1, <3>3, <4>1
      <4>2. CASE j # 1
        <5>1. j - 1 \in 1 .. i - 1 /\ j - 1 \in 1 .. Len(upserts) - 1 /\ (j - 1) + 1 = j
          BY <2>3, <3>1, <4>2
        <5>2. upserts'[j - 1] = upserts[j]
          BY <2>3, <5>1
        <5> QED
          BY <3>1, <3>3, <5>1, <5>2
      <4> QED
        BY <4>1, <4>2
    <3>4. (i + 1) - 1 = i
      BY <3>1
    <3> QED
      BY <2>4, <2>7, <3>1, <3>2, <3>3, <3>4
  <2>8. \A i \in DOMAIN updates' :
           \/ i = 1 /\ updates'[i] = Gate(Hour') /\ held'["reconcile"] = {}
           \/ updates'[i].table = "lang" /\ updates'[i].hour = Hour'
    BY <1>1, <2>2 DEF reconcileVars, Hour
  <2>9. held'["analytics"] \intersect held'["reconcile"] = {}
    BY <1>1, <2>1, <2>2
  <2> QED
    BY <2>6, <2>7, <2>8, <2>9 DEF GateFirst, Gate, Row
<1>4. CASE FlushCommits \/ FlushFails
  <2>1. held'["analytics"] = {} /\ held'["reconcile"] = held["reconcile"]
    BY <1>4, HeldBy DEF FlushCommits, FlushFails, Release
  <2>2. DOMAIN upserts' = {}
    <3>1. upserts' = <<>>
      BY <1>4 DEF FlushCommits, FlushFails
    <3> QED
      BY <3>1
  <2> QED
    BY <1>1, <2>1, <2>2 DEF GateFirst, Gate, Row, reconcileVars, Hour
<1> QED
  BY <1>2, <1>3, <1>4

\* The reconciliation locks the row of an hour first, if it is there.
LEMMA PassLocks ==
    ASSUME TypeInv, NothingOpen, GateFirst,
           PassStarts \/ QueryHour \/ QueryFails \/ UpdateRow \/ WriteCommits \/ WriteFails
    PROVE  GateFirst'
<1>1. /\ held["analytics"] \intersect held["reconcile"] = {}
      /\ \A row \in held["analytics"] : row.table = "lang" => Gate(row.hour) \in held["analytics"]
      /\ \A i \in DOMAIN upserts : upserts[i].table = "lang" =>
            \/ Gate(upserts[i].hour) \in held["analytics"]
            \/ \E j \in 1 .. i - 1 : upserts[j] = Gate(upserts[i].hour)
  BY DEF GateFirst
<1>2. upserts' = upserts
  BY DEF PassStarts, QueryHour, QueryFails, UpdateRow, WriteCommits, WriteFails, flushVars
\* It suffices that the other transaction's locks are as they were.
<1>3. ASSUME held'["analytics"] = held["analytics"],
             held["analytics"] \intersect held'["reconcile"] = {},
             \A i \in DOMAIN updates' :
                \/ i = 1 /\ updates'[i] = Gate(Hour') /\ held'["reconcile"] = {}
                \/ updates'[i].table = "lang" /\ updates'[i].hour = Hour'
      PROVE  GateFirst'
  BY <1>1, <1>2, <1>3 DEF GateFirst, Gate, Row
<1>4. ASSUME ~writing, held' = held, updates' = updates PROVE GateFirst'
  <2>1. DOMAIN updates' = {}
    <3>1. updates' = <<>>
      BY <1>4 DEF NothingOpen
    <3> QED
      BY <3>1
  <2> QED
    BY <1>1, <1>3, <1>4, <2>1
<1>5. CASE PassStarts
  <2>1. ~writing
    BY <1>5 DEF PassStarts, NothingOpen, TypeInv
  <2> QED
    BY <1>4, <1>5, <2>1 DEF PassStarts
<1>6. CASE QueryFails
  BY <1>4, <1>6 DEF QueryFails
<1>7. CASE QueryHour
  <2>1. ~writing /\ held' = held /\ since' = since /\ held["reconcile"] = {}
    BY <1>7 DEF QueryHour, NothingOpen
  <2>2. CASE UNCHANGED <<updates, users, writing>>
    BY <1>4, <2>1, <2>2
  <2>3. CASE /\ back' = back
             /\ \A i \in DOMAIN updates' :
                   \/ i = 1 /\ updates'[i] = Gate(Hour)
                   \/ updates'[i].table = "lang" /\ updates'[i].hour = Hour
    <3>1. Hour' = Hour
      BY <2>1, <2>3 DEF Hour
    <3> QED
      BY <1>1, <1>3, <2>1, <2>3, <3>1
  <2> QED
    BY <1>7, <2>2, <2>3, QueryMeans
<1>8. CASE UpdateRow
  <2>1. /\ updates \in Seq(DOMAIN users) /\ updates # <<>> /\ updates' = Tail(updates)
        /\ Hour' = Hour
    BY <1>8 DEF UpdateRow, TypeInv, Hour
  <2>2. /\ held'["analytics"] = held["analytics"]
        /\ held["analytics"] \intersect held'["reconcile"] = {}
    <3>1. CASE held' = held
      BY <1>1, <3>1
    <3>2. CASE /\ Head(updates) \notin held["analytics"]
               /\ held' = [held EXCEPT !["reconcile"] = @ \union {Head(updates)}]
      BY <1>1, <3>2, HeldBy
    <3> QED
      BY <1>8, <3>1, <3>2 DEF UpdateRow
  <2>3. ASSUME NEW i \in DOMAIN updates'
        PROVE  updates'[i].table = "lang" /\ updates'[i].hour = Hour'
    <3>1. /\ i + 1 \in DOMAIN updates /\ updates'[i] = updates[i + 1] /\ i + 1 # 1
      BY <2>1
    <3> QED
      BY <2>1, <3>1 DEF GateFirst
  <2> QED
    BY <1>3, <2>2, <2>3
<1>9. CASE WriteCommits \/ WriteFails
  <2>1. held'["reconcile"] = {} /\ held'["analytics"] = held["analytics"]
    BY <1>9, HeldBy DEF WriteCommits, WriteFails, Release
  <2>2. DOMAIN updates' = {}
    <3>1. updates' = <<>>
      BY <1>9 DEF WriteCommits, WriteFails
    <3> QED
      BY <3>1
  <2> QED
    BY <1>3, <2>1, <2>2
<1> QED
  BY <1>5, <1>6, <1>7, <1>8, <1>9

\* Every step keeps the order.
LEMMA GateStep ==
    ASSUME TypeInv, NothingOpen, GateFirst, [Next]_vars
    PROVE  GateFirst'
<1>1. CASE Aside \/ UNCHANGED vars
  <2>1. UNCHANGED <<flushVars, reconcileVars, held>>
    <3>1. CASE Aside
      BY <3>1, AsideTypes
    <3>2. CASE UNCHANGED vars
      BY <3>2 DEF vars, flushVars, reconcileVars
    <3> QED
      BY <1>1, <3>1, <3>2
  <2> QED
    BY <2>1 DEF flushVars, reconcileVars, GateFirst, Gate, Row, Hour
<1> QED
  BY <1>1, FlushLocks, PassLocks DEF Next, Aside

-------------------------------------------------------------------------------
(* The distinct counts.                                                    *)

\* A step that writes no distinct count: rows keep theirs or begin with none,
\* and the index only shows more.
LEMMA KnownKept ==
    ASSUME TypeInv, TypeInv', Known, shown <= shown', users' = users,
           \A row \in DOMAIN table' : row.source = "live" =>
               \/ table'[row].users = 0
               \/ row \in DOMAIN table /\ table'[row].users = table[row].users
    PROVE  Known'
<1>1. shown \in Nat /\ shown' \in Nat
  BY DEF TypeInv
<1>2. \A row : /\ UsersOf(Matching(row, shown)) \in Nat
               /\ UsersOf(Matching(row, shown')) \in Nat
               /\ UsersOf(Matching(row, shown)) <= UsersOf(Matching(row, shown'))
  BY <1>1, UsersOfARow
<1>3. /\ \A row \in DOMAIN table : table[row].users \in Nat
      /\ \A row \in DOMAIN users : users[row] \in Nat
  BY DEF TypeInv
<1>4. \A row \in DOMAIN table' : row.source = "live" =>
         table'[row].users <= UsersOf(Matching(row, shown'))
  <2> SUFFICES ASSUME NEW row \in DOMAIN table', row.source = "live"
               PROVE  table'[row].users <= UsersOf(Matching(row, shown'))
    OBVIOUS
  <2>1. CASE table'[row].users = 0
    BY <1>2, <2>1
  <2>2. CASE row \in DOMAIN table /\ table'[row].users = table[row].users
    <3>1. table[row].users <= UsersOf(Matching(row, shown))
      BY <2>2 DEF Known
    <3> QED
      BY <1>2, <1>3, <2>2, <3>1
  <2> QED
    BY <2>1, <2>2
<1>5. ASSUME NEW row \in DOMAIN users
      PROVE  /\ row.source = "live"
             /\ users[row] <= UsersOf(Matching(row, shown'))
             /\ row \in DOMAIN table' => table'[row].users <= users[row]
  <2>1. row.source = "live" /\ users[row] <= UsersOf(Matching(row, shown))
    BY DEF Known
  <2>2. row \in DOMAIN table => table[row].users <= users[row]
    BY DEF Known
  <2> QED
    BY <1>2, <1>3, <2>1, <2>2
<1> QED
  BY <1>4, <1>5 DEF Known, Matching, UsersOf

\* What the index showed when it was asked is known, whatever is written next.
LEMMA KnownStep ==
    ASSUME TypeInv, NothingOpen, Known, [Next]_vars
    PROVE  Known'
<1>1. TypeInv'
  BY TypeStep
<1>2. shown \in Nat /\ shown' \in Nat
  BY <1>1 DEF TypeInv
<1>3. \A row : /\ UsersOf(Matching(row, shown)) \in Nat
               /\ UsersOf(Matching(row, shown)) <= UsersOf(Matching(row, shown))
  BY <1>2, UsersOfARow
<1>4. CASE table' = table /\ users' = users /\ shown <= shown'
  BY <1>1, <1>4, KnownKept
<1>5. CASE CleanupAgg \/ Unseed
  <2>1. shown <= shown' /\ users' = users
    BY <1>2, <1>5 DEF CleanupAgg, Unseed, reconcileVars
  <2>2. \A row \in DOMAIN table' : row \in DOMAIN table /\ table'[row] = table[row]
    BY <1>5, KeptMeans DEF CleanupAgg, Unseed
  <2> QED
    BY <1>1, <2>1, <2>2, KnownKept
<1>6. CASE Seed
  <2>1. shown <= shown' /\ users' = users
    BY <1>2, <1>6 DEF Seed, reconcileVars
  <2>2. \A row \in DOMAIN table' : row.source # "live"
    BY <1>6, SeedMeans
  <2> QED
    BY <1>1, <2>1, <2>2, KnownKept
<1>7. CASE FlushCommits
  <2>1. shown <= shown' /\ users' = users /\ table' = Upserted(Written)
    BY <1>2, <1>7 DEF FlushCommits, reconcileVars
  <2>3. /\ DOMAIN table' = DOMAIN table \union Written
        /\ \A row \in Written : table'[row].users = Old(row).users
        /\ \A row \in DOMAIN table \ Written : table'[row] = table[row]
    BY <1>7, CommitMeans DEF UpsertOf
  <2>2. ASSUME NEW row \in DOMAIN table'
        PROVE  \/ table'[row].users = 0
               \/ row \in DOMAIN table /\ table'[row].users = table[row].users
    <3>1. CASE row \in Written
      <4>1. table'[row].users = Old(row).users
        BY <2>3, <3>1
      <4> QED
        BY <4>1 DEF Old
    <3>2. CASE row \notin Written
      BY <2>2, <2>3, <3>2
    <3> QED
      BY <3>1, <3>2
  <2> QED
    BY <1>1, <2>1, <2>2, KnownKept
<1>8. CASE QueryHour
  <2>1. table' = table /\ shown' = shown
    BY <1>8 DEF QueryHour
  <2>2. CASE UNCHANGED <<updates, users, writing>>
    BY <1>2, <1>4, <2>1, <2>2
  <2>3. CASE \A row \in DOMAIN users' :
                row.source = "live" /\ users'[row] = UsersOf(Matching(row, shown))
    <3>1. \A row \in DOMAIN table : row.source = "live" =>
             table[row].users <= UsersOf(Matching(row, shown))
      BY DEF Known
    <3>2. \A row \in DOMAIN users' :
             /\ row.source = "live"
             /\ users'[row] <= UsersOf(Matching(row, shown))
             /\ row \in DOMAIN table => table[row].users <= users'[row]
      BY <1>3, <2>3, <3>1
    <3> QED
      BY <2>1, <3>1, <3>2 DEF Known, Matching, UsersOf
  <2> QED
    BY <1>8, <2>2, <2>3, QueryMeans
<1>9. CASE WriteCommits
  <2>1. shown' = shown /\ DOMAIN users' = {}
    BY <1>9 DEF WriteCommits
  <2>2. ASSUME NEW row \in DOMAIN table', row.source = "live"
        PROVE  table'[row].users <= UsersOf(Matching(row, shown))
    <3>1. row \in DOMAIN table
      BY <1>9, WriteMeans
    <3>2. CASE row \in held["reconcile"]
      <4>1. table'[row].users = users[row] /\ row \in DOMAIN users
        BY <1>9, <3>1, <3>2, WriteMeans DEF TypeInv
      <4> QED
        BY <4>1 DEF Known
    <3>3. CASE row \notin held["reconcile"]
      <4>1. table'[row].users = table[row].users
        BY <1>9, <3>1, <3>3, WriteMeans
      <4> QED
        BY <2>2, <3>1, <4>1 DEF Known
    <3> QED
      BY <3>2, <3>3
  <2> QED
    BY <2>1, <2>2 DEF Known, Matching, UsersOf
<1>10. CASE WriteFails
  <2>1. table' = table /\ shown' = shown /\ DOMAIN users' = {}
    BY <1>10 DEF WriteFails
  <2> QED
    BY <2>1 DEF Known, Matching, UsersOf
<1>11. CASE HourPasses \/ Index \/ FlushStarts \/ UpsertRow \/ FlushFails \/ PassStarts
            \/ QueryFails \/ UpdateRow \/ UNCHANGED vars
  <2>1. /\ table' = table /\ users' = users
        /\ shown' = shown \/ shown' = shown + 1
    BY <1>11 DEF HourPasses, Index, FlushStarts, UpsertRow, FlushFails, PassStarts,
                 QueryFails, UpdateRow, vars, reconcileVars
  <2> QED
    BY <1>2, <1>4, <2>1
<1> QED
  BY <1>5, <1>6, <1>7, <1>8, <1>9, <1>10, <1>11 DEF Next

-------------------------------------------------------------------------------
(* The additive counts.                                                    *)

\* What has been counted, and what a batch holds, are events.
LEMMA AppliedAreEvents ==
    ASSUME TypeInv
    PROVE  /\ clock \in Nat /\ applied \in Nat /\ batch \in Nat
           /\ 1 .. applied \subseteq Events /\ 1 .. applied + batch \subseteq Events
           /\ \A e \in Events : e \in Nat /\ Log[e].hour \in Nat
<1>1. /\ clock \in Nat /\ applied \in Nat /\ batch \in Nat
      /\ applied + batch <= Len(Log) /\ Len(Log) \in Nat
  BY LogFacts DEF TypeInv
<1> QED
  BY <1>1, LogFacts DEF Events

\* The batch adds to a row what it has of it.
LEMMA MatchingAdds ==
    ASSUME TypeInv, NEW row
    PROVE  Cardinality(Matching(row, applied + batch)) =
               Cardinality(Matching(row, applied)) + Added(row)
<1> DEFINE S == {i \in 1 .. batch : RowOf(row.table, applied + i) = row}
           T == {e \in applied + 1 .. applied + batch : RowOf(row.table, e) = row}
           f == [i \in S |-> applied + i]
<1>1. applied \in Nat /\ batch \in Nat
  BY DEF TypeInv
<1>2. IsFiniteSet(S)
  <2>1. IsFiniteSet(1 .. batch)
    BY <1>1, UpToIsFinite
  <2> QED
    BY <2>1, FS_Subset
<1>3. f \in Bijection(S, T)
  <2>1. f \in [S -> T]
    BY <1>1
  <2>2. \A i, j \in S : f[i] = f[j] => i = j
    BY <1>1
  <2>3. \A e \in T : \E i \in S : f[i] = e
    <3> SUFFICES ASSUME NEW e \in T PROVE \E i \in S : f[i] = e
      OBVIOUS
    <3>1. e - applied \in 1 .. batch /\ applied + (e - applied) = e
      BY <1>1
    <3>2. e - applied \in S
      BY <3>1
    <3> QED
      BY <3>1, <3>2
  <2> HIDE DEF f, S, T
  <2> QED
    BY <2>1, <2>2, <2>3 DEF Bijection, Injection, Surjection, IsInjective
<1>4. IsFiniteSet(T) /\ Cardinality(T) = Cardinality(S)
  <2>1. ExistsBijection(S, T)
    BY <1>3 DEF ExistsBijection
  <2> QED
    BY <1>2, <2>1, FS_Bijection
<1>5. IsFiniteSet(Matching(row, applied)) /\ Cardinality(Matching(row, applied)) \in Nat
  BY <1>1, MatchingIsFinite
<1>6. Matching(row, applied + batch) = Matching(row, applied) \union T
  BY <1>1 DEF Matching
<1>7. Matching(row, applied) \cap T = {}
  BY <1>1 DEF Matching
<1>8. Cardinality(T) = Added(row) /\ Added(row) \in Nat
  BY <1>4, AddedIsNat DEF Added
<1> HIDE DEF S, T
<1>9. Cardinality(Matching(row, applied) \union T) =
         Cardinality(Matching(row, applied)) + Cardinality(T) - Cardinality({})
  BY <1>4, <1>5, <1>7, FS_Union
<1>10. Cardinality({}) = 0
  BY FS_EmptySet
<1>11. Cardinality(Matching(row, applied) \union T) =
         Cardinality(Matching(row, applied)) + Added(row)
  BY <1>5, <1>8, <1>9, <1>10
<1> QED
  BY <1>6, <1>11

\* A step that leaves the rows of the retention as they are.
LEMMA CountedKept ==
    ASSUME TypeInv, TypeInv', Counted, applied' = applied, clock <= clock',
           \A e \in Events : Log[e].hour <= clock' - Retention => e <= applied,
           \A t \in Tables, e \in Events : Log[e].hour > clock' - Retention =>
              /\ RowOf(t, e) \in DOMAIN table' <=> RowOf(t, e) \in DOMAIN table
              /\ RowOf(t, e) \in DOMAIN table =>
                    table'[RowOf(t, e)].edits = table[RowOf(t, e)].edits
    PROVE  Counted'
<1>1. /\ clock \in Nat /\ clock' \in Nat /\ applied \in Nat
      /\ 1 .. applied \subseteq Events
      /\ \A e \in Events : Log[e].hour \in Nat
  BY AppliedAreEvents DEF TypeInv
<1>2. \A e \in Events : Log[e].hour > clock' - Retention => Fresh(e)
  BY <1>1 DEF Fresh
<1>3. \A e \in Events : ~(Log[e].hour > clock' - Retention) => e <= applied
  BY <1>1
<1>4. ASSUME NEW t \in Tables, NEW e \in 1 .. applied, Log[e].hour > clock' - Retention
      PROVE  RowOf(t, e) \in DOMAIN table'
  BY <1>1, <1>2, <1>4 DEF Counted
<1>5. ASSUME NEW t \in Tables, NEW e \in Events, Log[e].hour > clock' - Retention,
             RowOf(t, e) \in DOMAIN table'
      PROVE  table'[RowOf(t, e)].edits = Cardinality(Matching(RowOf(t, e), applied))
  BY <1>2, <1>5 DEF Counted
<1> QED
  BY <1>3, <1>4, <1>5 DEF Counted, Fresh, Matching

\* The flush that commits counts its batch in every table.
LEMMA CommitCounts ==
    ASSUME TypeInv, Counted, FlushCommits
    PROVE  Counted'
<1>1. /\ clock' = clock /\ applied' = applied + batch
  BY DEF FlushCommits
<1>2. /\ clock \in Nat /\ applied \in Nat /\ batch \in Nat
      /\ 1 .. applied + batch \subseteq Events /\ 1 .. applied \subseteq Events
      /\ \A e \in Events : Log[e].hour \in Nat
  BY AppliedAreEvents
<1>3. UpsertOf(Written, table')
  BY CommitMeans
<1>4. ASSUME NEW t \in Tables, NEW e \in Events, Fresh(e), RowOf(t, e) \notin DOMAIN table
      PROVE  Matching(RowOf(t, e), applied) = {}
  <2> SUFFICES ASSUME NEW d \in Matching(RowOf(t, e), applied) PROVE FALSE
    OBVIOUS
  <2>1. d \in 1 .. applied /\ RowOf(t, d) = RowOf(t, e)
    BY RowFields DEF Matching
  <2>2. Log[d].hour = Log[e].hour
    BY <2>1, RowFields
  <2> QED
    BY <1>4, <2>1, <2>2 DEF Counted, Fresh
<1>5. ASSUME NEW t \in Tables, NEW e \in Events, Fresh(e), RowOf(t, e) \in DOMAIN table'
      PROVE  table'[RowOf(t, e)].edits = Cardinality(Matching(RowOf(t, e), applied + batch))
  <2> DEFINE row == RowOf(t, e)
  <2>1. /\ Cardinality(Matching(row, applied + batch)) =
              Cardinality(Matching(row, applied)) + Added(row)
        /\ Added(row) \in Nat
    BY MatchingAdds, AddedIsNat
  <2>2. Cardinality(Matching(row, applied)) \in Nat
    BY <1>2, MatchingIsFinite
  <2>3. Old(row).edits = Cardinality(Matching(row, applied))
    <3>1. CASE row \in DOMAIN table
      BY <1>5, <3>1 DEF Counted, Old
    <3>2. CASE row \notin DOMAIN table
      BY <1>4, <1>5, <3>2, FS_EmptySet DEF Old
    <3> QED
      BY <3>1, <3>2
  <2>4. CASE row \in Written
    BY <1>3, <2>1, <2>3, <2>4 DEF UpsertOf
  <2>5. CASE row \notin Written
    <3>1. row \in DOMAIN table /\ table'[row] = table[row]
      BY <1>3, <1>5, <2>5 DEF UpsertOf
    <3>2. Added(row) = 0
      <4>1. {i \in 1 .. batch : RowOf(row.table, applied + i) = row} = {}
        <5>1. \A i \in 1 .. batch : RowOf(t, applied + i) \in Written
          BY DEF Written, Tables
        <5>2. row.table = t
          BY RowFields
        <5> QED
          BY <2>5, <5>1, <5>2
      <4> QED
        BY <4>1, FS_EmptySet DEF Added
    <3>3. table[row].edits = Cardinality(Matching(row, applied))
      BY <1>5, <3>1 DEF Counted
    <3> QED
      BY <2>1, <2>2, <3>1, <3>2, <3>3
  <2> QED
    BY <2>4, <2>5
<1>6. ASSUME NEW t \in Tables, NEW e \in 1 .. applied + batch, Fresh(e)
      PROVE  RowOf(t, e) \in DOMAIN table'
  <2>1. CASE e <= applied
    <3>1. RowOf(t, e) \in DOMAIN table
      BY <1>2, <1>6, <2>1 DEF Counted
    <3> QED
      BY <1>3, <3>1 DEF UpsertOf
  <2>2. CASE ~(e <= applied)
    <3>1. e - applied \in 1 .. batch /\ applied + (e - applied) = e
      BY <1>2, <2>2
    <3>2. RowOf(t, e) \in Written
      BY <3>1 DEF Written, Tables
    <3> QED
      BY <1>3, <3>2 DEF UpsertOf
  <2> QED
    BY <2>1, <2>2
<1>7. \A e \in Events : ~Fresh(e) => e <= applied + batch
  <2> SUFFICES ASSUME NEW e \in Events, ~Fresh(e) PROVE e <= applied + batch
    OBVIOUS
  <2>1. e <= applied /\ e \in Nat
    BY LogFacts DEF Counted, Events
  <2> QED
    BY <1>2, <2>1
<1> QED
  BY <1>1, <1>5, <1>6, <1>7 DEF Counted, Fresh, Matching

\* Every step keeps the counts.
LEMMA CountedStep ==
    ASSUME TypeInv, NothingOpen, Counted, [Next]_vars
    PROVE  Counted'
<1>1. TypeInv'
  BY TypeStep
<1>2. /\ clock \in Nat /\ applied \in Nat /\ 1 .. applied \subseteq Events
      /\ \A e \in Events : Log[e].hour \in Nat
  BY AppliedAreEvents
<1>3. \A e \in Events : Log[e].hour <= clock - Retention => e <= applied
  BY <1>2 DEF Counted, Fresh
<1>4. ASSUME applied' = applied, clock' = clock,
             \A t \in Tables, e \in Events : Log[e].hour > clock - Retention =>
                /\ RowOf(t, e) \in DOMAIN table' <=> RowOf(t, e) \in DOMAIN table
                /\ RowOf(t, e) \in DOMAIN table =>
                      table'[RowOf(t, e)].edits = table[RowOf(t, e)].edits
      PROVE  Counted'
  <2>1. clock <= clock'
    BY <1>2, <1>4
  <2> QED
    BY <1>1, <1>3, <1>4, <2>1, CountedKept
<1>5. CASE HourPasses
  <2>1. /\ clock' = clock + 1 /\ applied' = applied /\ table' = table
        /\ \A e \in Events : Log[e].hour <= clock + 1 - Retention => e <= applied
    BY <1>5 DEF HourPasses, flushVars
  <2>2. clock <= clock'
    BY <1>2, <2>1
  <2>3. \A e \in Events : Log[e].hour <= clock' - Retention => e <= applied
    <3> SUFFICES ASSUME NEW e \in Events, Log[e].hour <= clock' - Retention
                 PROVE  e <= applied
      OBVIOUS
    <3>1. clock' - Retention = clock + 1 - Retention
      BY <1>2, <2>1
    <3> QED
      BY <2>1, <3>1
  <2>4. \A t \in Tables, e \in Events : Log[e].hour > clock' - Retention =>
           /\ RowOf(t, e) \in DOMAIN table' <=> RowOf(t, e) \in DOMAIN table
           /\ RowOf(t, e) \in DOMAIN table =>
                 table'[RowOf(t, e)].edits = table[RowOf(t, e)].edits
    BY <2>1
  <2>5. applied' = applied
    BY <2>1
  <2> QED
    BY <1>1, <2>2, <2>3, <2>4, <2>5, CountedKept
<1>6. CASE CleanupAgg
  <2> DEFINE old == {row \in DOMAIN table : row.hour <= clock - Retention}
  <2>1. applied' = applied /\ clock' = clock /\ table' = Kept(DOMAIN table \ old)
    BY <1>6 DEF CleanupAgg, flushVars
  <2>2. /\ DOMAIN table' = DOMAIN table \ old
        /\ \A row \in DOMAIN table \ old : table'[row] = table[row]
    BY <2>1, KeptMeans
  <2>3. \A t \in Tables, e \in Events : Log[e].hour > clock - Retention =>
           RowOf(t, e) \notin old
    BY <1>2, RowFields
  <2> HIDE DEF old
  <2> QED
    BY <1>4, <2>1, <2>2, <2>3
<1>7. CASE Seed
  <2>1. applied' = applied /\ clock' = clock /\ DOMAIN table = {}
    BY <1>7 DEF Seed, flushVars
  <2>2. \A t, e : RowOf(t, e) \notin DOMAIN table'
    BY <1>7, SeedMeans, RowFields
  <2> QED
    BY <1>4, <2>1, <2>2
<1>8. CASE Unseed
  <2> DEFINE rest == {row \in DOMAIN table : row.source # "synthetic"}
  <2>1. applied' = applied /\ clock' = clock /\ table' = Kept(rest)
    BY <1>8 DEF Unseed, flushVars
  <2>2. DOMAIN table' = rest /\ \A row \in rest : table'[row] = table[row]
    BY <2>1, KeptMeans
  <2>3. \A t, e : RowOf(t, e) \in DOMAIN table => RowOf(t, e) \in rest
    BY RowFields
  <2>4. rest \subseteq DOMAIN table
    OBVIOUS
  <2> HIDE DEF rest
  <2> QED
    BY <1>4, <2>1, <2>2, <2>3, <2>4
<1>9. CASE WriteCommits
  <2>1. applied' = applied /\ clock' = clock
    BY <1>9 DEF WriteCommits, flushVars
  <2> QED
    BY <1>4, <1>9, <2>1, WriteMeans
<1>10. CASE Index \/ FlushStarts \/ UpsertRow \/ FlushFails \/ PassStarts \/ QueryHour
            \/ QueryFails \/ UpdateRow \/ WriteFails \/ UNCHANGED vars
  <2>1. applied' = applied /\ clock' = clock /\ table' = table
    BY <1>10 DEF Index, FlushStarts, UpsertRow, FlushFails, PassStarts, QueryHour,
                 QueryFails, UpdateRow, WriteFails, vars, flushVars
  <2> QED
    BY <1>4, <2>1
<1> QED
  BY <1>5, <1>6, <1>7, <1>8, <1>9, <1>10, CommitCounts DEF Next

-------------------------------------------------------------------------------
(* The dashboard.                                                          *)

\* Every live row is one of an event that was counted, and its number is exact,
\* whether the row has expired or not; and the four tables keep or lose the rows
\* of an event together.
Exact ==
    /\ \A row \in DOMAIN table : row.source = "live" =>
          /\ \E t \in Tables, e \in 1 .. applied : row = RowOf(t, e)
          /\ table[row].edits = Cardinality(Matching(row, applied))
    /\ \A t \in Tables, u \in Tables, e \in 1 .. applied :
          RowOf(t, e) \in DOMAIN table => RowOf(u, e) \in DOMAIN table

\* A flush that commits finds no row that is half counted.
LEMMA CommitIsExact ==
    ASSUME AggInv, AggInv', Exact, FlushCommits
    PROVE  Exact'
<1>1. /\ applied' = applied + batch /\ applied \in Nat /\ batch \in Nat /\ clock' = clock
      /\ 1 .. applied + batch \subseteq Events /\ 1 .. applied \subseteq 1 .. applied + batch
      /\ \A e \in Events : e \in Nat /\ Log[e].hour \in Nat
  BY AppliedAreEvents DEF AggInv, FlushCommits
<1>2. UpsertOf(Written, table')
  BY CommitMeans DEF AggInv
<1>3. ASSUME NEW e \in Events, ~(e <= applied)
      PROVE  Fresh(e)
  BY <1>3 DEF AggInv, Counted
<1>4. ASSUME NEW row \in Written
      PROVE  \E t \in Tables, e \in 1 .. applied + batch : row = RowOf(t, e) /\ Fresh(e)
  <2>1. PICK t \in Tables, i \in 1 .. batch : row = RowOf(t, applied + i)
    BY DEF Written, Tables
  <2>2. applied + i \in 1 .. applied + batch /\ ~(applied + i <= applied)
    BY <1>1
  <2>3. Fresh(applied + i)
    BY <1>1, <1>3, <2>2
  <2> QED
    BY <2>1, <2>2, <2>3
<1>5. /\ \A t \in Tables : \A e \in 1 .. applied + batch : Fresh(e) => RowOf(t, e) \in DOMAIN table'
      /\ \A t \in Tables : \A e \in Events :
            Fresh(e) /\ RowOf(t, e) \in DOMAIN table' =>
              table'[RowOf(t, e)].edits = Cardinality(Matching(RowOf(t, e), applied + batch))
  BY <1>1 DEF AggInv, Counted, Fresh, Matching
<1>6. ASSUME NEW row \in DOMAIN table', row.source = "live"
      PROVE  /\ \E t \in Tables, e \in 1 .. applied + batch : row = RowOf(t, e)
             /\ table'[row].edits = Cardinality(Matching(row, applied + batch))
  <2>1. CASE row \in Written
    <3>1. PICK t \in Tables, e \in 1 .. applied + batch : row = RowOf(t, e) /\ Fresh(e)
      BY <1>4, <2>1
    <3> QED
      BY <1>1, <1>5, <1>6, <3>1
  <2>2. CASE row \notin Written
    <3>1. row \in DOMAIN table /\ table'[row] = table[row]
      BY <1>2, <1>6, <2>2 DEF UpsertOf
    <3>2. PICK t \in Tables, e \in 1 .. applied : row = RowOf(t, e)
      BY <1>6, <3>1 DEF Exact
    <3>3. table[row].edits = Cardinality(Matching(row, applied))
      BY <1>6, <3>1 DEF Exact
    <3>4. Matching(row, applied + batch) = Matching(row, applied)
      <4>1. ASSUME NEW d \in 1 .. applied + batch, RowOf(row.table, d) = row
            PROVE  d \in 1 .. applied
        <5> SUFFICES ASSUME ~(d <= applied) PROVE FALSE
          BY <1>1
        <5>1. d - applied \in 1 .. batch /\ applied + (d - applied) = d
          BY <1>1
        <5>2. row.table = t
          BY <3>2, RowFields
        <5>3. RowOf(t, applied + (d - applied)) \in Written
          BY <5>1 DEF Written, Tables
        <5> QED
          BY <2>2, <4>1, <5>1, <5>2, <5>3
      <4> QED
        BY <1>1, <4>1 DEF Matching
    <3> QED
      BY <1>1, <3>1, <3>2, <3>3, <3>4
  <2> QED
    BY <2>1, <2>2
<1>7. ASSUME NEW t \in Tables, NEW u \in Tables, NEW e \in 1 .. applied + batch,
             RowOf(t, e) \in DOMAIN table'
      PROVE  RowOf(u, e) \in DOMAIN table'
  <2>1. CASE Fresh(e)
    BY <1>5, <2>1
  <2>2. CASE ~Fresh(e)
    <3>1. e \in 1 .. applied
      BY <1>1, <1>3, <2>2
    <3>2. RowOf(t, e) \notin Written
      <4> SUFFICES ASSUME RowOf(t, e) \in Written PROVE FALSE
        OBVIOUS
      <4>1. PICK s \in Tables, d \in 1 .. applied + batch : RowOf(t, e) = RowOf(s, d) /\ Fresh(d)
        BY <1>4
      <4>2. Log[d].hour = Log[e].hour
        BY <4>1, RowFields
      <4> QED
        BY <2>2, <4>1, <4>2 DEF Fresh
    <3>3. RowOf(t, e) \in DOMAIN table
      BY <1>2, <1>7, <3>2 DEF UpsertOf
    <3>4. RowOf(u, e) \in DOMAIN table
      BY <3>1, <3>3 DEF Exact
    <3> QED
      BY <1>2, <3>4 DEF UpsertOf
  <2> QED
    BY <2>1, <2>2
<1> QED
  BY <1>1, <1>6, <1>7 DEF Exact, Matching

\* A step that only takes away rows, hour by hour or those of the demo data, or
\* changes no number of edits.
LEMMA ExactKept ==
    ASSUME Exact, applied' = applied,
           \A row \in DOMAIN table' : row.source = "live" =>
              row \in DOMAIN table /\ table'[row].edits = table[row].edits,
           \A t \in Tables, u \in Tables, e \in 1 .. applied :
              RowOf(t, e) \in DOMAIN table' /\ RowOf(u, e) \in DOMAIN table =>
                 RowOf(u, e) \in DOMAIN table'
    PROVE  Exact'
<1>1. ASSUME NEW row \in DOMAIN table', row.source = "live"
      PROVE  /\ \E t \in Tables, e \in 1 .. applied : row = RowOf(t, e)
             /\ table'[row].edits = Cardinality(Matching(row, applied))
  <2>1. row \in DOMAIN table /\ table'[row].edits = table[row].edits
    BY <1>1
  <2> QED
    BY <1>1, <2>1 DEF Exact
<1>2. ASSUME NEW t \in Tables, NEW u \in Tables, NEW e \in 1 .. applied,
             RowOf(t, e) \in DOMAIN table'
      PROVE  RowOf(u, e) \in DOMAIN table'
  <2>1. RowOf(t, e) \in DOMAIN table
    BY <1>2, RowFields
  <2>2. RowOf(u, e) \in DOMAIN table
    BY <2>1 DEF Exact
  <2> QED
    BY <1>2, <2>2
<1> QED
  BY <1>1, <1>2 DEF Exact, Matching

\* Every step keeps the rows exact.
LEMMA ExactStep ==
    ASSUME AggInv, AggInv', Exact, [Next]_vars
    PROVE  Exact'
<1>1. TypeInv
  BY DEF AggInv
<1>2. CASE CleanupAgg
  <2> DEFINE old == {row \in DOMAIN table : row.hour <= clock - Retention}
  <2>1. applied' = applied /\ table' = Kept(DOMAIN table \ old)
    BY <1>2 DEF CleanupAgg, flushVars
  <2>2. /\ DOMAIN table' = DOMAIN table \ old
        /\ \A row \in DOMAIN table \ old : table'[row] = table[row]
    BY <1>1, <2>1, KeptMeans
  <2>3. \A t \in Tables, u \in Tables, e \in 1 .. applied :
           RowOf(t, e) \in DOMAIN table \ old => RowOf(u, e) \notin old
    BY RowFields
  <2> HIDE DEF old
  <2> QED
    BY <2>1, <2>2, <2>3, ExactKept
<1>3. CASE Seed
  <2>1. applied' = applied
    BY <1>3 DEF Seed, flushVars
  <2>2. \A row \in DOMAIN table' : row.source # "live"
    BY <1>3, SeedMeans
  <2>3. \A t, e : RowOf(t, e) \notin DOMAIN table'
    BY <2>2, RowFields
  <2> QED
    BY <2>1, <2>2, <2>3, ExactKept
<1>4. CASE Unseed
  <2> DEFINE rest == {row \in DOMAIN table : row.source # "synthetic"}
  <2>1. applied' = applied /\ table' = Kept(rest)
    BY <1>4 DEF Unseed, flushVars
  <2>2. DOMAIN table' = rest /\ \A row \in rest : table'[row] = table[row]
    BY <1>1, <2>1, KeptMeans
  <2>3. \A t, e : RowOf(t, e) \in DOMAIN table => RowOf(t, e) \in rest
    BY RowFields
  <2>4. rest \subseteq DOMAIN table
    OBVIOUS
  <2> HIDE DEF rest
  <2> QED
    BY <2>1, <2>2, <2>3, <2>4, ExactKept
<1>5. CASE WriteCommits
  <2>1. applied' = applied
    BY <1>5 DEF WriteCommits, flushVars
  <2>2. /\ DOMAIN table' = DOMAIN table
        /\ \A row \in DOMAIN table : table'[row].edits = table[row].edits
    BY <1>1, <1>5, WriteMeans
  <2> QED
    BY <2>1, <2>2, ExactKept
<1>6. CASE HourPasses \/ Index \/ FlushStarts \/ UpsertRow \/ FlushFails \/ PassStarts
           \/ QueryHour \/ QueryFails \/ UpdateRow \/ WriteFails \/ UNCHANGED vars
  <2>1. applied' = applied /\ table' = table
    BY <1>6 DEF HourPasses, Index, FlushStarts, UpsertRow, FlushFails, PassStarts, QueryHour,
                QueryFails, UpdateRow, WriteFails, vars, flushVars
  <2> QED
    BY <2>1, ExactKept
<1> QED
  BY <1>2, <1>3, <1>4, <1>5, <1>6, CommitIsExact DEF Next

\* The counted events whose rows are still there; in a database that is exact,
\* it does not matter in which table one looks.
Remembered == {e \in 1 .. applied : RowOf("wiki", e) \in DOMAIN table}

AllLive == \A row \in DOMAIN table : row.source = "live"

\* The remembered events that belong to the rows of S.
EventsOf(t, S) == {e \in Remembered : RowOf(t, e) \in S}

\* The rows of a live database are those of the remembered events, each counts
\* its own, and any of them together count all of theirs.
LEMMA RowsAreCounted ==
    ASSUME TypeInv, Exact, AllLive, NEW t \in Tables
    PROVE  /\ IsFiniteSet(RowsIn(t)) /\ IsFiniteSet(Remembered)
           /\ \A e \in Remembered : RowOf(t, e) \in RowsIn(t)
           /\ \A row \in RowsIn(t) : \E e \in Remembered : row = RowOf(t, e)
           /\ \A row \in RowsIn(t) : table[row].edits = Cardinality(EventsOf(t, {row}))
           /\ \A S \in SUBSET RowsIn(t) : SumEdits(S) = Cardinality(EventsOf(t, S))
<1> DEFINE g == [e \in 1 .. applied |-> RowOf(t, e)]
<1>1. IsFiniteSet(1 .. applied)
  <2>1. applied \in Nat
    BY DEF TypeInv
  <2> QED
    BY <2>1, UpToIsFinite
<1>2. ASSUME NEW row \in RowsIn(t)
      PROVE  /\ table[row].edits = Cardinality(Hits(1 .. applied, g, {row}))
             /\ \E e \in 1 .. applied : row = g[e]
  <2>1. row \in DOMAIN table /\ row.table = t /\ row.source = "live"
    BY DEF RowsIn, AllLive
  <2>2. Hits(1 .. applied, g, {row}) = Matching(row, applied)
    BY <2>1 DEF Hits, Matching
  <2>3. table[row].edits = Cardinality(Matching(row, applied))
    BY <2>1 DEF Exact
  <2>4. PICK u \in Tables, e \in 1 .. applied : row = RowOf(u, e)
    BY <2>1 DEF Exact
  <2>5. u = t
    BY <2>1, <2>4, RowFields
  <2> QED
    BY <2>2, <2>3, <2>4, <2>5
<1>3. RowsIn(t) \subseteq {g[e] : e \in 1 .. applied}
  BY <1>2
<1>4. IsFiniteSet(RowsIn(t))
  <2>1. g \in Surjection(1 .. applied, {g[e] : e \in 1 .. applied})
    BY DEF Surjection
  <2> HIDE DEF g
  <2>2. IsFiniteSet({g[e] : e \in 1 .. applied})
    BY <1>1, <2>1, FS_Surjection
  <2> QED
    BY <1>3, <2>2, FS_Subset
<1>5. \A e \in 1 .. applied : e \in Remembered <=> RowOf(t, e) \in RowsIn(t)
  <2>1. \A e : RowOf(t, e).table = t
    BY RowFields
  <2> QED
    BY <2>1 DEF Exact, Remembered, RowsIn, Tables
<1>6. Remembered \subseteq 1 .. applied /\ IsFiniteSet(Remembered)
  BY <1>1, FS_Subset DEF Remembered
<1>7. \A S \in SUBSET RowsIn(t) : Hits(1 .. applied, g, S) = EventsOf(t, S)
  BY <1>5, <1>6 DEF Hits, EventsOf
<1>8. \A row \in RowsIn(t) : table[row].edits = Cardinality(EventsOf(t, {row}))
  BY <1>2, <1>7
<1>9. ASSUME NEW S \in SUBSET RowsIn(t)
      PROVE  SumEdits(S) = Cardinality(EventsOf(t, S))
  <2>1. IsFiniteSet(S)
    BY <1>4, FS_Subset
  <2>2. \A row \in S : table[row].edits = Cardinality(Hits(1 .. applied, g, {row}))
    BY <1>2
  <2> HIDE DEF g
  <2>3. SumEdits(S) = Cardinality(Hits(1 .. applied, g, S))
    BY <1>1, <2>1, <2>2, EditsAreCounted
  <2> QED
    BY <1>7, <2>3
<1>10. \A row \in RowsIn(t) : \E e \in Remembered : row = RowOf(t, e)
  BY <1>2, <1>5
<1> QED
  BY <1>4, <1>5, <1>6, <1>8, <1>9, <1>10

\* All hours together count every remembered event.
LEMMA AllAreCounted ==
    ASSUME TypeInv, Exact, AllLive
    PROVE  /\ SumEdits(RowsIn("wiki")) = Cardinality(Remembered)
           /\ Cardinality(Remembered) \in Nat
<1>1. "wiki" \in Tables
  BY DEF Tables
<1>2. /\ IsFiniteSet(Remembered)
      /\ \A e \in Remembered : RowOf("wiki", e) \in RowsIn("wiki")
      /\ \A S \in SUBSET RowsIn("wiki") : SumEdits(S) = Cardinality(EventsOf("wiki", S))
  BY <1>1, RowsAreCounted
<1>3. EventsOf("wiki", RowsIn("wiki")) = Remembered
  BY <1>2 DEF EventsOf
<1> QED
  BY <1>2, <1>3, FS_CardinalityType

\* A list of the most active counts each event of a group it names once, so it
\* has no more than all; when it is shorter than its limit it names every group.
LEMMA TopAddsUp ==
    ASSUME TypeInv, Exact, AllLive, NEW t \in Tables, NEW group, NEW limit \in Limits
    PROVE  AddUp(Top(t, group, limit), limit)
<1> DEFINE groups == {group[row] : row \in RowsIn(t)}
           edits == [x \in groups |-> SumEdits({row \in RowsIn(t) : group[row] = x})]
           h == [e \in Remembered |-> group[RowOf(t, e)]]
<1>1. /\ IsFiniteSet(RowsIn(t)) /\ IsFiniteSet(Remembered)
      /\ \A e \in Remembered : RowOf(t, e) \in RowsIn(t)
      /\ \A S \in SUBSET RowsIn(t) : SumEdits(S) = Cardinality(EventsOf(t, S))
  BY RowsAreCounted
<1>2. IsFiniteSet(groups)
  <2> DEFINE g == [row \in RowsIn(t) |-> group[row]]
  <2>1. g \in Surjection(RowsIn(t), groups)
    BY DEF Surjection
  <2> HIDE DEF g, groups
  <2> QED
    BY <1>1, <2>1, FS_Surjection
<1>3. ASSUME NEW x \in groups
      PROVE  edits[x] = Cardinality(Hits(Remembered, h, {x}))
  <2> DEFINE rows == {row \in RowsIn(t) : group[row] = x}
  <2>1. EventsOf(t, rows) = Hits(Remembered, h, {x})
    BY <1>1 DEF EventsOf, Hits
  <2>2. edits[x] = SumEdits(rows) /\ rows \in SUBSET RowsIn(t)
    OBVIOUS
  <2> HIDE DEF rows, edits, h
  <2> QED
    BY <1>1, <2>1, <2>2
<1>4. Hits(Remembered, h, groups) = Remembered
  BY <1>1 DEF Hits
<1>5. /\ SumEdits(RowsIn("wiki")) = Cardinality(Remembered)
      /\ Cardinality(Remembered) \in Nat
  BY AllAreCounted
<1>6. ASSUME NEW answer \in Top(t, group, limit)
      PROVE  /\ Total(answer) <= SumEdits(RowsIn("wiki"))
             /\ Cardinality(DOMAIN answer) < limit => Total(answer) = SumEdits(RowsIn("wiki"))
  <2>1. PICK S \in kSubset(Min({limit, Cardinality(groups)}), groups) :
            answer = [x \in S |-> edits[x]]
    BY <1>6 DEF Top
  <2>2. S \subseteq groups /\ Cardinality(S) = Min({limit, Cardinality(groups)})
    BY <2>1 DEF kSubset
  <2>3. DOMAIN answer = S /\ \A x \in S : answer[x] = Cardinality(Hits(Remembered, h, {x}))
    BY <1>3, <2>1, <2>2
  <2>4. IsFiniteSet(S)
    BY <1>2, <2>2, FS_Subset
  <2> HIDE DEF groups, edits, h
  <2>5. CountsHits(answer, Remembered, h)
    BY <2>3, <2>4 DEF CountsHits
  <2>6. Total(answer) = Cardinality(Hits(Remembered, h, S))
    BY <1>1, <2>3, <2>5, TotalIsCounted
  <2>7. Total(answer) <= Cardinality(Remembered)
    <3>1. Hits(Remembered, h, S) \subseteq Remembered
      BY DEF Hits
    <3>2. Cardinality(Hits(Remembered, h, S)) <= Cardinality(Remembered)
      BY <1>1, <3>1, FS_Subset
    <3> QED
      BY <2>6, <3>2
  <2>8. ASSUME Cardinality(S) < limit
        PROVE  S = groups
    <3>1. PICK n \in Nat : n = Cardinality(groups)
      BY <1>2, FS_CardinalityType
    <3>2. Cardinality(S) = n
      <4>1. limit \in Nat
        OBVIOUS
      <4>2. Min({limit, n}) = limit \/ Min({limit, n}) = n
        BY <3>1, <4>1, MinOfTwo
      <4> QED
        BY <2>2, <2>8, <3>1, <4>1, <4>2
    <3> QED
      BY <1>2, <2>2, <3>1, <3>2, FS_Subset
  <2>9. ASSUME Cardinality(DOMAIN answer) < limit
        PROVE  Total(answer) = SumEdits(RowsIn("wiki"))
    <3>1. S = groups
      BY <2>3, <2>8, <2>9
    <3> QED
      BY <1>4, <1>5, <2>6, <3>1
  <2> QED
    BY <1>5, <2>7, <2>9
<1> QED
  BY <1>6 DEF AddUp

\* The hours a time series shows have as many edits in every other table.
LEMMA SeriesAgrees ==
    ASSUME TypeInv, Exact, AllLive, NEW limit \in Limits,
           NEW answer \in Timeseries(limit), NEW t \in Tables
    PROVE  Total(answer) =
              SumEdits({row \in RowsIn(t) : row.hour \in {r.hour : r \in DOMAIN answer}})
<1> DEFINE g == [e \in Remembered |-> RowOf("wiki", e)]
           hours == {r.hour : r \in DOMAIN answer}
           rows == {row \in RowsIn(t) : row.hour \in hours}
<1>1. "wiki" \in Tables
  BY DEF Tables
<1>2. /\ IsFiniteSet(RowsIn("wiki")) /\ IsFiniteSet(Remembered)
      /\ \A row \in RowsIn("wiki") : \E e \in Remembered : row = RowOf("wiki", e)
      /\ \A row \in RowsIn("wiki") : table[row].edits = Cardinality(EventsOf("wiki", {row}))
  BY <1>1, RowsAreCounted
<1>3. /\ \A e \in Remembered : RowOf(t, e) \in RowsIn(t)
      /\ \A S \in SUBSET RowsIn(t) : SumEdits(S) = Cardinality(EventsOf(t, S))
  BY RowsAreCounted
<1>4. PICK S \in SUBSET RowsIn("wiki") : answer = [row \in S |-> table[row].edits]
  BY DEF Timeseries, kSubset
<1>5. DOMAIN answer = S /\ \A row \in S : answer[row] = table[row].edits
  BY <1>4
<1>6. IsFiniteSet(S)
  BY <1>2, FS_Subset
<1>7. \A row : Hits(Remembered, g, {row}) = EventsOf("wiki", {row})
  BY DEF Hits, EventsOf
<1>8. CountsHits(answer, Remembered, g)
  <2> HIDE DEF g
  <2> QED
    BY <1>2, <1>5, <1>6, <1>7 DEF CountsHits
<1>9. Total(answer) = Cardinality(Hits(Remembered, g, S))
  <2> HIDE DEF g
  <2> QED
    BY <1>2, <1>5, <1>8, TotalIsCounted
<1>10. ASSUME NEW e \in Remembered
       PROVE  RowOf("wiki", e) \in S <=> Log[e].hour \in hours
  <2>1. RowOf("wiki", e) \in S => Log[e].hour \in hours
    BY <1>5, RowFields
  <2>2. ASSUME Log[e].hour \in hours
        PROVE  RowOf("wiki", e) \in S
    <3>1. PICK row \in S : row.hour = Log[e].hour
      BY <1>5, <2>2
    <3>2. PICK d \in Remembered : row = RowOf("wiki", d)
      BY <1>2
    <3>3. Log[d].hour = Log[e].hour
      BY <3>1, <3>2, RowFields
    <3>4. RowOf("wiki", e) = RowOf("wiki", d)
      BY <3>3, RowFields
    <3> QED
      BY <3>2, <3>4
  <2> QED
    BY <2>1, <2>2
<1>11. \A e \in Remembered : RowOf(t, e) \in rows <=> Log[e].hour \in hours
  <2> HIDE DEF hours
  <2> QED
    BY <1>3, RowFields
<1>12. Hits(Remembered, g, S) = EventsOf(t, rows)
  <2> HIDE DEF rows, hours
  <2> QED
    BY <1>10, <1>11 DEF Hits, EventsOf
<1>13. SumEdits(rows) = Cardinality(EventsOf(t, rows))
  BY <1>3
<1> QED
  BY <1>9, <1>12, <1>13

\* An exact database answers every query alike.
LEMMA ExactAgrees ==
    ASSUME TypeInv, Exact
    PROVE  DashboardAgrees
<1> SUFFICES ASSUME AllLive, NEW limit \in Limits
             PROVE  /\ \A answer \in Timeseries(limit), t \in {"lang", "page", "user"} :
                          Total(answer) = SumEdits({row \in RowsIn(t) :
                                                      row.hour \in {r.hour : r \in DOMAIN answer}})
                    /\ AddUp(TopLanguages(limit), limit)
                    /\ AddUp(TopPages(limit), limit)
                    /\ AddUp(TopUsers(limit), limit)
  BY DEF DashboardAgrees, AllLive
<1>1. {"lang", "page", "user"} \subseteq Tables
  BY DEF Tables
<1>2. AddUp(TopLanguages(limit), limit)
  BY <1>1, TopAddsUp DEF TopLanguages
<1>3. AddUp(TopPages(limit), limit)
  BY <1>1, TopAddsUp DEF TopPages
<1>4. AddUp(TopUsers(limit), limit)
  <2>1. ASSUME NEW bots \in SUBSET RowsIn("user")
        PROVE  AddUp(Top("user", [row \in RowsIn("user") |-> <<row.key, row \in bots>>], limit),
                     limit)
    BY <1>1, TopAddsUp
  <2> QED
    BY <2>1 DEF TopUsers, AddUp
<1> QED
  BY <1>1, <1>2, <1>3, <1>4, SeriesAgrees

-------------------------------------------------------------------------------
(* The theorems.                                                           *)

\* The invariant holds at first,
LEMMA AggInit == Init => AggInv
<1> SUFFICES ASSUME Init PROVE AggInv
  OBVIOUS
<1>1. /\ clock = 0 /\ since = 0 /\ back = Lookback /\ applied = 0 /\ batch = 0 /\ shown = 0
      /\ flushing = FALSE /\ writing = FALSE /\ failures = 0
      /\ DOMAIN table = {} /\ table = [row \in {} |-> 0]
      /\ DOMAIN users = {} /\ users = [row \in {} |-> 0]
      /\ upserts = <<>> /\ updates = <<>>
      /\ held = [who \in {"analytics", "reconcile"} |-> held[who]]
      /\ held["analytics"] = {} /\ held["reconcile"] = {}
  BY DEF Init
<1>2. /\ <<>> \in Seq(LiveRows) /\ <<>> \in Seq({}) /\ DOMAIN <<>> = {}
      /\ Len(Log) \in Nat /\ Lookback \in Nat \ {0}
      /\ \A e \in Events : Log[e].hour \in Nat
  BY LogFacts
<1>3. TypeInv
  <2>1. table \in [DOMAIN table -> [edits : Nat, users : Nat]] /\ users \in [DOMAIN users -> Nat]
    BY <1>1
  <2>2. back \in 0 .. Lookback /\ applied + batch <= Len(Log) /\ shown <= Len(Log)
    BY <1>1, <1>2
  <2> QED
    BY <1>1, <1>2, <2>1, <2>2 DEF TypeInv
<1>4. NothingOpen
  BY <1>1 DEF NothingOpen
<1>5. Counted
  BY <1>1, <1>2 DEF Counted, Fresh
<1>6. Known /\ GateFirst
  BY <1>1, <1>2 DEF Known, GateFirst
<1> QED
  BY <1>3, <1>4, <1>5, <1>6 DEF AggInv

\* and every step keeps it.
LEMMA AggStep == AggInv /\ [Next]_vars => AggInv'
  BY TypeStep, CountedStep, KnownStep, GateStep DEF AggInv

\* No lost update: every row within the retention counts exactly the applied
\* events of its key (repositories/aggregates.py:41-165), whatever the
\* reconciliation, the cleanup and the demo data do to the tables.
THEOREM EveryEditCountedHolds == Spec => []EveryEditCounted
<1>1. AggInv => EveryEditCounted
  <2> SUFFICES ASSUME AggInv, NEW t \in Tables, NEW e \in 1 .. applied,
                      Log[e].hour > clock - Retention
               PROVE  /\ RowOf(t, e) \in DOMAIN table
                      /\ table[RowOf(t, e)].edits =
                           Cardinality({f \in 1 .. applied : RowOf(t, f) = RowOf(t, e)})
    BY DEF EveryEditCounted, Tables
  <2>1. e \in Events
    BY AppliedAreEvents DEF AggInv
  <2>2. Matching(RowOf(t, e), applied) = {f \in 1 .. applied : RowOf(t, f) = RowOf(t, e)}
    BY RowFields DEF Matching
  <2> QED
    BY <2>1, <2>2 DEF AggInv, Counted, Fresh
<1> QED
  BY <1>1, AggInit, AggStep, PTL DEF Spec

\* Once the reconciliation holds the row of its hour, the flush and it do not
\* block each other (aggregates.py:94-137, reconcile_live.py:60-76).
THEOREM WikiRowIsTheGateHolds == Spec => []WikiRowIsTheGate
<1>1. AggInv => WikiRowIsTheGate
  <2> SUFFICES ASSUME AggInv, CircularWait, Gate(Hour) \in held["reconcile"]
               PROVE  FALSE
    BY DEF WikiRowIsTheGate, Gate
  <2>1. updates \in Seq(DOMAIN users) /\ updates # <<>> /\ Head(updates) \in held["analytics"]
    BY DEF AggInv, TypeInv, CircularWait
  <2>2. 1 \in DOMAIN updates /\ Head(updates) = updates[1]
    BY <2>1
  <2>3. updates[1].table = "lang" /\ updates[1].hour = Hour
    BY <2>2 DEF AggInv, GateFirst
  <2>4. Gate(Hour) \in held["analytics"]
    BY <2>1, <2>2, <2>3 DEF AggInv, GateFirst
  <2> QED
    BY <2>4 DEF AggInv, GateFirst
<1> QED
  BY <1>1, AggInit, AggStep, PTL DEF Spec

\* A row's distinct count never goes back: the upserts leave it alone, and what
\* a reconciliation writes is at least what is there
\* (aggregates.py:8-12, reconcile_live.py:60-95).
THEOREM DistinctNeverShrinksHolds == Spec => DistinctNeverShrinks
<1> DEFINE Keeps == \A row \in DOMAIN table \intersect DOMAIN table' :
                        row.source = "live" => table'[row].users >= table[row].users
<1>1. AggInv /\ [Next]_vars => [Keeps]_table
  <2> SUFFICES ASSUME AggInv, [Next]_vars, table' # table PROVE Keeps
    OBVIOUS
  <2>1. TypeInv /\ Known /\ \A row \in DOMAIN table : table[row].users \in Nat
    BY DEF AggInv, TypeInv
  <2>2. CASE WriteCommits
    <3> SUFFICES ASSUME NEW row \in DOMAIN table PROVE table'[row].users >= table[row].users
      OBVIOUS
    <3>1. CASE row \in held["reconcile"]
      <4>1. table'[row].users = users[row] /\ row \in DOMAIN users
        BY <2>1, <2>2, <3>1, WriteMeans DEF TypeInv
      <4>2. table[row].users <= users[row] /\ users[row] \in Nat
        BY <2>1, <4>1 DEF Known, TypeInv
      <4> QED
        BY <2>1, <4>1, <4>2
    <3>2. CASE row \notin held["reconcile"]
      <4>1. table'[row].users = table[row].users
        BY <2>1, <2>2, <3>2, WriteMeans
      <4> QED
        BY <2>1, <4>1
    <3> QED
      BY <3>1, <3>2
  <2>3. CASE FlushCommits
    <3> SUFFICES ASSUME NEW row \in DOMAIN table PROVE table'[row].users = table[row].users
      BY <2>1
    <3>1. UpsertOf(Written, table')
      BY <2>1, <2>3, CommitMeans
    <3> QED
      BY <3>1 DEF UpsertOf, Old
  <2>4. CASE CleanupAgg \/ Unseed
    <3>1. \A row \in DOMAIN table' : table'[row] = table[row]
      BY <2>1, <2>4, KeptMeans DEF CleanupAgg, Unseed
    <3> QED
      BY <2>1, <3>1
  <2>5. CASE Seed
    BY <2>5, SeedMeans
  <2> QED
    BY <2>2, <2>3, <2>4, <2>5 DEF Next, HourPasses, Index, FlushStarts, UpsertRow,
       FlushFails, PassStarts, QueryHour, QueryFails, UpdateRow, WriteFails, vars
<1> QED
  BY <1>1, AggInit, AggStep, PTL DEF Spec, DistinctNeverShrinks

\* The four tables tell the same story at every moment a query may come
\* (main.py and api/analytics.py read what repositories/aggregates.py wrote in
\* one transaction), whatever the queries are cut to: the hours shown agree with
\* the other tables, and the lists of the most active with all hours together,
\* whatever failed and whatever expired.
THEOREM DashboardAgreesHolds == Spec => []DashboardAgrees
<1>1. Init => AggInv /\ Exact
  <2> SUFFICES ASSUME Init PROVE AggInv /\ Exact
    OBVIOUS
  <2>1. DOMAIN table = {}
    BY DEF Init
  <2> QED
    BY <2>1, AggInit DEF Exact
<1>2. (AggInv /\ Exact) /\ [Next]_vars => (AggInv /\ Exact)'
  BY AggStep, ExactStep
<1>3. AggInv /\ Exact => DashboardAgrees
  BY ExactAgrees DEF AggInv
<1> QED
  BY <1>1, <1>2, <1>3, PTL DEF Spec
===============================================================================
