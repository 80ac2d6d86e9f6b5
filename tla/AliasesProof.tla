----------------------------- MODULE AliasesProof -----------------------------
(***************************************************************************)
(* Proofs about Aliases, for any number of hours, any retention of at      *)
(* least two hours and any number of faults.                               *)
(***************************************************************************)
EXTENDS Aliases, FiniteSetTheorems, TLAPS

USE RetentionAssumption, FaultAssumption

Label == {"idle", "create", "getwrite", "bindwrite", "getread", "bindread", "bulk",
          "unalias", "delete", "list", "retain"}

\* A pass of ensure_current_hour_index that has bound the write alias, or found
\* it bound, and has not seen to the read alias yet.
Binding == {"getread", "bindread"}

-------------------------------------------------------------------------------
(* The invariant.                                                          *)

TypeInv ==
    /\ hour \in Nat
    /\ exist \subseteq Nat /\ write \subseteq exist /\ flagged \subseteq write
    /\ read \subseteq Nat /\ written \subseteq Nat
    /\ stray \in BOOLEAN
    /\ pc \in [Programs -> Label]
    /\ seen \in [Programs -> Nat \union {NoHour}]
    /\ cur \in [Programs -> SUBSET Nat]
    /\ retained \subseteq Nat
    /\ faults \in Nat

\* A pass read the clock at most an hour ago.
PassesAreFresh ==
    \A a \in Programs : pc[a] # "idle" =>
        seen[a] \in Nat /\ seen[a] <= hour /\ hour <= seen[a] + 1

\* What the cleanup means to delete had expired when it read the clock.
CleanupIsLate == \A h \in cur["cleanup"] : pc["cleanup"] # "idle" /\ Expired(h, seen["cleanup"])

\* The index a pass of ensure_current_hour_index is about is there.
IndexIsThere ==
    \A a \in Ensurers :
        pc[a] \in {"getwrite", "bindwrite"} \union Binding => seen[a] \in exist

\* One index of the write alias at most is not its write index, and one at most
\* is; while init_elasticsearch holds its list of the others, those it does not
\* know of are.
OneToWriteTo ==
    /\ \A x, y \in flagged : x = y
    /\ \A x, y \in write \ flagged : x = y
    /\ pc["init"] = "bindwrite" => write \ retained \subseteq flagged

\* Since the indexer's pass bound the write alias, it covers an index that the
\* cleanup is not going to delete.
WriteIsRecent ==
    pc["indexer"] \in Binding \union {"bulk"} =>
        \E h \in write : h + 1 >= seen["indexer"]

AliasInv ==
    /\ TypeInv /\ PassesAreFresh /\ CleanupIsLate /\ IndexIsThere
    /\ OneToWriteTo /\ WriteIsRecent /\ ~stray

\* Without a fault: no init_elasticsearch, one index under the write alias, and
\* whatever is under it or was written to is under the read alias, or a pass is
\* about to put it there.
Bound(h) == \E a \in Ensurers : seen[a] = h /\ pc[a] \in Binding

Searchable ==
    /\ pc["init"] = "idle"
    /\ write = flagged
    /\ \A h \in written : h >= hour - Retention
    /\ \A h \in write \union written : h >= hour - Retention => h \in read \/ Bound(h)

FaultlessInv == faults = 0 => Searchable

-------------------------------------------------------------------------------
(* Programs and what they do to the cluster.                               *)

\* A program is at l, with h and S; the others are where they were.
LEMMA AtMeans ==
    ASSUME TypeInv, NEW a \in Programs, NEW l \in Label, NEW h \in Nat \union {NoHour},
           NEW S \in SUBSET Nat, At(a, l, h, S)
    PROVE  /\ pc' \in [Programs -> Label]
           /\ seen' \in [Programs -> Nat \union {NoHour}]
           /\ cur' \in [Programs -> SUBSET Nat]
           /\ pc'[a] = l /\ seen'[a] = h /\ cur'[a] = S
           /\ \A b \in Programs : b # a =>
                 pc'[b] = pc[b] /\ seen'[b] = seen[b] /\ cur'[b] = cur[b]
  BY DEF At, TypeInv

\* The names of the programs are different.
LEMMA ProgramNames ==
    /\ Programs = {"indexer", "scheduler", "cleanup", "init"}
    /\ Ensurers = {"indexer", "scheduler"} /\ Ensurers \subseteq Programs
  BY DEF Programs, Ensurers

\* What a step may do that leaves the write alias alone and deletes nothing.
QuietStep(a, l, h, S) ==
    /\ At(a, l, h, S)
    /\ UNCHANGED <<hour, write, flagged, stray>>
    /\ exist \subseteq exist' /\ exist' \subseteq Nat
    /\ read' \subseteq Nat /\ written' \subseteq Nat /\ retained' \subseteq Nat
    /\ faults' \in Nat
    /\ l = "idle" \/ h = hour \/ (pc[a] # "idle" /\ h = seen[a])
    /\ a = "cleanup" => \A x \in S : l # "idle" /\ Expired(x, h)
    /\ a \in Ensurers /\ l \in {"getwrite", "bindwrite"} \union Binding => h \in exist'
    /\ a = "indexer" /\ l \in Binding \union {"bulk"} =>
          h \in write \/ (pc[a] \in Binding /\ h = seen[a])
    /\ a # "init" => retained' = retained
    /\ a = "init" /\ l = "bindwrite" => write \ retained' \subseteq flagged

\* Such a step keeps the invariant.
LEMMA QuietKeeps ==
    ASSUME AliasInv, NEW a \in Programs, NEW l \in Label, NEW h \in Nat \union {NoHour},
           NEW S \in SUBSET Nat, QuietStep(a, l, h, S)
    PROVE  AliasInv'
<1> USE DEF QuietStep
<1>1. TypeInv /\ PassesAreFresh /\ CleanupIsLate /\ IndexIsThere /\ OneToWriteTo
      /\ WriteIsRecent /\ ~stray
  BY DEF AliasInv
<1>2. /\ pc' \in [Programs -> Label]
      /\ seen' \in [Programs -> Nat \union {NoHour}]
      /\ cur' \in [Programs -> SUBSET Nat]
      /\ pc'[a] = l /\ seen'[a] = h /\ cur'[a] = S
      /\ \A b \in Programs : b # a =>
            pc'[b] = pc[b] /\ seen'[b] = seen[b] /\ cur'[b] = cur[b]
  BY <1>1, AtMeans
<1>3. TypeInv'
  BY <1>1, <1>2 DEF TypeInv
<1>4. PassesAreFresh'
  <2>1. hour \in Nat
    BY <1>1 DEF TypeInv
  <2> QED
    BY <1>1, <1>2, <2>1 DEF PassesAreFresh
<1>5. CleanupIsLate'
  <2>1. CASE a = "cleanup"
    BY <1>2, <2>1 DEF CleanupIsLate
  <2>2. CASE a # "cleanup"
    BY <1>1, <1>2, <2>2, ProgramNames DEF CleanupIsLate
  <2> QED
    BY <2>1, <2>2
<1>6. IndexIsThere'
  BY <1>1, <1>2, ProgramNames DEF IndexIsThere
<1>7. OneToWriteTo'
  <2>1. CASE a = "init"
    BY <1>1, <1>2, <2>1 DEF OneToWriteTo
  <2>2. CASE a # "init"
    BY <1>1, <1>2, <2>2, ProgramNames DEF OneToWriteTo
  <2> QED
    BY <2>1, <2>2
<1>8. WriteIsRecent'
  <2>1. CASE a = "indexer"
    <3>1. ASSUME h \in write PROVE WriteIsRecent'
      <4>1. h \in Nat
        BY <1>1, <3>1 DEF TypeInv
      <4> QED
        BY <1>2, <2>1, <3>1, <4>1 DEF WriteIsRecent
    <3>2. ASSUME pc[a] \in Binding, h = seen[a] PROVE WriteIsRecent'
      BY <1>1, <1>2, <2>1, <3>2 DEF WriteIsRecent
    <3>3. ASSUME l \notin Binding \union {"bulk"} PROVE WriteIsRecent'
      BY <1>2, <2>1, <3>3 DEF WriteIsRecent
    <3> QED
      BY <2>1, <3>1, <3>2, <3>3
  <2>2. CASE a # "indexer"
    BY <1>1, <1>2, <2>2, ProgramNames DEF WriteIsRecent
  <2> QED
    BY <2>1, <2>2
<1> QED
  BY <1>1, <1>3, <1>4, <1>5, <1>6, <1>7, <1>8 DEF AliasInv

\* A request that rebinds the write alias leaves one index to write to.
LEMMA RebindLeavesOne ==
    ASSUME TypeInv, OneToWriteTo, NEW R \in SUBSET Nat, NEW h \in Nat, NEW f \in BOOLEAN,
           Accepted(R, h, f), Rebind(R, h, f),
           ~f => write \ R \subseteq flagged
    PROVE  /\ h \in write' /\ write' \subseteq exist /\ flagged' \subseteq write'
           /\ \A x, y \in flagged' : x = y
           /\ \A x, y \in write' \ flagged' : x = y
           /\ f => /\ flagged' = {h}
                   /\ \A T : write \ T \subseteq flagged => write' \ T \subseteq flagged'
<1>1. /\ write' = (write \ R) \union {h}
      /\ flagged' = (flagged \ (R \union {h})) \union (IF f THEN {h} ELSE {})
      /\ R \union {h} \subseteq exist /\ Cardinality(flagged') <= 1
  BY DEF Accepted, Rebind, WriteAfter, FlaggedAfter
<1>2. write \subseteq exist /\ flagged \subseteq write
  BY DEF TypeInv
<1>3. \A x, y \in flagged : x = y
  BY DEF OneToWriteTo
<1>4. IsFiniteSet(flagged')
  <2>1. IsFiniteSet(flagged)
    <3>1. CASE flagged = {}
      BY <3>1, FS_EmptySet
    <3>2. CASE flagged # {}
      <4>1. PICK x : flagged = {x}
        BY <1>3, <3>2
      <4> QED
        BY <4>1, FS_Singleton
    <3> QED
      BY <3>1, <3>2
  <2>2. IsFiniteSet(flagged \union {h})
    BY <2>1, FS_AddElement
  <2>3. flagged' \subseteq flagged \union {h}
    BY <1>1
  <2> QED
    BY <2>2, <2>3, FS_Subset
<1>5. \A x, y \in flagged' : x = y
  <2>1. Cardinality(flagged') \in {0, 1}
    BY <1>1, <1>4, FS_CardinalityType
  <2>2. CASE Cardinality(flagged') = 0
    BY <1>4, <2>2, FS_EmptySet
  <2>3. CASE Cardinality(flagged') = 1
    <3>1. PICK x : flagged' = {x}
      BY <1>4, <2>3, FS_Singleton
    <3> QED
      BY <3>1
  <2> QED
    BY <2>1, <2>2, <2>3
<1>6. flagged' \subseteq write' /\ write' \subseteq exist /\ h \in write'
  BY <1>1, <1>2
<1>7. CASE f
  <2>1. flagged' = {h} /\ flagged \subseteq R \union {h}
    BY <1>1, <1>5, <1>7
  <2>2. write' \ flagged' \subseteq write \ flagged
    BY <1>1, <2>1
  <2>3. \A T : write \ T \subseteq flagged => write' \ T \subseteq flagged'
    BY <1>1, <2>1
  <2>4. \A x, y \in write' \ flagged' : x = y
    BY <2>2 DEF OneToWriteTo
  <2> QED
    BY <1>5, <1>6, <2>1, <2>3, <2>4
<1>8. CASE ~f
  <2>1. write' \ flagged' \subseteq {h}
    BY <1>1, <1>8
  <2> QED
    BY <1>5, <1>6, <1>8, <2>1
<1> QED
  BY <1>7, <1>8

\* The program a rebinds the write alias to the index of its hour.
LEMMA RebindKeeps ==
    ASSUME AliasInv, NEW a \in Programs, NEW f \in BOOLEAN, NEW R \in SUBSET Nat,
           NEW l \in {"getread", "retain"}, NEW S \in SUBSET Nat,
           pc[a] = "bindwrite", Accepted(R, seen[a], f), Rebind(R, seen[a], f),
           At(a, l, seen[a], S),
           f => a \in Ensurers /\ retained' = retained,
           ~f => a = "init" /\ R = retained /\ retained' = {},
           UNCHANGED <<hour, exist, read, stray, written, faults>>
    PROVE  AliasInv' /\ seen[a] \in write' /\ (f => flagged' = {seen[a]})
<1>1. TypeInv /\ PassesAreFresh /\ CleanupIsLate /\ IndexIsThere /\ OneToWriteTo
      /\ WriteIsRecent /\ ~stray
  BY DEF AliasInv
<1>3. /\ seen[a] \in Nat /\ hour <= seen[a] + 1 /\ a \in {"indexer", "scheduler", "init"}
  BY <1>1, ProgramNames DEF PassesAreFresh
<1>4. ~f => write \ R \subseteq flagged
  BY <1>1 DEF OneToWriteTo
<1>5. /\ seen[a] \in write' /\ write' \subseteq exist /\ flagged' \subseteq write'
      /\ \A x, y \in flagged' : x = y
      /\ \A x, y \in write' \ flagged' : x = y
      /\ f => /\ flagged' = {seen[a]}
              /\ \A T : write \ T \subseteq flagged => write' \ T \subseteq flagged'
  BY <1>1, <1>3, <1>4, RebindLeavesOne
<1>6. /\ pc' \in [Programs -> Label]
      /\ seen' \in [Programs -> Nat \union {NoHour}]
      /\ cur' \in [Programs -> SUBSET Nat]
      /\ pc'[a] = l /\ seen'[a] = seen[a] /\ cur'[a] = S
      /\ \A b \in Programs : b # a =>
            pc'[b] = pc[b] /\ seen'[b] = seen[b] /\ cur'[b] = cur[b]
  BY <1>1, <1>3, AtMeans DEF Label
<1>7. TypeInv'
  <2>1. retained' \subseteq Nat
    BY <1>1 DEF TypeInv
  <2> QED
    BY <1>1, <1>5, <1>6, <2>1 DEF TypeInv
<1>8. PassesAreFresh' /\ CleanupIsLate'
  BY <1>1, <1>3, <1>6, ProgramNames DEF PassesAreFresh, CleanupIsLate
<1>9. IndexIsThere'
  BY <1>1, <1>6, ProgramNames DEF IndexIsThere
<1>10. OneToWriteTo'
  <2>1. CASE f
    <3>1. retained' = retained /\ pc'["init"] = pc["init"]
      BY <1>6, <2>1, ProgramNames
    <3> QED
      BY <1>1, <1>5, <2>1, <3>1 DEF OneToWriteTo
  <2>2. CASE ~f
    <3>1. pc'["init"] # "bindwrite"
      BY <1>6, <2>2
    <3> QED
      BY <1>5, <3>1 DEF OneToWriteTo
  <2> QED
    BY <2>1, <2>2
<1>11. WriteIsRecent'
  <2>1. CASE a = "indexer"
    BY <1>3, <1>5, <1>6, <2>1 DEF WriteIsRecent
  <2>2. CASE a # "indexer"
    <3>1. pc'["indexer"] = pc["indexer"] /\ seen'["indexer"] = seen["indexer"]
      BY <1>6, <2>2, ProgramNames
    <3>2. pc["indexer"] \in Binding \union {"bulk"} =>
             seen["indexer"] \in Nat /\ seen["indexer"] <= hour
      BY <1>1, ProgramNames DEF PassesAreFresh, Binding
    <3>3. hour \in Nat
      BY <1>1 DEF TypeInv
    <3>4. pc["indexer"] \in Binding \union {"bulk"} => seen[a] + 1 >= seen["indexer"]
      BY <1>3, <3>2, <3>3
    <3> QED
      BY <1>5, <3>1, <3>4 DEF WriteIsRecent
  <2> QED
    BY <2>1, <2>2
<1> QED
  BY <1>1, <1>5, <1>7, <1>8, <1>9, <1>10, <1>11 DEF AliasInv

\* What the cleanup deletes is older than what any pass is about.
LEMMA DeletedIsOld ==
    ASSUME AliasInv, NEW x \in cur["cleanup"]
    PROVE  /\ x \in Nat /\ hour \in Nat /\ x < hour - Retention
           /\ \A a \in Programs : pc[a] # "idle" => seen[a] \in Nat /\ x + 1 < seen[a]
<1>1. TypeInv /\ PassesAreFresh /\ CleanupIsLate
  BY DEF AliasInv
<1>2. /\ pc["cleanup"] # "idle" /\ x < seen["cleanup"] - Retention
      /\ x \in Nat /\ hour \in Nat
  BY <1>1, ProgramNames DEF CleanupIsLate, Expired, TypeInv
<1>3. seen["cleanup"] \in Nat /\ seen["cleanup"] <= hour
  BY <1>1, <1>2, ProgramNames DEF PassesAreFresh
<1>4. \A a \in Programs : pc[a] # "idle" => seen[a] \in Nat /\ hour <= seen[a] + 1
  BY <1>1 DEF PassesAreFresh
<1> QED
  BY <1>2, <1>3, <1>4

\* A delete takes an expired index out of the cluster.
LEMMA DeleteKeeps ==
    ASSUME AliasInv, NEW x \in cur["cleanup"],
           exist' = exist \ {x}, read' = read \ {x},
           write' = write \ {x}, flagged' = flagged \ {x},
           LET rest == cur["cleanup"] \ {x}
           IN  IF rest = {} THEN End("cleanup") ELSE Learn("cleanup", "delete", rest),
           pc["cleanup"] = "delete",
           UNCHANGED <<hour, stray, written, retained, faults>>
    PROVE  AliasInv'
<1>1. TypeInv /\ PassesAreFresh /\ CleanupIsLate /\ IndexIsThere /\ OneToWriteTo
      /\ WriteIsRecent /\ ~stray
  BY DEF AliasInv
<1>2. /\ x \in Nat
      /\ \A a \in Programs : pc[a] # "idle" => seen[a] \in Nat /\ x + 1 < seen[a]
  BY DeletedIsOld
<1>3. PICK l, h, S : /\ At("cleanup", l, h, S)
                     /\ l \in Label /\ h \in Nat \union {NoHour} /\ S \in SUBSET Nat
                     /\ \/ l = "idle" /\ S = {}
                        \/ l # "idle" /\ h = seen["cleanup"] /\ S \subseteq cur["cleanup"]
  <2>1. cur["cleanup"] \in SUBSET Nat /\ seen["cleanup"] \in Nat
    BY <1>1, <1>2, ProgramNames DEF TypeInv
  <2> DEFINE rest == cur["cleanup"] \ {x}
  <2>2. CASE rest = {}
    <3>1. At("cleanup", "idle", NoHour, {})
      BY <2>2 DEF End
    <3> QED
      BY <3>1 DEF Label
  <2>3. CASE rest # {}
    <3>1. At("cleanup", "delete", seen["cleanup"], rest)
      BY <2>3 DEF Learn
    <3>2. rest \in SUBSET Nat /\ rest \subseteq cur["cleanup"]
      BY <2>1
    <3> HIDE DEF rest
    <3> QED
      BY <2>1, <3>1, <3>2 DEF Label
  <2> QED
    BY <2>2, <2>3
<1>4. /\ pc' \in [Programs -> Label]
      /\ seen' \in [Programs -> Nat \union {NoHour}]
      /\ cur' \in [Programs -> SUBSET Nat]
      /\ pc'["cleanup"] = l /\ seen'["cleanup"] = h /\ cur'["cleanup"] = S
      /\ \A b \in Programs : b # "cleanup" =>
            pc'[b] = pc[b] /\ seen'[b] = seen[b] /\ cur'[b] = cur[b]
  BY <1>1, <1>3, AtMeans, ProgramNames
<1>5. TypeInv'
  BY <1>1, <1>4 DEF TypeInv
<1>6. PassesAreFresh'
  <2>1. l # "idle" => h = seen["cleanup"]
    BY <1>3
  <2> QED
    BY <1>1, <1>4, <2>1, ProgramNames DEF PassesAreFresh
<1>7. CleanupIsLate'
  BY <1>1, <1>3, <1>4 DEF CleanupIsLate
<1>8. IndexIsThere'
  <2> SUFFICES ASSUME NEW a \in Ensurers, pc'[a] \in {"getwrite", "bindwrite"} \union Binding
               PROVE  seen'[a] \in exist'
    BY DEF IndexIsThere
  <2>1. a \in Programs /\ pc'[a] = pc[a] /\ seen'[a] = seen[a] /\ pc[a] # "idle"
    BY <1>4, ProgramNames DEF Binding
  <2>2. seen[a] \in exist /\ seen[a] # x
    BY <1>1, <1>2, <2>1 DEF IndexIsThere
  <2> QED
    BY <2>1, <2>2
<1>9. OneToWriteTo'
  <2>1. pc'["init"] = pc["init"]
    BY <1>4, ProgramNames
  <2> QED
    BY <1>1, <2>1 DEF OneToWriteTo
<1>10. WriteIsRecent'
  <2> SUFFICES ASSUME pc'["indexer"] \in Binding \union {"bulk"}
               PROVE  \E y \in write' : y + 1 >= seen'["indexer"]
    BY DEF WriteIsRecent
  <2>1. /\ pc'["indexer"] = pc["indexer"] /\ seen'["indexer"] = seen["indexer"]
        /\ pc["indexer"] # "idle"
    BY <1>4, ProgramNames DEF Binding
  <2>2. PICK y \in write : y + 1 >= seen["indexer"]
    BY <1>1, <2>1 DEF WriteIsRecent
  <2>3. y # x
    BY <1>2, <2>1, <2>2, ProgramNames
  <2> QED
    BY <2>1, <2>2, <2>3
<1> QED
  BY <1>1, <1>5, <1>6, <1>7, <1>8, <1>9, <1>10 DEF AliasInv

\* The clock does not turn twice in a pass.
LEMMA HourKeeps ==
    ASSUME AliasInv, HourPasses
    PROVE  AliasInv'
<1>1. TypeInv /\ PassesAreFresh /\ CleanupIsLate /\ IndexIsThere /\ OneToWriteTo
      /\ WriteIsRecent /\ ~stray
  BY DEF AliasInv
<1>2. TypeInv'
  <2>1. hour' \in Nat /\ written' \subseteq Nat
    <3>1. hour \in Nat /\ written \subseteq Nat
      BY <1>1 DEF TypeInv
    <3>2. hour' = hour + 1 /\ written' \subseteq written
      BY DEF HourPasses
    <3> QED
      BY <3>1, <3>2
  <2>2. UNCHANGED <<exist, write, flagged, read, stray, pc, seen, cur, retained, faults>>
    BY DEF HourPasses
  <2> QED
    BY <1>1, <2>1, <2>2 DEF TypeInv
<1>3. PassesAreFresh'
  <2> SUFFICES ASSUME NEW a \in Programs, pc[a] # "idle"
               PROVE  seen[a] \in Nat /\ seen[a] <= hour + 1 /\ hour + 1 <= seen[a] + 1
    BY DEF PassesAreFresh, HourPasses
  <2>1. seen[a] \in Nat /\ hour \in Nat
    BY <1>1 DEF PassesAreFresh, TypeInv
  <2>2. seen[a] = hour
    BY <2>1 DEF HourPasses, NoHour
  <2> QED
    BY <2>1, <2>2
<1>4. CleanupIsLate' /\ IndexIsThere' /\ OneToWriteTo' /\ WriteIsRecent' /\ ~stray'
  BY <1>1 DEF HourPasses, CleanupIsLate, IndexIsThere, OneToWriteTo, WriteIsRecent
<1> QED
  BY <1>2, <1>3, <1>4 DEF AliasInv

\* A pass that ends changes nothing else.
LEMMA EndIsQuiet ==
    ASSUME AliasInv, NEW a \in Programs, End(a), UNCHANGED <<hour, write, flagged, stray>>,
           exist \subseteq exist', exist' \subseteq Nat,
           read' \subseteq Nat, written' \subseteq Nat, retained' \subseteq Nat,
           faults' \in Nat, a # "init" => retained' = retained
    PROVE  AliasInv'
<1>1. QuietStep(a, "idle", NoHour, {})
  BY DEF QuietStep, End, Binding
<1>2. "idle" \in Label /\ NoHour \in Nat \union {NoHour} /\ {} \in SUBSET Nat
  BY DEF Label
<1> QED
  BY <1>1, <1>2, QuietKeeps

\* The steps of ensure_current_hour_index.
LEMMA EnsureKeeps ==
    ASSUME AliasInv, NEW a \in Ensurers, EnsureStep(a)
    PROVE  AliasInv'
<1> USE ProgramNames
<1>1. TypeInv /\ IndexIsThere /\ a \in Programs /\ a # "cleanup" /\ a # "init"
  BY DEF AliasInv
<1>2. /\ hour \in Nat /\ exist \subseteq Nat /\ read \subseteq Nat /\ written \subseteq Nat
      /\ retained \subseteq Nat /\ faults \in Nat /\ write \subseteq Nat
      /\ seen[a] \in Nat \union {NoHour} /\ cur[a] \in SUBSET Nat
  BY <1>1 DEF TypeInv
<1>3. pc[a] # "idle" => seen[a] \in Nat
  BY <1>1 DEF AliasInv, PassesAreFresh
<1>4. CASE EnsureStarts(a)
  <2>1. PICK l \in {"getwrite", "create"} :
           At(a, l, hour, {}) /\ (l = "getwrite" => hour \in exist)
    BY <1>4 DEF EnsureStarts
  <2>2. QuietStep(a, l, hour, {})
    BY <1>1, <1>2, <1>4, <2>1 DEF EnsureStarts, cluster, QuietStep, Binding
  <2>3. l \in Label /\ hour \in Nat \union {NoHour} /\ {} \in SUBSET Nat
    BY <1>2, <2>1 DEF Label
  <2> QED
    BY <1>1, <2>2, <2>3, QuietKeeps
<1>5. CASE EnsureCreates(a)
  <2>1. /\ pc[a] = "create" /\ exist' = exist \union {seen[a]} /\ seen[a] \in Nat
        /\ UNCHANGED <<hour, write, flagged, read, stray, written, retained, faults>>
    BY <1>3, <1>5 DEF EnsureCreates
  <2>2. exist' \subseteq Nat /\ exist \subseteq exist' /\ seen[a] \in exist'
    BY <1>2, <2>1
  <2>3. CASE End(a)
    BY <1>1, <1>2, <2>1, <2>2, <2>3, EndIsQuiet
  <2>4. CASE At(a, "getwrite", seen[a], cur[a])
    <3>1. QuietStep(a, "getwrite", seen[a], cur[a])
      BY <1>1, <1>2, <2>1, <2>2, <2>4 DEF QuietStep, Binding
    <3>2. "getwrite" \in Label
      BY DEF Label
    <3> QED
      BY <1>1, <1>2, <3>1, <3>2, QuietKeeps
  <2> QED
    BY <1>5, <2>3, <2>4 DEF EnsureCreates, Goto, Learn
<1>6. CASE EnsureGetsWrite(a)
  <2>1. /\ pc[a] = "getwrite" /\ seen[a] \in Nat /\ seen[a] \in exist /\ faults' \in Nat
        /\ UNCHANGED <<hour, exist, write, flagged, read, stray, written, retained>>
    BY <1>1, <1>2, <1>3, <1>6 DEF EnsureGetsWrite, cluster, IndexIsThere
  <2>2. PICK l, S : /\ At(a, l, seen[a], S) /\ S \in SUBSET Nat
                    /\ l = "bindwrite" \/ (l = "getread" /\ write = {seen[a]})
    BY <1>2, <1>6 DEF EnsureGetsWrite, Goto, Learn
  <2>3. QuietStep(a, l, seen[a], S)
    BY <1>1, <1>2, <2>1, <2>2 DEF QuietStep, Binding
  <2>4. l \in Label
    BY <2>2 DEF Label
  <2> QED
    BY <1>1, <1>2, <2>2, <2>3, <2>4, QuietKeeps
<1>7. CASE EnsureBindsWrite(a)
  <2> DEFINE others == cur[a] \ {seen[a]}
  <2>1. CASE Accepted(others, seen[a], TRUE)
    <3>1. /\ pc[a] = "bindwrite" /\ Rebind(others, seen[a], TRUE)
          /\ At(a, "getread", seen[a], {})
          /\ UNCHANGED <<hour, exist, read, stray, written, retained, faults>>
      BY <1>7, <2>1 DEF EnsureBindsWrite, Learn
    <3>2. others \in SUBSET Nat /\ {} \in SUBSET Nat
      BY <1>2
    <3> HIDE DEF others
    <3> QED
      BY <1>1, <2>1, <3>1, <3>2, RebindKeeps
  <2>2. CASE ~Accepted(others, seen[a], TRUE)
    <3>1. /\ End(a)
          /\ UNCHANGED <<hour, write, flagged, exist, read, stray, written, retained, faults>>
      BY <1>7, <2>2 DEF EnsureBindsWrite
    <3> QED
      BY <1>1, <1>2, <3>1, EndIsQuiet
  <2> QED
    BY <2>1, <2>2
<1>8. CASE EnsureGetsRead(a) \/ EnsureBindsRead(a)
  <2>1. /\ pc[a] \in Binding /\ seen[a] \in Nat /\ seen[a] \in exist
        /\ faults' \in Nat /\ read' \subseteq Nat
        /\ UNCHANGED <<hour, exist, write, flagged, stray, written, retained>>
    <3>1. pc[a] \in Binding
      BY <1>8 DEF EnsureGetsRead, EnsureBindsRead, Binding
    <3>2. seen[a] \in Nat /\ seen[a] \in exist
      BY <1>1, <1>3, <3>1 DEF IndexIsThere, Binding
    <3>3. CASE EnsureGetsRead(a)
      <4>1. faults' \in Nat
        BY <1>2, <3>3 DEF EnsureGetsRead
      <4> QED
        BY <1>2, <3>1, <3>2, <3>3, <4>1 DEF EnsureGetsRead, cluster
    <3>4. CASE EnsureBindsRead(a)
      BY <1>2, <3>1, <3>2, <3>4 DEF EnsureBindsRead
    <3> QED
      BY <1>8, <3>3, <3>4
  <2>2. \/ End(a)
        \/ \E l \in {"bindread", "bulk"} : At(a, l, seen[a], cur[a])
    BY <1>8 DEF EnsureGetsRead, EnsureBindsRead, Goto, Learn, AfterEnsure
  <2>3. CASE End(a)
    BY <1>1, <1>2, <2>1, <2>3, EndIsQuiet
  <2>4. ASSUME NEW l \in {"bindread", "bulk"}, At(a, l, seen[a], cur[a])
        PROVE  AliasInv'
    <3>1. QuietStep(a, l, seen[a], cur[a])
      BY <1>1, <1>2, <2>1, <2>4 DEF QuietStep, Binding
    <3>2. l \in Label
      BY DEF Label
    <3> QED
      BY <1>1, <1>2, <3>1, <3>2, QuietKeeps
  <2> QED
    BY <2>2, <2>3, <2>4
<1> QED
  BY <1>4, <1>5, <1>6, <1>7, <1>8 DEF EnsureStep

\* Where a bulk request goes: the write alias resolves to one index.
LEMMA BulkHasTarget ==
    ASSUME AliasInv, pc["indexer"] = "bulk"
    PROVE  /\ write # {} /\ Cardinality(Targets) = 1 /\ Targets \subseteq write
<1>1. TypeInv /\ OneToWriteTo /\ WriteIsRecent
  BY DEF AliasInv
<1>2. write # {}
  BY <1>1 DEF WriteIsRecent
<1>3. CASE flagged # {}
  <2>1. PICK x : flagged = {x}
    BY <1>1, <1>3 DEF OneToWriteTo
  <2> QED
    BY <1>1, <1>2, <1>3, <2>1, FS_Singleton DEF Targets, TypeInv
<1>4. CASE flagged = {}
  <2>1. \A x, y \in write : x = y
    BY <1>1, <1>4 DEF OneToWriteTo
  <2>2. PICK x : write = {x}
    BY <1>2, <2>1
  <2>3. Cardinality(write) = 1
    BY <2>2, FS_Singleton
  <2> QED
    BY <1>2, <1>4, <2>3 DEF Targets
<1> QED
  BY <1>3, <1>4

\* The steps of the cleanup.
LEMMA CleanupKeeps ==
    ASSUME AliasInv, CleanupStep
    PROVE  AliasInv'
<1> USE ProgramNames
<1>1. TypeInv /\ CleanupIsLate /\ PassesAreFresh
  BY DEF AliasInv
<1>2. /\ hour \in Nat /\ exist \subseteq Nat /\ read \subseteq Nat /\ written \subseteq Nat
      /\ retained \subseteq Nat /\ faults \in Nat /\ write \subseteq Nat
      /\ seen["cleanup"] \in Nat \union {NoHour} /\ cur["cleanup"] \in SUBSET Nat
      /\ {"unalias", "delete", "idle"} \subseteq Label
  BY <1>1 DEF TypeInv, Label
<1>3. CASE CleanupLists
  <2> DEFINE old == {h \in exist : Expired(h, hour)}
  <2>1. QuietStep("cleanup", "unalias", hour, old)
    BY <1>2, <1>3 DEF CleanupLists, cluster, QuietStep
  <2>2. old \in SUBSET Nat
    BY <1>2
  <2> HIDE DEF old
  <2> QED
    BY <1>2, <2>1, <2>2, QuietKeeps
<1>4. CASE CleanupUnaliases
  <2>1. At("cleanup", "delete", seen["cleanup"], cur["cleanup"])
    BY <1>4 DEF CleanupUnaliases, Goto, Learn
  <2>2. QuietStep("cleanup", "delete", seen["cleanup"], cur["cleanup"])
    <3>1. /\ read' \subseteq Nat /\ faults' \in Nat /\ pc["cleanup"] = "unalias"
          /\ UNCHANGED <<hour, exist, write, flagged, stray, written, retained>>
      <4>1. faults' = faults \/ faults' = faults + 1
        BY <1>4 DEF CleanupUnaliases
      <4>2. read' = read \ cur["cleanup"] \/ read' = read
        BY <1>4 DEF CleanupUnaliases
      <4>3. read' \subseteq Nat
        BY <1>2, <4>2
      <4> QED
        BY <1>2, <1>4, <4>1, <4>3 DEF CleanupUnaliases
    <3>2. \A x \in cur["cleanup"] : Expired(x, seen["cleanup"])
      BY <1>1 DEF CleanupIsLate
    <3> QED
      BY <1>2, <2>1, <3>1, <3>2 DEF QuietStep
  <2> QED
    BY <1>2, <2>2, QuietKeeps
<1>5. CASE CleanupDeletes
  <2>1. PICK x \in cur["cleanup"] :
          /\ \/ /\ exist' = exist \ {x} /\ read' = read \ {x}
                /\ write' = write \ {x} /\ flagged' = flagged \ {x}
                /\ faults' = faults
             \/ /\ faults < MaxFaults
                /\ faults' = faults + 1
                /\ UNCHANGED <<exist, read, write, flagged>>
          /\ LET rest == cur["cleanup"] \ {x}
             IN  IF rest = {} THEN End("cleanup") ELSE Learn("cleanup", "delete", rest)
    BY <1>5 DEF CleanupDeletes
  <2>2. CASE exist' = exist \ {x} /\ faults' = faults /\ read' = read \ {x}
             /\ write' = write \ {x} /\ flagged' = flagged \ {x}
    BY <1>5, <2>1, <2>2, DeleteKeeps DEF CleanupDeletes
  <2>3. CASE faults' = faults + 1 /\ UNCHANGED <<exist, read, write, flagged>>
    <3> DEFINE rest == cur["cleanup"] \ {x}
    <3>1. CASE rest = {}
      <4>1. End("cleanup") /\ UNCHANGED <<hour, stray, written, retained>>
        BY <1>5, <2>1, <3>1 DEF CleanupDeletes
      <4>2. faults' \in Nat
        BY <1>2, <2>3
      <4> QED
        BY <1>2, <2>3, <4>1, <4>2, EndIsQuiet
    <3>2. CASE rest # {}
      <4>1. At("cleanup", "delete", seen["cleanup"], rest)
        BY <2>1, <3>2 DEF Learn
      <4>2. QuietStep("cleanup", "delete", seen["cleanup"], rest)
        BY <1>1, <1>2, <1>5, <2>3, <4>1 DEF CleanupDeletes, QuietStep, CleanupIsLate
      <4>3. rest \in SUBSET Nat
        BY <1>2
      <4> HIDE DEF rest
      <4> QED
        BY <1>2, <4>2, <4>3, QuietKeeps
    <3> QED
      BY <3>1, <3>2
  <2> QED
    BY <2>1, <2>2, <2>3
<1> QED
  BY <1>3, <1>4, <1>5 DEF CleanupStep

\* The steps of init_elasticsearch.
LEMMA InitKeeps ==
    ASSUME AliasInv, InitStep
    PROVE  AliasInv'
<1> USE ProgramNames
<1>1. TypeInv /\ PassesAreFresh
  BY DEF AliasInv
<1>2. /\ hour \in Nat /\ exist \subseteq Nat /\ read \subseteq Nat /\ written \subseteq Nat
      /\ retained \subseteq Nat /\ faults \in Nat /\ write \subseteq exist
      /\ seen["init"] \in Nat \union {NoHour} /\ cur["init"] \in SUBSET Nat
      /\ {"list", "bindwrite", "retain", "bindread", "idle"} \subseteq Label
  BY <1>1 DEF TypeInv, Label
<1>3. CASE InitCreates
  <2>1. QuietStep("init", "list", hour, {})
    BY <1>2, <1>3 DEF InitCreates, QuietStep, Binding
  <2>2. {} \in SUBSET Nat
    OBVIOUS
  <2> QED
    BY <1>2, <2>1, <2>2, QuietKeeps
<1>4. CASE InitLists
  <2>1. At("init", "bindwrite", seen["init"], exist) /\ retained' = exist \intersect write
    BY <1>4 DEF InitLists, Learn
  <2>2. QuietStep("init", "bindwrite", seen["init"], exist)
    BY <1>2, <1>4, <2>1 DEF InitLists, cluster, QuietStep
  <2> QED
    BY <1>2, <2>2, QuietKeeps
<1>5. CASE InitBindsWrite
  <2>1. CASE Accepted(retained, seen["init"], FALSE)
    <3>1. /\ pc["init"] = "bindwrite" /\ Rebind(retained, seen["init"], FALSE)
          /\ At("init", "retain", seen["init"], cur["init"])
          /\ retained' = {}
          /\ UNCHANGED <<hour, exist, read, stray, written, faults>>
      BY <1>5, <2>1 DEF InitBindsWrite, Goto, Learn
    <3> QED
      BY <1>2, <2>1, <3>1, RebindKeeps
  <2>2. CASE ~Accepted(retained, seen["init"], FALSE)
    <3>1. /\ End("init") /\ retained' = {}
          /\ UNCHANGED <<hour, write, flagged, exist, read, stray, written, faults>>
      BY <1>5, <2>2 DEF InitBindsWrite
    <3> QED
      BY <1>2, <3>1, EndIsQuiet
  <2> QED
    BY <2>1, <2>2
<1>6. CASE InitRetains
  <2> DEFINE covered == cur["init"] \intersect read
  <2>1. At("init", "bindread", seen["init"], covered)
    BY <1>6 DEF InitRetains, Learn
  <2>2. QuietStep("init", "bindread", seen["init"], covered)
    BY <1>2, <1>6, <2>1 DEF InitRetains, cluster, QuietStep
  <2>3. covered \in SUBSET Nat
    BY <1>2
  <2> HIDE DEF covered
  <2> QED
    BY <1>2, <2>2, <2>3, QuietKeeps
<1>7. CASE InitBindsRead
  <2>1. /\ End("init") /\ retained' = {} /\ read' \subseteq Nat
        /\ UNCHANGED <<hour, exist, write, flagged, stray, written, faults>>
    BY <1>2, <1>7 DEF InitBindsRead
  <2> QED
    BY <1>2, <2>1, EndIsQuiet
<1> QED
  BY <1>3, <1>4, <1>5, <1>6, <1>7 DEF InitStep

\* The invariant holds at first,
LEMMA AliasInit == Init => AliasInv
<1> SUFFICES ASSUME Init PROVE AliasInv
  OBVIOUS
<1>1. TypeInv
  BY DEF Init, TypeInv, Label
<1>2. CleanupIsLate
  BY ProgramNames DEF Init, CleanupIsLate
<1>3. PassesAreFresh /\ IndexIsThere /\ OneToWriteTo /\ WriteIsRecent /\ ~stray
  BY ProgramNames DEF Init, PassesAreFresh, IndexIsThere, OneToWriteTo, WriteIsRecent, Binding
<1> QED
  BY <1>1, <1>2, <1>3 DEF AliasInv

\* and every step keeps it.
LEMMA AliasStep == AliasInv /\ [Next]_vars => AliasInv'
<1> SUFFICES ASSUME AliasInv, [Next]_vars PROVE AliasInv'
  OBVIOUS
<1>1. TypeInv
  BY DEF AliasInv
<1>2. CASE Bulk
  <2>1. End("indexer") /\ stray' = stray /\ written' \subseteq Nat
    BY <1>1, <1>2, BulkHasTarget DEF Bulk, TypeInv
  <2> QED
    BY <1>1, <1>2, <2>1, EndIsQuiet, ProgramNames DEF Bulk, TypeInv
<1>3. ASSUME NEW a \in Programs, PassFails(a) PROVE AliasInv'
  <2>1. retained' \subseteq Nat /\ (a # "init" => retained' = retained) /\ faults' \in Nat
    <3>1. retained \subseteq Nat /\ faults \in Nat
      BY <1>1 DEF TypeInv
    <3>2. faults' \in Nat
      BY <1>3, <3>1 DEF PassFails
    <3>3. CASE a = "init"
      <4>1. retained' = {}
        BY <1>3, <3>3 DEF PassFails
      <4> QED
        BY <3>2, <3>3, <4>1
    <3>4. CASE a # "init"
      <4>1. retained' = retained
        BY <1>3, <3>4 DEF PassFails
      <4> QED
        BY <3>1, <3>2, <4>1
    <3> QED
      BY <3>3, <3>4
  <2> QED
    BY <1>1, <1>3, <2>1, EndIsQuiet DEF PassFails, TypeInv, cluster
<1>4. CASE UNCHANGED vars
  BY <1>4 DEF vars, AliasInv, TypeInv, PassesAreFresh, CleanupIsLate, IndexIsThere,
              OneToWriteTo, WriteIsRecent
<1> QED
  BY <1>2, <1>3, <1>4, HourKeeps, EnsureKeeps, CleanupKeeps, InitKeeps DEF Next

\* A bulk request of the indexer finds one index to write to, whatever the other
\* programs, crashes and failed requests did since its pass began
\* (search/aliases.py:85-118, search/writer.py:26-44).
THEOREM BulkResolvesHolds == Spec => []BulkResolves
<1>1. AliasInv => BulkResolves
  BY BulkHasTarget DEF AliasInv, BulkResolves
<1> QED
  BY <1>1, AliasInit, AliasStep, PTL DEF Spec

-------------------------------------------------------------------------------
(* Documents stay searchable.                                              *)

\* A fault is counted, and none is forgotten.
LEMMA FaultsAreCounted ==
    ASSUME TypeInv, [Next]_vars, faults' = 0
    PROVE  faults = 0 /\ ~InitCreates /\ \A a \in Programs : ~PassFails(a)
<1>1. faults \in Nat
  BY DEF TypeInv
<1>2. faults' # faults + 1
  BY <1>1
<1>3. faults' = faults \/ faults' = faults + 1
  <2>1. CASE HourPasses \/ Bulk
    BY <2>1 DEF HourPasses, Bulk
  <2>2. ASSUME NEW a \in Ensurers, EnsureStep(a)
        PROVE  faults' = faults \/ faults' = faults + 1
    BY <2>2 DEF EnsureStep, EnsureStarts, EnsureCreates, EnsureGetsWrite, EnsureBindsWrite,
                EnsureGetsRead, EnsureBindsRead
  <2>3. CASE CleanupStep
    BY <2>3 DEF CleanupStep, CleanupLists, CleanupUnaliases, CleanupDeletes
  <2>4. CASE InitStep
    BY <2>4 DEF InitStep, InitCreates, InitLists, InitBindsWrite, InitRetains, InitBindsRead
  <2>5. ASSUME NEW a \in Programs, PassFails(a) PROVE faults' = faults + 1
    BY <2>5 DEF PassFails
  <2>6. CASE UNCHANGED vars
    BY <2>6 DEF vars
  <2> QED
    BY <2>1, <2>2, <2>3, <2>4, <2>5, <2>6 DEF Next
<1> QED
  BY <1>2, <1>3 DEF InitCreates, PassFails

\* A step of one program that leaves the write alias alone, takes nothing off
\* the read alias and writes, if anything, where the write alias is: a pass that
\* was about to see to the read alias still is, or has done so.
LEMMA QuietStaysSearchable ==
    ASSUME AliasInv, Searchable,
           NEW a \in Programs \ {"init"}, NEW l \in Label, NEW h \in Nat \union {NoHour},
           NEW S \in SUBSET Nat, At(a, l, h, S),
           UNCHANGED <<hour, write, flagged>>, read \subseteq read',
           written' \subseteq write \union written,
           \A x \in written' : x >= hour - Retention,
           \/ pc[a] \notin Binding
           \/ l \in Binding /\ h = seen[a]
           \/ seen[a] \in read'
    PROVE  Searchable'
<1>1. TypeInv
  BY DEF AliasInv
<1>2. /\ pc'[a] = l /\ seen'[a] = h
      /\ \A b \in Programs : b # a => pc'[b] = pc[b] /\ seen'[b] = seen[b]
  BY <1>1 DEF At, TypeInv
<1>3. ASSUME NEW x, Bound(x) PROVE x \in read' \/ Bound(x)'
  <2>1. PICK b \in Ensurers : seen[b] = x /\ pc[b] \in Binding
    BY <1>3 DEF Bound
  <2>2. CASE b = a
    BY <1>2, <2>1, <2>2 DEF Bound
  <2>3. CASE b # a
    <3>1. pc'[b] = pc[b] /\ seen'[b] = seen[b]
      BY <1>2, <2>3, ProgramNames
    <3> QED
      BY <2>1, <3>1 DEF Bound
  <2> QED
    BY <2>2, <2>3
<1>4. pc'["init"] = "idle"
  BY <1>2, ProgramNames DEF Searchable
<1>5. ASSUME NEW x \in write' \union written', x >= hour' - Retention
      PROVE  x \in read' \/ Bound(x)'
  <2>1. x \in write \union written /\ x >= hour - Retention
    BY <1>5
  <2>2. x \in read \/ Bound(x)
    BY <2>1 DEF Searchable
  <2> QED
    BY <1>3, <2>2
<1> QED
  BY <1>4, <1>5 DEF Searchable

\* The steps of ensure_current_hour_index.
LEMMA EnsureStaysSearchable ==
    ASSUME AliasInv, Searchable, NEW a \in Ensurers, EnsureStep(a), faults' = faults
    PROVE  Searchable'
<1> USE ProgramNames
<1>1. TypeInv /\ IndexIsThere /\ a \in Programs \ {"init"}
  BY DEF AliasInv
<1>2. /\ hour \in Nat \union {NoHour} /\ write \subseteq Nat /\ exist \subseteq Nat
      /\ faults \in Nat
      /\ seen[a] \in Nat \union {NoHour} /\ cur[a] \in SUBSET Nat /\ {} \in SUBSET Nat
      /\ {"idle", "create", "getwrite", "bindwrite", "getread", "bindread", "bulk"}
            \subseteq Label
      /\ NoHour \in Nat \union {NoHour}
  BY <1>1 DEF TypeInv, Label
<1>3. \A x \in written : x >= hour - Retention
  BY DEF Searchable
<1>4. CASE EnsureStarts(a)
  <2>1. PICK l \in {"getwrite", "create"} : At(a, l, hour, {})
    BY <1>4 DEF EnsureStarts
  <2>2. pc[a] \notin Binding /\ UNCHANGED <<hour, write, flagged, read, written>>
    BY <1>4 DEF EnsureStarts, cluster, Binding
  <2> QED
    BY <1>1, <1>2, <1>3, <2>1, <2>2, QuietStaysSearchable
<1>5. CASE EnsureCreates(a)
  <2>1. pc[a] \notin Binding /\ UNCHANGED <<hour, write, flagged, read, written>>
    BY <1>5 DEF EnsureCreates, Binding
  <2>2. At(a, "idle", NoHour, {}) \/ At(a, "getwrite", seen[a], cur[a])
    BY <1>5 DEF EnsureCreates, Goto, End, Learn
  <2> QED
    BY <1>1, <1>2, <1>3, <2>1, <2>2, QuietStaysSearchable
<1>6. CASE EnsureGetsWrite(a)
  <2>1. pc[a] \notin Binding /\ UNCHANGED <<hour, write, flagged, read, written>>
    BY <1>6 DEF EnsureGetsWrite, cluster, Binding
  <2>2. PICK l, S : /\ At(a, l, seen[a], S) /\ S \in SUBSET Nat
                    /\ l \in {"getread", "bindwrite"}
    BY <1>2, <1>6 DEF EnsureGetsWrite, Goto, Learn
  <2> QED
    BY <1>1, <1>2, <1>3, <2>1, <2>2, QuietStaysSearchable
<1>7. CASE EnsureBindsWrite(a)
  <2> DEFINE others == cur[a] \ {seen[a]}
  <2>1. /\ pc[a] = "bindwrite" /\ pc[a] \notin Binding
        /\ UNCHANGED <<hour, exist, read, stray, written, retained, faults>>
    BY <1>7 DEF EnsureBindsWrite, Binding
  <2>2. CASE Accepted(others, seen[a], TRUE)
    <3>1. Rebind(others, seen[a], TRUE) /\ At(a, "getread", seen[a], {})
      BY <1>7, <2>2 DEF EnsureBindsWrite, Learn
    <3>2. others \in SUBSET Nat
      BY <1>2
    <3>3. flagged' = {seen[a]}
      <4> HIDE DEF others
      <4> QED
        BY <1>1, <1>2, <2>1, <2>2, <3>1, <3>2, RebindKeeps
    <3>4. write' = {seen[a]}
      BY <3>1, <3>3 DEF Rebind, WriteAfter, FlaggedAfter, Searchable
    <3>5. /\ pc'[a] = "getread" /\ seen'[a] = seen[a]
          /\ \A b \in Programs : b # a => pc'[b] = pc[b] /\ seen'[b] = seen[b]
      BY <1>1, <1>2, <3>1, AtMeans
    <3>6. \A x : Bound(x) => Bound(x)'
      <4> SUFFICES ASSUME NEW x, NEW b \in Ensurers, seen[b] = x, pc[b] \in Binding
                   PROVE  Bound(x)'
        BY DEF Bound
      <4>1. pc'[b] = pc[b] /\ seen'[b] = seen[b]
        BY <2>1, <3>5
      <4> QED
        BY <4>1 DEF Bound
    <3>7. \A x : x = seen[a] => Bound(x)'
      BY <3>5 DEF Bound, Binding
    <3>8. pc'["init"] = "idle"
      BY <1>1, <3>5 DEF Searchable
    <3>9. ASSUME NEW x \in write' \union written', x >= hour' - Retention
          PROVE  x \in read' \/ Bound(x)'
      <4>1. CASE x \in write'
        BY <3>4, <3>7, <4>1
      <4>2. CASE x \in written'
        <5>1. x \in read \/ Bound(x)
          BY <2>1, <3>9, <4>2 DEF Searchable
        <5> QED
          BY <2>1, <3>6, <5>1
      <4> QED
        BY <4>1, <4>2
    <3> QED
      BY <1>3, <2>1, <3>3, <3>4, <3>8, <3>9 DEF Searchable
  <2>3. CASE ~Accepted(others, seen[a], TRUE)
    <3>1. At(a, "idle", NoHour, {}) /\ UNCHANGED <<write, flagged>>
      BY <1>7, <2>3 DEF EnsureBindsWrite, End
    <3> QED
      BY <1>1, <1>2, <1>3, <2>1, <3>1, QuietStaysSearchable
  <2> QED
    BY <2>2, <2>3
<1>8. CASE EnsureGetsRead(a)
  <2>1. UNCHANGED <<hour, write, flagged, read, written>>
    BY <1>8 DEF EnsureGetsRead, cluster
  <2>2. \/ seen[a] \in read /\ (At(a, "idle", NoHour, {}) \/ At(a, "bulk", seen[a], cur[a]))
        \/ At(a, "bindread", seen[a], cur[a])
    BY <1>2, <1>8 DEF EnsureGetsRead, Goto, End, Learn, AfterEnsure
  <2> QED
    BY <1>1, <1>2, <1>3, <2>1, <2>2, QuietStaysSearchable DEF Binding
<1>9. CASE EnsureBindsRead(a)
  <2>1. seen[a] \in exist
    BY <1>1, <1>9 DEF EnsureBindsRead, IndexIsThere, Binding
  <2>2. /\ UNCHANGED <<hour, write, flagged, written>>
        /\ read \subseteq read' /\ seen[a] \in read'
    BY <1>9, <2>1 DEF EnsureBindsRead
  <2>3. At(a, "idle", NoHour, {}) \/ At(a, "bulk", seen[a], cur[a])
    BY <1>9, <2>1 DEF EnsureBindsRead, Goto, End, Learn, AfterEnsure
  <2> QED
    BY <1>1, <1>2, <1>3, <2>2, <2>3, QuietStaysSearchable
<1> QED
  BY <1>4, <1>5, <1>6, <1>7, <1>8, <1>9 DEF EnsureStep

\* A bulk request writes to the index of this hour or the last two.
LEMMA BulkStaysSearchable ==
    ASSUME AliasInv, Searchable, Bulk
    PROVE  Searchable'
<1> USE ProgramNames
<1>1. TypeInv /\ OneToWriteTo /\ WriteIsRecent /\ PassesAreFresh
  BY DEF AliasInv
<1>2. /\ pc["indexer"] = "bulk" /\ At("indexer", "idle", NoHour, {})
      /\ written' = written \union Targets /\ UNCHANGED <<hour, write, flagged, read>>
  BY DEF Bulk, End
<1>3. Targets \subseteq write
  BY <1>2, BulkHasTarget
<1>4. \A x \in write : x >= hour - Retention
  <2>1. hour \in Nat /\ write \subseteq Nat
    BY <1>1 DEF TypeInv
  <2>2. seen["indexer"] \in Nat /\ hour <= seen["indexer"] + 1
    BY <1>1, <1>2 DEF PassesAreFresh
  <2>3. PICK x \in write : x + 1 >= seen["indexer"]
    BY <1>1, <1>2 DEF WriteIsRecent
  <2>4. \A y \in write : y = x
    BY <1>1, <2>3 DEF OneToWriteTo, Searchable
  <2>5. x >= hour - Retention
    BY <2>1, <2>2, <2>3
  <2> QED
    BY <2>4, <2>5
<1>5. \A x \in written' : x >= hour - Retention
  BY <1>2, <1>3, <1>4 DEF Searchable
<1>6. pc["indexer"] \notin Binding
  BY <1>2 DEF Binding
<1>7. "idle" \in Label /\ NoHour \in Nat \union {NoHour} /\ {} \in SUBSET Nat
  BY DEF Label
<1> QED
  BY <1>2, <1>3, <1>5, <1>6, <1>7, QuietStaysSearchable

\* The cleanup takes nothing off the aliases that is within the retention.
LEMMA CleanupStaysSearchable ==
    ASSUME AliasInv, Searchable, CleanupStep, faults' = faults
    PROVE  Searchable'
<1> USE ProgramNames
<1>1. TypeInv /\ faults # faults + 1
  BY DEF AliasInv, TypeInv
<1>2. PICK l, h, S : /\ At("cleanup", l, h, S) /\ l \in Label
                     /\ h \in Nat \union {NoHour} /\ S \in SUBSET Nat
  <2>1. /\ hour \in Nat /\ exist \subseteq Nat
        /\ seen["cleanup"] \in Nat \union {NoHour} /\ cur["cleanup"] \in SUBSET Nat
        /\ {"unalias", "delete", "idle"} \subseteq Label
    BY <1>1 DEF TypeInv, Label
  <2>2. CASE CleanupLists
    <3> DEFINE old == {x \in exist : Expired(x, hour)}
    <3>1. At("cleanup", "unalias", hour, old)
      BY <2>2 DEF CleanupLists
    <3>2. old \in SUBSET Nat
      BY <2>1
    <3> HIDE DEF old
    <3> QED
      BY <2>1, <3>1, <3>2
  <2>3. CASE CleanupUnaliases
    BY <2>1, <2>3 DEF CleanupUnaliases, Goto, Learn
  <2>4. CASE CleanupDeletes
    BY <2>1, <2>4 DEF CleanupDeletes, End, Learn
  <2> QED
    BY <2>2, <2>3, <2>4 DEF CleanupStep
<1>3. /\ UNCHANGED <<hour, written>>
      /\ write' = flagged' /\ write' \subseteq write
      /\ \A x \in read \ read' : x \in cur["cleanup"]
  <2>1. CASE CleanupLists
    BY <2>1 DEF CleanupLists, cluster, Searchable
  <2>2. CASE CleanupUnaliases
    BY <2>2 DEF CleanupUnaliases, Searchable
  <2>3. CASE CleanupDeletes
    BY <1>1, <2>3 DEF CleanupDeletes, Searchable
  <2> QED
    BY <2>1, <2>2, <2>3 DEF CleanupStep
<1>4. \A b \in Programs : b # "cleanup" => pc'[b] = pc[b] /\ seen'[b] = seen[b]
  BY <1>1, <1>2, AtMeans
<1>5. \A x : Bound(x) => Bound(x)'
  BY <1>4 DEF Bound
<1>6. ASSUME NEW x \in write' \union written', x >= hour' - Retention
      PROVE  x \in read' \/ Bound(x)'
  <2>1. x \in read \/ Bound(x)
    BY <1>3, <1>6 DEF Searchable
  <2>2. x \in read => x \in read'
    <3>1. ASSUME x \in cur["cleanup"] PROVE FALSE
      <4>1. hour \in Nat /\ x \in Nat /\ x < hour - Retention
        BY <3>1, DeletedIsOld
      <4> QED
        BY <1>3, <1>6, <4>1
    <3> QED
      BY <1>3, <3>1
  <2> QED
    BY <1>5, <2>1, <2>2
<1> QED
  BY <1>3, <1>4, <1>6 DEF Searchable

\* Every step without a fault keeps the documents searchable.
LEMMA SearchableStep == AliasInv /\ FaultlessInv /\ [Next]_vars => FaultlessInv'
<1> SUFFICES ASSUME AliasInv, FaultlessInv, [Next]_vars, faults' = 0
             PROVE  Searchable'
  BY DEF FaultlessInv
<1> USE ProgramNames
<1>1. TypeInv
  BY DEF AliasInv
<1>2. /\ faults = 0 /\ faults' = faults /\ ~InitCreates
      /\ \A a \in Programs : ~PassFails(a)
  BY <1>1, FaultsAreCounted
<1>3. Searchable
  BY <1>2 DEF FaultlessInv
<1>4. CASE HourPasses
  <2>1. /\ hour \in Nat /\ write \subseteq Nat /\ written \subseteq Nat
        /\ hour' = hour + 1
    BY <1>1, <1>4 DEF TypeInv, HourPasses
  <2>2. /\ written' \subseteq written /\ \A x \in written' : x >= hour' - Retention
        /\ UNCHANGED <<write, flagged, read, pc, seen>>
    BY <1>4 DEF HourPasses
  <2>3. ASSUME NEW x \in write' \union written', x >= hour' - Retention
        PROVE  x \in read' \/ Bound(x)'
    <3>1. x \in write \union written /\ x >= hour - Retention
      BY <2>1, <2>2, <2>3
    <3> QED
      BY <1>3, <2>2, <3>1 DEF Searchable, Bound
  <2> QED
    BY <1>3, <2>2, <2>3 DEF Searchable
<1>5. ~InitStep
  BY <1>2, <1>3 DEF InitStep, InitLists, InitBindsWrite, InitRetains, InitBindsRead, Searchable
<1>6. CASE UNCHANGED vars
  BY <1>3, <1>6 DEF vars, Searchable, Bound
<1> QED
  BY <1>2, <1>3, <1>4, <1>5, <1>6, EnsureStaysSearchable, BulkStaysSearchable,
     CleanupStaysSearchable DEF Next

\* Without a fault or a run of init_elasticsearch, what was written within the
\* retention is under the read alias, or a pass is about to put it there
\* (search/aliases.py:85-118, jobs/cleanup_live_data.py:24-61).
THEOREM WrittenIsSearchableHolds == Spec => []WrittenIsSearchable
<1>1. Init => FaultlessInv
  BY ProgramNames DEF Init, FaultlessInv, Searchable
<1>2. FaultlessInv => WrittenIsSearchable
  BY DEF FaultlessInv, Searchable, WrittenIsSearchable, Bound, Binding, ReadPending
<1> QED
  BY <1>1, <1>2, AliasInit, AliasStep, SearchableStep, PTL DEF Spec
===============================================================================
