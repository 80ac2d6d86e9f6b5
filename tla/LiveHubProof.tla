----------------------------- MODULE LiveHubProof -----------------------------
(***************************************************************************)
(* Proofs about LiveHub, for any number of events, any rate, any number of *)
(* connections and of faults, and one mount of the page or two.            *)
(***************************************************************************)
EXTENDS LiveHub, FiniteSetTheorems, SequenceTheorems, WellFoundedInduction, TLAPS

-------------------------------------------------------------------------------
(* The invariant.                                                          *)

TypeInv ==
    /\ clock \in Nat /\ position \in Nat /\ base \in Nat /\ committed \in 0 .. position
    /\ task \in {"down", "poll", "deliver", "send"}
    /\ events \in Seq(Nat) /\ window \in Seq(Nat) /\ targets \in Seq(Conns)
    /\ dead \subseteq Conns /\ clients \subseteq Conns /\ closed \subseteq Conns
    /\ net \in [Conns -> {"unused", "connecting", "up", "stalled", "broken"}]
    /\ handler \in [Conns -> {"none", "accept", "add", "loop", "ended"}]
    /\ mounted \in BOOLEAN /\ timers \in Nat
    /\ allowed \in Seq(Nat) /\ sent \in Seq(Nat)
    /\ joined \in [Conns -> Nat] /\ got \in [Conns -> Seq(Nat)]
    /\ shown \in [1 .. Events -> Nat] /\ reread \in [1 .. Events -> Nat]

\* Only an accepted client is added, and a connection that was never opened has
\* no handler.
ConnsInv ==
    /\ \A c \in Conns : net[c] = "unused" => handler[c] = "none"
    /\ \A c \in Conns : net[c] = "connecting" => handler[c] = "accept"
    /\ \A c \in clients \union ToSet(targets) : handler[c] \in {"loop", "ended"}
    /\ \A c \in ToSet(targets) : net[c] = "up" => c \in clients

\* A broadcast under way is of the last event the limiter let pass, and reaches
\* each client once.
BroadcastInv ==
    /\ task # "send" => targets = <<>>
    /\ task = "send" => events # <<>> /\ sent # <<>> /\ sent[Len(sent)] = Head(events)
    /\ \A i, j \in DOMAIN targets : targets[i] = targets[j] => i = j

\* The page's sockets; it is connected only while it is mounted.
SocketsInv ==
    /\ mounted => Cardinality(Alive) + timers = Mounts
    /\ ~mounted => Alive = {}

\* What a connection has got are the events sent since it was added, and while
\* it is up it lacks at most the one under way; before, it has got nothing.
FeedInv ==
    /\ \A c \in Conns : handler[c] \in {"none", "accept", "add"} => got[c] = <<>>
    /\ \A c \in Conns : joined[c] + Len(got[c]) <= Len(sent)
    /\ \A c \in Conns : \A k \in 1 .. Len(got[c]) : got[c][k] = sent[joined[c] + k]
    /\ \A c \in clients : net[c] = "up" =>
          joined[c] + Len(got[c]) = IF c \in ToSet(targets) THEN Len(sent) - 1 ELSE Len(sent)

\* What was polled is of the topic, in its order, and handled before the next
\* poll.
OrderInv ==
    /\ task \in {"down", "poll"} => events = <<>>
    /\ \A i, j \in DOMAIN events : i < j => events[i] < events[j]
    /\ \A i \in DOMAIN events : events[i] \in 1 .. Events

\* The open sockets the broadcast under way has still to reach.
Coming == {c \in Conns : c \in ToSet(targets) /\ c \in Alive}

\* How often the page may show the event e before it is polled again.
Left(e) ==
    IF e \notin ToSet(events) THEN 0
    ELSE IF task = "send" /\ e = Head(events) THEN Cardinality(Coming) ELSE Mounts

\* How often the consumer has read the event e.
Reads(e) == reread[e] + (IF e <= position THEN 1 ELSE 0)

\* An event is shown, or about to be, once for each time it was read, on each of
\* the page's sockets.
ShownInv == \A e \in 1 .. Events : shown[e] + Left(e) <= Mounts * Reads(e)

\* The places of s from the tick on.
Since(s, tick) == {i \in DOMAIN s : s[i] >= tick}

\* The window has as many events as have passed, from any tick of the last
\* second on.
RateInv ==
    /\ \A tick \in Nat : tick > clock - Second =>
          Cardinality(Since(allowed, tick)) = Cardinality(Since(window, tick))
    /\ RateHolds

IInv ==
    /\ TypeInv /\ ConnsInv /\ BroadcastInv /\ SocketsInv /\ FeedInv
    /\ OrderInv /\ ShownInv /\ RateInv

-------------------------------------------------------------------------------
(* Sequences and what they hold.                                           *)

\* An element is appended.
LEMMA AppendIs ==
    ASSUME NEW S, NEW s \in Seq(S), NEW e \in S
    PROVE  /\ Append(s, e) \in Seq(S)
           /\ DOMAIN s = 1 .. Len(s) /\ Len(s) \in Nat
           /\ DOMAIN Append(s, e) = 1 .. Len(s) + 1 /\ Len(Append(s, e)) = Len(s) + 1
           /\ \A k \in 1 .. Len(s) : Append(s, e)[k] = s[k]
           /\ Append(s, e)[Len(s) + 1] = e
  BY AppendProperties, LenProperties

\* The sequence a is s with e at its end.
Longer(a, s, e) ==
    /\ a = Append(s, e) /\ DOMAIN s = 1 .. Len(s) /\ Len(s) \in Nat
    /\ DOMAIN a = 1 .. Len(s) + 1
    /\ \A k \in 1 .. Len(s) : a[k] = s[k]
    /\ a[Len(s) + 1] = e

\* The same of the longer sequence by its name.
LEMMA AppendGives ==
    ASSUME NEW S, NEW s \in Seq(S), NEW e \in S
    PROVE  \E a \in Seq(S) : Longer(a, s, e)
<1>1. Append(s, e) \in Seq(S) /\ Longer(Append(s, e), s, e)
  BY AppendIs DEF Longer
<1> QED
  BY <1>1

\* What follows the head.
LEMMA TailIs ==
    ASSUME NEW S, NEW s \in Seq(S), s # <<>>
    PROVE  /\ Tail(s) \in Seq(S) /\ Head(s) \in S /\ Head(s) = s[1]
           /\ Len(s) \in Nat \ {0} /\ DOMAIN s = 1 .. Len(s)
           /\ DOMAIN Tail(s) = 1 .. Len(s) - 1 /\ Len(Tail(s)) = Len(s) - 1
           /\ \A k \in 1 .. Len(s) - 1 : Tail(s)[k] = s[k + 1]
<1>1. /\ Tail(s) \in Seq(S) /\ Head(s) = s[1] /\ Len(Tail(s)) = Len(s) - 1
      /\ \A k \in 1 .. Len(Tail(s)) : Tail(s)[k] = s[k + 1]
  BY HeadTailProperties
<1>2. Len(s) \in Nat \ {0} /\ DOMAIN s = 1 .. Len(s)
  BY EmptySeq, LenProperties
<1>3. DOMAIN Tail(s) = 1 .. Len(Tail(s))
  BY <1>1, LenProperties
<1>4. s[1] \in S
  BY <1>2, ElementOfSeq
<1> QED
  BY <1>1, <1>2, <1>3, <1>4

\* What a sequence holds is its head and what its tail holds.
LEMMA TailHolds ==
    ASSUME NEW S, NEW s \in Seq(S), s # <<>>
    PROVE  ToSet(s) = ToSet(Tail(s)) \union {Head(s)} /\ ToSet(s) \subseteq S
<1> PICK t \in Seq(S) :
        /\ t = Tail(s) /\ Head(s) \in S /\ Head(s) = s[1]
        /\ Len(s) \in Nat \ {0} /\ DOMAIN s = 1 .. Len(s) /\ DOMAIN t = 1 .. Len(s) - 1
        /\ \A k \in 1 .. Len(s) - 1 : t[k] = s[k + 1]
  BY TailIs
<1>1. ASSUME NEW x \in ToSet(s) PROVE x \in ToSet(t) \union {s[1]}
  <2>1. PICK k \in 1 .. Len(s) : x = s[k]
    BY <1>1 DEF ToSet
  <2>2. CASE k = 1
    BY <2>1, <2>2
  <2>3. CASE k # 1
    <3>1. k - 1 \in DOMAIN t /\ t[k - 1] = s[k - 1 + 1] /\ k - 1 + 1 = k
      BY <2>3
    <3> QED
      BY <2>1, <3>1 DEF ToSet
  <2> QED
    BY <2>2, <2>3
<1>2. ASSUME NEW x \in ToSet(t) PROVE x \in ToSet(s)
  <2>1. PICK k \in 1 .. Len(s) - 1 : x = t[k]
    BY <1>2 DEF ToSet
  <2>2. k + 1 \in DOMAIN s /\ s[k + 1] = x
    BY <2>1
  <2> QED
    BY <2>2 DEF ToSet
<1>3. 1 \in DOMAIN s
  OBVIOUS
<1>4. s[1] \in ToSet(s)
  BY <1>3 DEF ToSet
<1>5. ToSet(s) \subseteq S
  BY ElementOfSeq DEF ToSet
<1> QED
  BY <1>1, <1>2, <1>4, <1>5

\* The tail of a sequence without repeats has none, and its head is not in it.
LEMMA TailOnce ==
    ASSUME NEW S, NEW s \in Seq(S), s # <<>>,
           \A i, j \in DOMAIN s : s[i] = s[j] => i = j
    PROVE  /\ \A i, j \in DOMAIN Tail(s) : Tail(s)[i] = Tail(s)[j] => i = j
           /\ Head(s) \notin ToSet(Tail(s))
<1>0. /\ Head(s) = s[1]
      /\ Len(s) \in Nat \ {0} /\ DOMAIN s = 1 .. Len(s)
      /\ DOMAIN Tail(s) = 1 .. Len(s) - 1
      /\ \A k \in 1 .. Len(s) - 1 : Tail(s)[k] = s[k + 1]
  BY TailIs
<1> PICK t : t = Tail(s)
  OBVIOUS
<1>1. ASSUME NEW i \in DOMAIN t, NEW j \in DOMAIN t, t[i] = t[j]
      PROVE  i = j
  <2>1. i + 1 \in DOMAIN s /\ j + 1 \in DOMAIN s /\ s[i + 1] = s[j + 1]
    BY <1>1, <1>0
  <2>2. i + 1 = j + 1
    BY <2>1
  <2> QED
    BY <2>2
<1>2. ASSUME NEW i \in DOMAIN t, t[i] = s[1]
      PROVE  FALSE
  <2>1. i + 1 \in DOMAIN s /\ 1 \in DOMAIN s /\ s[i + 1] = s[1]
    BY <1>2, <1>0
  <2>2. i + 1 = 1
    BY <2>1
  <2> QED
    BY <2>2
<1> QED
  BY <1>1, <1>2, <1>0 DEF ToSet

\* The elements of a sequence are of its set; an empty one has none.
LEMMA HoldsType ==
    /\ \A S : \A s \in Seq(S) : ToSet(s) \subseteq S
    /\ ToSet(<<>>) = {}
<1>1. ASSUME NEW S, NEW s \in Seq(S) PROVE ToSet(s) \subseteq S
  BY LenProperties, ElementOfSeq DEF ToSet
<1> QED
  BY <1>1 DEF ToSet

\* A sequence without repeats of a finite set has each of its elements once.
LEMMA EachOnce ==
    ASSUME NEW S, IsFiniteSet(S), NEW s \in SetToSeqs(S)
    PROVE  /\ s \in Seq(S) /\ DOMAIN s = 1 .. Len(s) /\ Len(s) \in Nat
           /\ Len(s) = Cardinality(S)
           /\ \A i, j \in DOMAIN s : s[i] = s[j] => i = j
           /\ \A x \in S : \E i \in DOMAIN s : s[i] = x
<1> DEFINE D == 1 .. Cardinality(S)
<1>1. Cardinality(S) \in Nat
  BY FS_CardinalityType
<1>2. /\ s \in [D -> S]
      /\ \A i, j \in D : i # j => s[i] # s[j]
  BY DEF SetToSeqs
<1>3. IsFiniteSet(D) /\ Cardinality(D) = Cardinality(S)
  BY <1>1, FS_Interval
<1>4. s \in Injection(D, S)
  BY <1>2 DEF Injection, IsInjective
<1>5. s \in Surjection(D, S)
  BY <1>3, <1>4, FS_Injection
<1>6. s \in Seq(S) /\ DOMAIN s = D /\ Len(s) = Cardinality(S)
  BY <1>1, <1>2, IsASeq, LenProperties
<1>7. \A x \in S : \E i \in D : s[i] = x
  BY <1>5 DEF Surjection
<1> QED
  BY <1>1, <1>2, <1>6, <1>7

\* The places of a sequence since a tick are finitely many.
LEMMA SinceType ==
    ASSUME NEW s \in Seq(Nat), NEW tick \in Nat
    PROVE  /\ IsFiniteSet(Since(s, tick))
           /\ Cardinality(Since(s, tick)) \in Nat
           /\ Cardinality(Since(s, tick)) <= Len(s)
<1>1. DOMAIN s = 1 .. Len(s) /\ Len(s) \in Nat
  BY LenProperties
<1>2. IsFiniteSet(1 .. Len(s)) /\ Cardinality(1 .. Len(s)) = Len(s)
  <2>1. \A n \in Nat : IsFiniteSet(1 .. n) /\ Cardinality(1 .. n) = n
    BY FS_Interval
  <2> QED
    BY <1>1, <2>1
<1>3. Since(s, tick) \subseteq 1 .. Len(s)
  BY <1>1 DEF Since
<1> QED
  BY <1>2, <1>3, FS_Subset, FS_CardinalityType

\* One more with every event since.
LEMMA SinceAppend ==
    ASSUME NEW s \in Seq(Nat), NEW tick \in Nat, NEW t \in Nat, t >= tick
    PROVE  Cardinality(Since(Append(s, t), tick)) = Cardinality(Since(s, tick)) + 1
<1> PICK a \in Seq(Nat) : Longer(a, s, t)
  BY AppendGives
<1> USE DEF Longer
<1>1. Since(a, tick) = Since(s, tick) \union {Len(s) + 1}
  <2>1. ASSUME NEW k \in Since(a, tick) PROVE k \in Since(s, tick) \union {Len(s) + 1}
    <3>1. k \in 1 .. Len(s) + 1 /\ a[k] >= tick
      BY <2>1 DEF Since
    <3>2. k = Len(s) + 1 \/ k \in 1 .. Len(s)
      BY <3>1
    <3> QED
      BY <3>1, <3>2 DEF Since
  <2>2. ASSUME NEW k \in Since(s, tick) PROVE k \in Since(a, tick)
    <3>1. k \in 1 .. Len(s) /\ s[k] >= tick
      BY <2>2 DEF Since
    <3>2. k \in 1 .. Len(s) + 1 /\ a[k] >= tick
      BY <3>1
    <3> QED
      BY <3>2 DEF Since
  <2>3. Len(s) + 1 \in DOMAIN a /\ a[Len(s) + 1] >= tick
    OBVIOUS
  <2>4. Len(s) + 1 \in Since(a, tick)
    BY <2>3 DEF Since
  <2> QED
    BY <2>1, <2>2, <2>4
<1>2. ~ (Len(s) + 1 \in Since(s, tick))
  BY DEF Since
<1>3. IsFiniteSet(Since(s, tick))
  BY SinceType
<1> QED
  BY <1>1, <1>2, <1>3, FS_AddElement

\* And none more with an event before.
LEMMA SinceAppendBefore ==
    ASSUME NEW s \in Seq(Nat), NEW tick \in Nat, NEW t \in Nat, t < tick
    PROVE  Since(Append(s, t), tick) = Since(s, tick)
<1> PICK a \in Seq(Nat) : Longer(a, s, t)
  BY AppendGives
<1> USE DEF Longer
<1>1. ASSUME NEW k \in Since(a, tick) PROVE k \in Since(s, tick)
  <2>1. k \in 1 .. Len(s) + 1 /\ a[k] >= tick
    BY <1>1 DEF Since
  <2>2. k \in 1 .. Len(s)
    BY <2>1
  <2> QED
    BY <2>1, <2>2 DEF Since
<1>2. ASSUME NEW k \in Since(s, tick) PROVE k \in Since(a, tick)
  <2>1. k \in 1 .. Len(s) /\ s[k] >= tick
    BY <1>2 DEF Since
  <2>2. k \in 1 .. Len(s) + 1 /\ a[k] >= tick
    BY <2>1
  <2> QED
    BY <2>2 DEF Since
<1> QED
  BY <1>1, <1>2

\* A part of the window that keeps what is since a tick has as much since then.
LEMMA KeepingIs ==
    ASSUME window \in Seq(Nat), NEW S \in SUBSET DOMAIN window, NEW w \in Keeping(S)
    PROVE  /\ w \in Seq(Nat)
           /\ \A tick \in Nat : (\A i \in DOMAIN window : window[i] >= tick => i \in S) =>
                 Cardinality(Since(w, tick)) = Cardinality(Since(window, tick))
<1>1. DOMAIN window = 1 .. Len(window) /\ Len(window) \in Nat
      /\ \A i \in DOMAIN window : window[i] \in Nat
  BY LenProperties, ElementOfSeq
<1>2. IsFiniteSet(S)
  <2>1. IsFiniteSet(1 .. Len(window)) /\ S \subseteq 1 .. Len(window)
    BY <1>1, FS_Interval
  <2> QED
    BY <2>1, FS_Subset
<1>3. PICK p \in InOrder(S) : w = [k \in DOMAIN p |-> window[p[k]]]
  BY DEF Keeping
<1>4. /\ p \in Seq(S) /\ DOMAIN p = 1 .. Len(p) /\ Len(p) \in Nat
      /\ \A i, j \in DOMAIN p : p[i] = p[j] => i = j
      /\ \A x \in S : \E i \in DOMAIN p : p[i] = x
  BY <1>2, EachOnce DEF InOrder
<1>5. \A k \in DOMAIN p : p[k] \in S
  BY <1>4, ElementOfSeq
<1>6. w \in Seq(Nat) /\ DOMAIN w = DOMAIN p
  <2>1. \A k \in 1 .. Len(p) : window[p[k]] \in Nat
    BY <1>1, <1>4, <1>5
  <2>2. [k \in 1 .. Len(p) |-> window[p[k]]] \in Seq(Nat)
    BY <1>4, <2>1, IsASeq
  <2> QED
    BY <1>3, <1>4, <2>2
<1>7. ASSUME NEW tick \in Nat, \A i \in DOMAIN window : window[i] >= tick => i \in S
      PROVE  Cardinality(Since(w, tick)) = Cardinality(Since(window, tick))
  <2> DEFINE A == Since(w, tick)
             B == Since(window, tick)
             f == [k \in A |-> p[k]]
  <2>1. \A k : k \in A <=> k \in DOMAIN p /\ window[p[k]] >= tick
    BY <1>3, <1>6 DEF Since
  <2>2. \A i : i \in B <=> i \in DOMAIN window /\ window[i] >= tick
    BY DEF Since
  <2>3. IsFiniteSet(A) /\ IsFiniteSet(B)
    BY <1>6, SinceType
  <2> HIDE DEF A, B
  <2>4. f \in [A -> B]
    BY <1>5, <2>1, <2>2
  <2>5. \A j, k \in A : f[j] = f[k] => j = k
    BY <1>4, <2>1
  <2>6. \A i \in B : \E k \in A : f[k] = i
    <3>1. SUFFICES ASSUME NEW i \in B PROVE \E k \in A : f[k] = i
      OBVIOUS
    <3>2. i \in S /\ window[i] >= tick
      BY <1>7, <2>2
    <3>3. PICK k \in DOMAIN p : p[k] = i
      BY <1>4, <3>2
    <3>4. k \in A
      BY <2>1, <3>2, <3>3
    <3> QED
      BY <3>3, <3>4
  <2> HIDE DEF f
  <2>7. f \in Bijection(A, B)
    BY <2>4, <2>5, <2>6 DEF Bijection, Injection, IsInjective, Surjection
  <2>8. ExistsBijection(A, B)
    BY <2>7 DEF ExistsBijection
  <2>9. Cardinality(B) = Cardinality(A)
    BY <2>3, <2>8, FS_Bijection
  <2> QED
    BY <2>9 DEF A, B
<1> QED
  BY <1>6, <1>7

\* The numbers of a finite set in ascending order.
LEMMA InOrderIs ==
    ASSUME NEW S \in SUBSET Nat, IsFiniteSet(S), NEW s \in InOrder(S)
    PROVE  /\ s \in Seq(Nat) /\ \A i \in DOMAIN s : s[i] \in S
           /\ \A i, j \in DOMAIN s : i < j => s[i] < s[j]
<1>1. s \in Seq(S) /\ \A i, j \in DOMAIN s : i < j => s[i] < s[j]
  BY EachOnce DEF InOrder
<1>2. \A i \in DOMAIN s : s[i] \in S
  BY <1>1, LenProperties, ElementOfSeq
<1>3. s \in Seq(Nat)
  BY <1>1, SeqMonotonic
<1> QED
  BY <1>1, <1>2, <1>3

-------------------------------------------------------------------------------
(* The connections.                                                        *)

\* Every set of natural numbers has a least member.
LEMMA LeastMember ==
    ASSUME NEW T, T \subseteq Nat, T # {}
    PROVE  \E m \in T : \A n \in T : m <= n
<1>1. PICK m \in T : \A n \in T : ~ (<<n, m>> \in OpToRel(<, Nat))
  BY NatLessThanWellFounded, WFMin
<1>2. \A n \in T : ~ (n < m)
  BY <1>1 DEF OpToRel
<1> QED
  BY <1>2

USE CountAssumption, MountAssumption, ConnAssumption

\* The next connection is one that was not used yet.
LEMMA NextConnIs ==
    ASSUME Unused # {}
    PROVE  NextConn \in Conns /\ net[NextConn] = "unused"
<1>1. Unused \subseteq Nat
  BY DEF Unused
<1>2. \E c \in Unused : \A d \in Unused : c <= d
  BY <1>1, LeastMember
<1>3. NextConn \in Unused
  BY <1>2 DEF NextConn
<1> QED
  BY <1>3 DEF Unused

\* The page opens one connection, or two of which the first is broken at once.
LEMMA MountIs ==
    ASSUME TypeInv, Mount
    PROVE  \E c \in Conns, d \in Conns :
              \/ /\ Mounts = 1 /\ timers' = 0
                 /\ net' = [net EXCEPT ![d] = "connecting"]
                 /\ handler' = [handler EXCEPT ![d] = "accept"]
              \/ /\ Mounts = 2 /\ timers' = 1 /\ c # d
                 /\ net' = [net EXCEPT ![c] = "broken", ![d] = "connecting"]
                 /\ handler' = [handler EXCEPT ![c] = "accept", ![d] = "accept"]
<1>1. Unused = Conns /\ Conns # {} /\ Conns \subseteq Nat
  <2>1. Conns # {}
    BY FS_EmptySet
  <2> QED
    BY <2>1 DEF Mount, Unused
<1>2. NextConn \in Conns
  BY <1>1, NextConnIs
<1>3. CASE Mounts = 1
  BY <1>2, <1>3 DEF Mount
<1>4. CASE Mounts = 2
  <2> DEFINE second == CHOOSE d \in Unused \ {NextConn} : \A e \in Unused \ {NextConn} : d <= e
  <2>1. Unused \ {NextConn} # {}
    <3>1. SUFFICES ASSUME Unused \ {NextConn} = {} PROVE FALSE
      OBVIOUS
    <3>2. Conns = {NextConn}
      BY <1>1, <1>2, <3>1
    <3>3. Cardinality({NextConn}) = 1
      BY FS_Singleton
    <3> QED
      BY <1>4, <3>2, <3>3
  <2>2. \E d \in Unused \ {NextConn} : \A e \in Unused \ {NextConn} : d <= e
    <3>1. Unused \ {NextConn} \subseteq Nat
      BY <1>1
    <3> QED
      BY <2>1, <3>1, LeastMember
  <2>3. second \in Unused \ {NextConn}
    BY <2>2
  <2>4. /\ timers' = 1
        /\ net' = [net EXCEPT ![NextConn] = "broken", ![second] = "connecting"]
        /\ handler' = [handler EXCEPT ![NextConn] = "accept", ![second] = "accept"]
    BY <1>4 DEF Mount
  <2> HIDE DEF second
  <2>5. second \in Conns /\ NextConn # second
    BY <1>1, <2>3
  <2> QED
    BY <1>2, <1>4, <2>4, <2>5
<1> QED
  BY <1>3, <1>4

\* The page opens connections that were not used yet, and each gets a handler.
LEMMA OpenedAre ==
    ASSUME TypeInv, Mount \/ Reconnect
    PROVE  \A c \in Conns :
              \/ net'[c] = net[c] /\ handler'[c] = handler[c]
              \/ net[c] = "unused" /\ net'[c] \in {"connecting", "broken"} /\ handler'[c] = "accept"
<1>1. CASE Mount
  <2>1. \A c \in Conns : net[c] = "unused"
    BY <1>1 DEF Mount
  <2>2. PICK c \in Conns, d \in Conns :
            \/ /\ net' = [net EXCEPT ![d] = "connecting"]
               /\ handler' = [handler EXCEPT ![d] = "accept"]
            \/ /\ net' = [net EXCEPT ![c] = "broken", ![d] = "connecting"]
               /\ handler' = [handler EXCEPT ![c] = "accept", ![d] = "accept"]
    BY <1>1, MountIs
  <2>3. DOMAIN net = Conns /\ DOMAIN handler = Conns
    BY DEF TypeInv
  <2>4. ASSUME NEW x \in Conns, x # c, x # d
        PROVE  net'[x] = net[x] /\ handler'[x] = handler[x]
    BY <2>2, <2>3, <2>4
  <2>5. net'[d] = "connecting" /\ handler'[d] = "accept"
    BY <2>2, <2>3
  <2>6. ASSUME c # d
        PROVE  \/ net'[c] = net[c] /\ handler'[c] = handler[c]
               \/ net'[c] = "broken" /\ handler'[c] = "accept"
    BY <2>2, <2>3, <2>6
  <2> QED
    BY <2>1, <2>4, <2>5, <2>6
<1>2. CASE Reconnect
  BY <1>2, NextConnIs DEF Reconnect, TypeInv
<1> QED
  BY <1>1, <1>2

\* The open connections are finitely many.
LEMMA AliveType ==
    /\ Alive \subseteq Conns /\ IsFiniteSet(Alive) /\ Cardinality(Alive) \in Nat
<1>1. Alive \subseteq Conns /\ IsFiniteSet(Conns)
  BY DEF Alive
<1> QED
  BY <1>1, FS_Subset, FS_CardinalityType

-------------------------------------------------------------------------------
(* The types.                                                              *)

\* An offset the consumer is given lies at or above the one it reads on from.
LEMMA AssignTypes ==
    ASSUME TypeInv, NEW offset \in Nat, offset <= position, Assign(offset)
    PROVE  /\ position' \in Nat /\ offset \in 0 .. position' /\ base' \in Nat
           /\ reread' \in [1 .. Events -> Nat]
<1>1. position \in Nat /\ base \in Nat /\ reread \in [1 .. Events -> Nat]
  BY DEF TypeInv
<1>2. CASE offset = 0
  BY <1>1, <1>2 DEF Assign
<1>3. CASE offset > 0
  <2>1. \A e \in 1 .. Events :
            (IF offset < e /\ e <= position THEN reread[e] + 1 ELSE reread[e]) \in Nat
    BY <1>1
  <2>2. /\ position' = offset /\ base' = base
        /\ reread' = [e \in 1 .. Events |->
                         IF offset < e /\ e <= position THEN reread[e] + 1 ELSE reread[e]]
    BY <1>3 DEF Assign
  <2> QED
    BY <1>1, <2>1, <2>2
<1> QED
  BY <1>2, <1>3

\* What is committed by now is no more than what was read.
LEMMA AutoCommittedType ==
    ASSUME TypeInv, NEW n \in AutoCommitted
    PROVE  n \in 0 .. position
BY DEF TypeInv, AutoCommitted

\* The consumer task keeps the types.
LEMMA TaskTypes ==
    ASSUME TypeInv, BroadcastInv, TaskStep
    PROVE  TypeInv'
<1> USE DEF kafkaVars, taskVars, serverVars, pageVars, historyVars
<1>1. CASE Start
  <2>1. /\ Assign(committed) /\ committed' = committed /\ task' = "poll"
        /\ UNCHANGED <<clock, events, window, targets, dead, serverVars, net, pageVars,
                       allowed, sent, joined, got, shown>>
    BY <1>1 DEF Start
  <2>2. committed \in Nat /\ committed <= position
    BY DEF TypeInv
  <2>3. /\ position' \in Nat /\ committed \in 0 .. position' /\ base' \in Nat
        /\ reread' \in [1 .. Events -> Nat]
    BY <2>1, <2>2, AssignTypes
  <2> QED
    BY <2>1, <2>2, <2>3 DEF TypeInv
<1>2. CASE Poll
  <2>1. PICK n \in 1 .. DrainMax :
            /\ position' = position + n
            /\ events' \in InOrder((position + 1 .. position + n) \ Garbage)
    BY <1>2 DEF Poll
  <2>2. (position + 1 .. position + n) \ Garbage \in SUBSET Nat
    BY DEF TypeInv
  <2>3. IsFiniteSet(position + 1 .. position + n)
    BY FS_Interval DEF TypeInv
  <2>4. IsFiniteSet((position + 1 .. position + n) \ Garbage)
    BY <2>3, FS_Subset
  <2>5. events' \in Seq(Nat)
    BY <2>1, <2>2, <2>4, InOrderIs
  <2>6. position' \in Nat /\ committed' \in 0 .. position'
    BY <1>2, <2>1 DEF TypeInv, Poll
  <2> QED
    BY <1>2, <2>5, <2>6 DEF TypeInv, Poll
<1>3. CASE Drops
  <2>1. window' \in Recent
    BY <1>3 DEF Drops
  <2>2. window' \in Seq(Nat)
    BY <2>1, KeepingIs DEF Recent, TypeInv
  <2>3. Tail(events) \in Seq(Nat)
    BY <1>3, TailIs DEF TypeInv, Drops
  <2> QED
    BY <1>3, <2>2, <2>3 DEF TypeInv, Drops
<1>4. CASE Broadcast
  <2>1. PICK recent \in Recent : window' = Append(recent, clock)
    BY <1>4 DEF Broadcast
  <2>2. recent \in Seq(Nat)
    BY <2>1, KeepingIs DEF Recent, TypeInv
  <2>3. window' \in Seq(Nat) /\ Append(allowed, clock) \in Seq(Nat)
    BY <2>1, <2>2, AppendIs DEF TypeInv
  <2>4. Head(events) \in Nat
    BY <1>4, TailIs DEF TypeInv, Broadcast
  <2>5. Append(sent, Head(events)) \in Seq(Nat)
    BY <2>4, AppendIs DEF TypeInv
  <2>6. IsFiniteSet(clients)
    BY FS_Subset DEF TypeInv
  <2>7. targets' \in Seq(Conns)
    <3>1. targets' \in Seq(clients)
      BY <1>4, <2>6, EachOnce DEF Broadcast
    <3> QED
      BY <3>1, SeqMonotonic DEF TypeInv
  <2> QED
    BY <1>4, <2>3, <2>5, <2>7 DEF TypeInv, Broadcast
<1>5. CASE Send
  <2>1. Head(targets) \in Conns /\ Tail(targets) \in Seq(Conns)
    BY <1>5, TailIs DEF TypeInv, Send
  <2>2. Head(events) \in Nat
    BY <1>5, TailIs DEF TypeInv, Send, BroadcastInv
  <2>3. \A c \in Conns : Append(got[c], Head(events)) \in Seq(Nat)
    BY <2>2, AppendIs DEF TypeInv
  <2>4. got' \in [Conns -> Seq(Nat)]
    BY <1>5, <2>1, <2>3 DEF TypeInv, Send
  <2>5. shown' \in [1 .. Events -> Nat]
    <3>1. PICK h \in Nat : h = Head(events)
      BY <2>2
    <3>2. shown' = [shown EXCEPT ![h] = shown[h] + 1] /\ shown \in [1 .. Events -> Nat]
      BY <1>5, <3>1 DEF TypeInv, Send
    <3>3. h \in 1 .. Events => shown[h] + 1 \in Nat
      BY <3>2
    <3>4. shown' = [e \in 1 .. Events |-> IF e = h THEN shown[h] + 1 ELSE shown[e]]
      BY <3>2
    <3> QED
      BY <3>2, <3>3, <3>4
  <2> QED
    BY <1>5, <2>1, <2>4, <2>5 DEF TypeInv, Send
<1>6. CASE SendRaises
  <2>1. Head(targets) \in Conns /\ Tail(targets) \in Seq(Conns)
    BY <1>6, TailIs DEF TypeInv, SendRaises
  <2> QED
    BY <1>6, <2>1 DEF TypeInv, SendRaises
<1>7. CASE SendDone
  <2>1. Tail(events) \in Seq(Nat)
    BY <1>7, TailIs DEF TypeInv, SendDone, BroadcastInv
  <2> QED
    BY <1>7, <2>1 DEF TypeInv, SendDone
<1>8. CASE PollAgain
  BY <1>8 DEF TypeInv, PollAgain
<1> QED
  BY <1>1, <1>2, <1>3, <1>4, <1>5, <1>6, <1>7, <1>8 DEF TaskStep

\* So do the handlers.
LEMMA HandlerTypes ==
    ASSUME TypeInv, NEW c \in Conns, Accept(c) \/ Add(c) \/ PingRaises(c)
    PROVE  TypeInv'
<1> USE DEF kafkaVars, taskVars, serverVars, pageVars, historyVars
<1>1. CASE Accept(c)
  <2>1. /\ net' \in [Conns -> {"unused", "connecting", "up", "stalled", "broken"}]
        /\ handler' \in [Conns -> {"none", "accept", "add", "loop", "ended"}]
    BY <1>1 DEF TypeInv, Accept
  <2> QED
    BY <1>1, <2>1 DEF TypeInv, Accept
<1>2. CASE Add(c)
  <2>1. Len(sent) \in Nat
    BY LenProperties DEF TypeInv
  <2> QED
    BY <1>2, <2>1 DEF TypeInv, Add
<1>3. CASE PingRaises(c)
  BY <1>3 DEF TypeInv, PingRaises
<1> QED
  BY <1>1, <1>2, <1>3

\* A timer for each of the sockets that closed is a number of timers.
LEMMA OnCloseType ==
    ASSUME TypeInv, NEW B \in SUBSET Conns, OnClose(B)
    PROVE  timers' \in Nat
<1>1. Cardinality(B) \in Nat
  BY FS_Subset, FS_CardinalityType
<1> QED
  BY <1>1 DEF OnClose, TypeInv

\* So do the page, the network and the end of the process.
LEMMA PageTypes ==
    ASSUME TypeInv, BroadcastInv,
           \/ Mount \/ Reconnect \/ TabCloses \/ Rebalance \/ ProcessEnds
           \/ \E c \in Conns : Break(c) \/ Stall(c) \/ KeepaliveTimeout(c)
    PROVE  TypeInv'
<1> USE DEF kafkaVars, taskVars, serverVars, pageVars, historyVars
<1>1. CASE Mount
  <2>1. PICK c \in Conns, d \in Conns :
              \/ /\ Mounts = 1 /\ timers' = 0
                 /\ net' = [net EXCEPT ![d] = "connecting"]
                 /\ handler' = [handler EXCEPT ![d] = "accept"]
              \/ /\ Mounts = 2 /\ timers' = 1 /\ c # d
                 /\ net' = [net EXCEPT ![c] = "broken", ![d] = "connecting"]
                 /\ handler' = [handler EXCEPT ![c] = "accept", ![d] = "accept"]
    BY <1>1, MountIs
  <2>2. net' \in [Conns -> {"unused", "connecting", "up", "stalled", "broken"}]
    BY <2>1 DEF TypeInv
  <2>3. handler' \in [Conns -> {"none", "accept", "add", "loop", "ended"}]
    BY <2>1 DEF TypeInv
  <2>4. timers' \in Nat
    BY <2>1
  <2>5. UNCHANGED <<clock, kafkaVars, taskVars, clients, closed, historyVars>> /\ mounted' = TRUE
    BY <1>1 DEF Mount
  <2> QED
    BY <2>2, <2>3, <2>4, <2>5 DEF TypeInv
<1>2. CASE Reconnect
  <2>1. NextConn \in Conns
    BY <1>2, NextConnIs DEF Reconnect
  <2>2. timers - 1 \in Nat
    BY <1>2 DEF TypeInv, Reconnect
  <2> QED
    BY <1>2, <2>1, <2>2 DEF TypeInv, Reconnect
<1>3. CASE TabCloses
  <2>1. net' \in [Conns -> {"unused", "connecting", "up", "stalled", "broken"}]
    BY <1>3 DEF TypeInv, TabCloses
  <2> QED
    BY <1>3, <2>1 DEF TypeInv, TabCloses
<1>4. CASE ProcessEnds
  <2>1. /\ net' \in [Conns -> {"unused", "connecting", "up", "stalled", "broken"}]
        /\ handler' \in [Conns -> {"none", "accept", "add", "loop", "ended"}]
    BY <1>4 DEF TypeInv, ProcessEnds
  <2>2. timers' \in Nat
    BY <1>4, OnCloseType, AliveType DEF ProcessEnds
  <2>3. /\ events' \in Seq(Nat) /\ window' \in Seq(Nat) /\ targets' \in Seq(Conns)
        /\ allowed' \in Seq(Nat)
    BY <1>4, EmptySeq DEF ProcessEnds
  <2>4. UNCHANGED <<sent, joined, got, shown, reread>>
    BY <1>4 DEF ProcessEnds
  <2>5. position' \in Nat /\ committed' \in 0 .. position'
    BY <1>4, AutoCommittedType DEF TypeInv, ProcessEnds
  <2> QED
    BY <1>4, <2>1, <2>2, <2>3, <2>4, <2>5 DEF TypeInv, ProcessEnds
<1>5. ASSUME NEW c \in Conns, Break(c) \/ KeepaliveTimeout(c)
      PROVE  TypeInv'
  <2>1. OnClose({c}) /\ net' = [net EXCEPT ![c] = "broken"]
    BY <1>5 DEF Break, KeepaliveTimeout
  <2>2. timers' \in Nat
    BY <2>1, OnCloseType
  <2>3. net' \in [Conns -> {"unused", "connecting", "up", "stalled", "broken"}]
    BY <2>1 DEF TypeInv
  <2>4. UNCHANGED <<clock, kafkaVars, taskVars, serverVars, mounted, historyVars>>
    BY <1>5 DEF Break, KeepaliveTimeout
  <2> QED
    BY <2>2, <2>3, <2>4 DEF TypeInv
<1>6. ASSUME NEW c \in Conns, Stall(c)
      PROVE  TypeInv'
  BY <1>6 DEF TypeInv, Stall
<1>7. CASE Rebalance
  <2>1. /\ committed' \in AutoCommitted /\ Assign(committed')
        /\ UNCHANGED <<clock, taskVars, serverVars, net, pageVars, allowed, sent, joined, got,
                       shown>>
    BY <1>7 DEF Rebalance
  <2>2. PICK offset \in Nat : offset = committed' /\ offset <= position
    <3>1. PICK n \in AutoCommitted : n = committed'
      BY <2>1
    <3>2. n \in 0 .. position /\ position \in Nat
      BY AutoCommittedType DEF TypeInv
    <3> QED
      BY <3>1, <3>2
  <2>3. /\ position' \in Nat /\ offset \in 0 .. position' /\ base' \in Nat
        /\ reread' \in [1 .. Events -> Nat]
    BY <2>1, <2>2, AssignTypes
  <2>4. position' \in Nat /\ committed' \in 0 .. position'
    BY <2>2, <2>3
  <2>5. /\ UNCHANGED <<clock, task, events, window, targets, dead, clients, handler, closed>>
        /\ UNCHANGED <<net, mounted, timers, allowed, sent, joined, got, shown>>
    BY <2>1
  <2> QED
    BY <2>3, <2>4, <2>5 DEF TypeInv
<1> QED
  BY <1>1, <1>2, <1>3, <1>4, <1>5, <1>6, <1>7

\* Every step keeps the types.
LEMMA TypeKept ==
    ASSUME TypeInv, BroadcastInv, [Next]_vars
    PROVE  TypeInv'
<1> USE DEF kafkaVars, taskVars, serverVars, pageVars, historyVars
<1>1. CASE Tick
  <2>1. clock' \in Nat
    BY <1>1 DEF TypeInv, Tick
  <2>2. UNCHANGED <<kafkaVars, taskVars, serverVars, net, pageVars, historyVars>>
    BY <1>1 DEF Tick
  <2> QED
    BY <2>1, <2>2 DEF TypeInv
<1>2. CASE UNCHANGED vars
  BY <1>2 DEF TypeInv, vars
<1> QED
  BY <1>1, <1>2, TaskTypes, HandlerTypes, PageTypes DEF Next

-------------------------------------------------------------------------------
(* The broadcast under way.                                                *)

\* The steps that are not the consumer task's, nor the end of the process.
LEMMA OtherSteps ==
    ASSUME [Next]_vars
    PROVE  \/ TaskStep \/ ProcessEnds
           \/ UNCHANGED <<task, events, targets, window, allowed, sent, got>>
<1>1. ASSUME NEW c \in Conns, Accept(c) \/ Add(c) \/ PingRaises(c)
      PROVE  UNCHANGED <<task, events, targets, window, allowed, sent, got>>
  BY <1>1 DEF Accept, Add, PingRaises, kafkaVars, taskVars, historyVars
<1>2. ASSUME NEW c \in Conns, Break(c) \/ Stall(c) \/ KeepaliveTimeout(c)
      PROVE  UNCHANGED <<task, events, targets, window, allowed, sent, got>>
  BY <1>2 DEF Break, Stall, KeepaliveTimeout, kafkaVars, taskVars, historyVars
<1>3. CASE Tick \/ Mount \/ Reconnect \/ TabCloses
  BY <1>3 DEF Tick, Mount, Reconnect, TabCloses, kafkaVars, taskVars, historyVars
<1>4. CASE Rebalance \/ UNCHANGED vars
  BY <1>4 DEF Rebalance, vars, taskVars
<1> QED
  BY <1>1, <1>2, <1>3, <1>4 DEF Next

\* Every step keeps what is known of the broadcast.
LEMMA BroadcastKept ==
    ASSUME TypeInv, BroadcastInv, [Next]_vars
    PROVE  BroadcastInv'
<1> USE DEF kafkaVars, taskVars, serverVars, pageVars, historyVars
<1>1. CASE UNCHANGED <<task, events, targets, sent>>
  BY <1>1 DEF BroadcastInv
<1>2. CASE Start \/ Poll \/ Drops \/ PollAgain
  <2>1. task' # "send" /\ task # "send" /\ targets' = targets
    BY <1>2 DEF Start, Poll, Drops, PollAgain
  <2> QED
    BY <2>1 DEF BroadcastInv
<1>3. CASE Broadcast
  <2>1. targets' \in SetToSeqs(clients) /\ IsFiniteSet(clients)
    BY <1>3, FS_Subset DEF Broadcast, TypeInv
  <2>2. \A i, j \in DOMAIN targets' : targets'[i] = targets'[j] => i = j
    BY <2>1, EachOnce
  <2>3. Head(events) \in Nat /\ events # <<>> /\ events' = events /\ task' = "send"
        /\ sent' = Append(sent, Head(events))
    BY <1>3, TailIs DEF Broadcast, TypeInv
  <2>4. sent' # <<>> /\ sent'[Len(sent')] = Head(events)
    <3>1. sent' \in Seq(Nat) /\ Len(sent') = Len(sent) + 1 /\ Len(sent) \in Nat
          /\ sent'[Len(sent) + 1] = Head(events)
      BY <2>3, AppendIs DEF TypeInv
    <3> QED
      BY <3>1, EmptySeq
  <2> QED
    BY <2>2, <2>3, <2>4 DEF BroadcastInv
<1>4. CASE Send \/ SendRaises
  <2>1. UNCHANGED <<task, events, sent>> /\ targets' = Tail(targets) /\ task = "send"
        /\ targets # <<>>
    BY <1>4 DEF Send, SendRaises
  <2>2. \A i, j \in DOMAIN targets' : targets'[i] = targets'[j] => i = j
    BY <2>1, TailOnce DEF TypeInv, BroadcastInv
  <2> QED
    BY <2>1, <2>2 DEF BroadcastInv
<1>5. CASE SendDone
  BY <1>5 DEF SendDone, BroadcastInv
<1>6. CASE ProcessEnds
  <2>1. task' = "down" /\ targets' = <<>> /\ DOMAIN targets' = {}
    BY <1>6 DEF ProcessEnds
  <2> QED
    BY <2>1 DEF BroadcastInv
<1> QED
  BY <1>1, <1>2, <1>3, <1>4, <1>5, <1>6, OtherSteps DEF TaskStep

-------------------------------------------------------------------------------
(* The connections.                                                        *)

\* The clients a broadcast has still to reach are those of its sequence.
LEMMA TargetsOf ==
    ASSUME TypeInv, NEW s \in SetToSeqs(clients)
    PROVE  ToSet(s) = clients
<1>1. IsFiniteSet(clients)
  BY FS_Subset DEF TypeInv
<1>2. s \in Seq(clients) /\ \A x \in clients : \E i \in DOMAIN s : s[i] = x
  BY <1>1, EachOnce
<1> QED
  BY <1>2, HoldsType DEF ToSet

\* The consumer task keeps what is known of the connections.
LEMMA ConnsOfTask ==
    ASSUME TypeInv, ConnsInv, BroadcastInv, TaskStep
    PROVE  ConnsInv' /\ UNCHANGED <<net, handler>>
<1> USE DEF kafkaVars, taskVars, serverVars, pageVars, historyVars
<1>1. CASE Start \/ Poll \/ Drops \/ PollAgain
  BY <1>1 DEF Start, Poll, Drops, PollAgain, ConnsInv
<1>2. CASE Broadcast
  <2>1. ToSet(targets') = clients /\ UNCHANGED <<net, handler, clients>>
    BY <1>2, TargetsOf DEF Broadcast
  <2> QED
    BY <2>1 DEF ConnsInv
<1>3. CASE Send \/ SendRaises
  <2>1. targets' = Tail(targets) /\ targets # <<>> /\ UNCHANGED <<net, handler, clients>>
    BY <1>3 DEF Send, SendRaises
  <2>2. ToSet(targets') \subseteq ToSet(targets)
    BY <2>1, TailHolds DEF TypeInv
  <2> QED
    BY <2>1, <2>2 DEF ConnsInv
<1>4. CASE SendDone
  <2>1. clients' \subseteq clients /\ ToSet(targets') = {} /\ UNCHANGED <<net, handler>>
    BY <1>4, HoldsType DEF SendDone
  <2> QED
    BY <2>1 DEF ConnsInv
<1> QED
  BY <1>1, <1>2, <1>3, <1>4 DEF TaskStep

\* Every step keeps what is known of the connections.
LEMMA ConnsKept ==
    ASSUME TypeInv, ConnsInv, BroadcastInv, [Next]_vars
    PROVE  ConnsInv'
<1> USE DEF kafkaVars, taskVars, serverVars, pageVars, historyVars
<1>1. CASE UNCHANGED <<net, handler, clients, targets>>
  BY <1>1 DEF ConnsInv
<1>2. ASSUME NEW c \in Conns, Accept(c)
      PROVE  ConnsInv'
  <2>1. /\ handler[c] = "accept" /\ clients' = clients /\ targets' = targets
        /\ handler'[c] \in {"add", "ended"} /\ net'[c] \in {"up", net[c]}
        /\ net'[c] # "connecting" /\ net[c] # "unused"
        /\ \A d \in Conns : d # c => net'[d] = net[d] /\ handler'[d] = handler[d]
    BY <1>2 DEF Accept, TypeInv, ConnsInv
  <2>2. c \notin clients /\ c \notin ToSet(targets)
    BY <2>1 DEF ConnsInv
  <2>3. clients \union ToSet(targets) \subseteq Conns
    BY HoldsType DEF TypeInv
  <2> QED
    BY <2>1, <2>2, <2>3 DEF ConnsInv
<1>3. ASSUME NEW c \in Conns, Add(c)
      PROVE  ConnsInv'
  <2>1. /\ handler[c] = "add" /\ clients' = clients \union {c}
        /\ UNCHANGED <<net, targets>> /\ handler'[c] = "loop"
        /\ \A d \in Conns : d # c => handler'[d] = handler[d]
    BY <1>3 DEF Add, TypeInv
  <2>2. clients \union ToSet(targets) \subseteq Conns
    BY HoldsType DEF TypeInv
  <2> QED
    BY <2>1, <2>2 DEF ConnsInv
<1>4. ASSUME NEW c \in Conns, PingRaises(c)
      PROVE  ConnsInv'
  <2>1. /\ handler[c] = "loop" /\ net[c] = "broken"
        /\ clients' \subseteq clients /\ clients \ {c} \subseteq clients'
        /\ UNCHANGED <<net, targets>> /\ handler'[c] = "ended"
        /\ \A d \in Conns : d # c => handler'[d] = handler[d]
    BY <1>4 DEF PingRaises, TypeInv
  <2>2. clients \union ToSet(targets) \subseteq Conns
    BY HoldsType DEF TypeInv
  <2> QED
    BY <2>1, <2>2 DEF ConnsInv
<1>5. CASE Mount \/ Reconnect
  <2>1. \A c \in Conns :
            \/ net'[c] = net[c] /\ handler'[c] = handler[c]
            \/ net[c] = "unused" /\ net'[c] \in {"connecting", "broken"} /\ handler'[c] = "accept"
    BY <1>5, OpenedAre
  <2>2. UNCHANGED <<clients, targets>>
    BY <1>5 DEF Mount, Reconnect
  <2>3. clients \union ToSet(targets) \subseteq Conns
    BY HoldsType DEF TypeInv
  <2>4. \A c \in clients \union ToSet(targets) : net'[c] = net[c] /\ handler'[c] = handler[c]
    BY <2>1, <2>3 DEF ConnsInv
  <2>5. \A c \in Conns : net'[c] = "unused" => handler'[c] = "none"
    BY <2>1 DEF ConnsInv
  <2>6. \A c \in Conns : net'[c] = "connecting" => handler'[c] = "accept"
    BY <2>1 DEF ConnsInv
  <2> QED
    BY <2>2, <2>4, <2>5, <2>6 DEF ConnsInv
<1>6. ASSUME \A c \in Conns : net'[c] = net[c] \/ net'[c] \in {"stalled", "broken"},
             UNCHANGED <<handler, clients, targets>>
      PROVE  ConnsInv'
  <2>1. clients \union ToSet(targets) \subseteq Conns
    BY HoldsType DEF TypeInv
  <2> QED
    BY <1>6, <2>1 DEF ConnsInv
<1>7. ASSUME NEW c \in Conns, Break(c) \/ Stall(c) \/ KeepaliveTimeout(c)
      PROVE  ConnsInv'
  <2>1. \A d \in Conns : net'[d] = net[d] \/ net'[d] \in {"stalled", "broken"}
    BY <1>7 DEF Break, Stall, KeepaliveTimeout, TypeInv
  <2>2. UNCHANGED <<handler, clients, targets>>
    BY <1>7 DEF Break, Stall, KeepaliveTimeout
  <2> QED
    BY <2>1, <2>2, <1>6
<1>8. CASE TabCloses
  BY <1>8, <1>6 DEF TabCloses, TypeInv
<1>9. CASE ProcessEnds
  <2>1. \A c \in Conns : /\ net'[c] = "unused" => net[c] = "unused"
                         /\ net'[c] # "connecting"
                         /\ handler[c] = "none" => handler'[c] = "none"
    BY <1>9 DEF ProcessEnds, TypeInv, Alive
  <2>2. clients' = {} /\ ToSet(targets') = {}
    BY <1>9, HoldsType DEF ProcessEnds
  <2> QED
    BY <2>1, <2>2 DEF ConnsInv
<1>10. CASE Tick \/ Rebalance \/ UNCHANGED vars
  BY <1>10, <1>1 DEF Tick, Rebalance, vars
<1> QED
  BY <1>2, <1>3, <1>4, <1>5, <1>7, <1>8, <1>9, <1>10, ConnsOfTask DEF Next

-------------------------------------------------------------------------------
(* The page's sockets.                                                     *)

Open == {"connecting", "up", "stalled"}

\* A socket that closes sets a timer, one that connects used one up.
LEMMA SocketsKept ==
    ASSUME TypeInv, ConnsInv, BroadcastInv, SocketsInv, [Next]_vars
    PROVE  SocketsInv'
<1> USE DEF kafkaVars, taskVars, serverVars, pageVars, historyVars
<1>1. Alive = {c \in Conns : net[c] \in Open} /\ Alive' = {c \in Conns : net'[c] \in Open}
  BY DEF Alive, Open
<1>2. ASSUME Alive' = Alive, UNCHANGED pageVars
      PROVE  SocketsInv'
  BY <1>2 DEF SocketsInv
<1>3. ASSUME UNCHANGED <<net, pageVars>>
      PROVE  SocketsInv'
  BY <1>1, <1>2, <1>3
<1>4. ASSUME NEW c \in Conns, Accept(c) \/ Stall(c)
      PROVE  SocketsInv'
  <2>1. \A d \in Conns : net'[d] \in Open <=> net[d] \in Open
    BY <1>4 DEF Accept, Stall, TypeInv, Open
  <2>2. UNCHANGED pageVars
    BY <1>4 DEF Accept, Stall
  <2> QED
    BY <1>1, <1>2, <2>1, <2>2
<1>5. ASSUME NEW c \in Conns, Break(c) \/ KeepaliveTimeout(c)
      PROVE  SocketsInv'
  <2>1. net[c] \in Open /\ net' = [net EXCEPT ![c] = "broken"] /\ OnClose({c}) /\ mounted' = mounted
    BY <1>1, <1>5 DEF Break, KeepaliveTimeout, Open
  <2>2. c \in Alive /\ Alive' = Alive \ {c}
    BY <1>1, <2>1 DEF TypeInv, Open
  <2>3. mounted /\ Cardinality(Alive) + timers = Mounts
    BY <2>2 DEF SocketsInv, TypeInv
  <2>4. timers' = timers + 1
    BY <2>1, <2>3, FS_Singleton DEF OnClose
  <2>5. Cardinality(Alive \ {c}) = Cardinality(Alive) - 1 /\ Cardinality(Alive) \in Nat
    BY <2>2, AliveType, FS_RemoveElement
  <2>6. Cardinality(Alive') + timers' = Mounts
    BY <2>2, <2>3, <2>4, <2>5 DEF TypeInv
  <2> QED
    BY <2>1, <2>3, <2>6 DEF SocketsInv
<1>6. CASE Mount
  <2>1. PICK c \in Conns, d \in Conns :
              \/ /\ Mounts = 1 /\ timers' = 0
                 /\ net' = [net EXCEPT ![d] = "connecting"]
              \/ /\ Mounts = 2 /\ timers' = 1 /\ c # d
                 /\ net' = [net EXCEPT ![c] = "broken", ![d] = "connecting"]
    BY <1>6, MountIs
  <2>2. mounted' = TRUE /\ \A e \in Conns : net[e] = "unused"
    BY <1>6 DEF Mount
  <2>3. ASSUME NEW e \in Conns
        PROVE  net'[e] \in Open <=> e = d
    <3>1. net[e] = "unused"
      BY <2>2
    <3>2. CASE e = d
      <4>1. net'[e] = "connecting"
        BY <2>1, <3>2 DEF TypeInv
      <4> QED
        BY <3>2, <4>1 DEF Open
    <3>3. CASE e # d
      <4>1. net'[e] \in {"unused", "broken"}
        BY <2>1, <3>1, <3>3 DEF TypeInv
      <4> QED
        BY <3>3, <4>1 DEF Open
    <3> QED
      BY <3>2, <3>3
  <2>4. Alive' = {d}
    BY <1>1, <2>3
  <2>5. Cardinality(Alive') = 1
    BY <2>4, FS_Singleton
  <2> QED
    BY <2>1, <2>2, <2>5 DEF SocketsInv
<1>7. CASE Reconnect
  <2>1. /\ NextConn \in Conns /\ net[NextConn] = "unused" /\ mounted /\ mounted' = mounted
        /\ net' = [net EXCEPT ![NextConn] = "connecting"] /\ timers' = timers - 1
    BY <1>7, NextConnIs DEF Reconnect
  <2>2. NextConn \notin Alive /\ Alive' = Alive \union {NextConn}
    BY <1>1, <2>1 DEF TypeInv, Open
  <2>3. Cardinality(Alive \union {NextConn}) = Cardinality(Alive) + 1
    BY <2>2, AliveType, FS_AddElement
  <2>4. Cardinality(Alive) + timers = Mounts /\ Cardinality(Alive) \in Nat
    BY <2>1, AliveType DEF SocketsInv
  <2>5. Cardinality(Alive') + timers' = Mounts
    BY <2>1, <2>2, <2>3, <2>4 DEF TypeInv
  <2> QED
    BY <2>1, <2>5 DEF SocketsInv
<1>8. CASE TabCloses
  <2>1. ~mounted' /\ \A c \in Conns : net'[c] \notin Open
    BY <1>8 DEF TabCloses, TypeInv, Open
  <2> QED
    BY <1>1, <2>1 DEF SocketsInv
<1>9. CASE ProcessEnds
  <2>1. /\ mounted' = mounted /\ OnClose(Alive)
        /\ \A c \in Conns : net'[c] \notin Open
    BY <1>1, <1>9 DEF ProcessEnds, TypeInv, Open
  <2>2. Alive' = {} /\ Cardinality({}) = 0
    BY <1>1, <2>1, FS_EmptySet
  <2>3. mounted => timers' = timers + Cardinality(Alive)
    BY <2>1 DEF OnClose
  <2>4. mounted => Cardinality(Alive') + timers' = Mounts
    BY <2>2, <2>3, AliveType DEF SocketsInv, TypeInv
  <2> QED
    BY <2>1, <2>2, <2>4 DEF SocketsInv
<1>10. CASE Tick \/ Rebalance \/ UNCHANGED vars
  BY <1>3, <1>10 DEF Tick, Rebalance, vars
<1>11. ASSUME NEW c \in Conns, Add(c) \/ PingRaises(c)
       PROVE  SocketsInv'
  BY <1>3, <1>11 DEF Add, PingRaises
<1>12. CASE TaskStep
  <2>1. UNCHANGED <<net, pageVars>>
    BY <1>12 DEF TaskStep, Start, Poll, Drops, Broadcast, Send, SendRaises, SendDone, PollAgain
  <2> QED
    BY <1>3, <2>1
<1> QED
  BY <1>4, <1>5, <1>6, <1>7, <1>8, <1>9, <1>10, <1>11, <1>12 DEF Next

\* There are never more sockets open than the page is mounted times.
LEMMA FewSockets ==
    ASSUME TypeInv, SocketsInv
    PROVE  Cardinality(Alive) <= Mounts
<1>1. Cardinality(Alive) \in Nat /\ Cardinality({}) = 0
  BY AliveType, FS_EmptySet
<1>2. CASE mounted
  BY <1>1, <1>2 DEF SocketsInv, TypeInv
<1>3. CASE ~mounted
  BY <1>1, <1>3 DEF SocketsInv
<1> QED
  BY <1>2, <1>3

-------------------------------------------------------------------------------
(* The order of the feed.                                                  *)

\* Every step keeps the events in order.
LEMMA OrderKept ==
    ASSUME TypeInv, BroadcastInv, OrderInv, [Next]_vars
    PROVE  OrderInv'
<1> USE DEF kafkaVars, taskVars, serverVars, pageVars, historyVars
<1>1. CASE UNCHANGED <<task, events>>
  BY <1>1 DEF OrderInv
<1>2. CASE Start \/ PollAgain
  <2>1. events' = events /\ events = <<>>
    BY <1>2 DEF Start, PollAgain, OrderInv
  <2> QED
    BY <2>1 DEF OrderInv
<1>3. CASE Poll
  <2>1. PICK n \in 1 .. DrainMax :
            /\ position + n <= Events
            /\ events' \in InOrder((position + 1 .. position + n) \ Garbage)
    BY <1>3 DEF Poll
  <2>2. position \in Nat /\ (position + 1 .. position + n) \ Garbage \in SUBSET Nat
    BY DEF TypeInv
  <2>3. IsFiniteSet(position + 1 .. position + n)
    BY <2>2, FS_Interval
  <2>4. IsFiniteSet((position + 1 .. position + n) \ Garbage)
    BY <2>3, FS_Subset
  <2>5. /\ \A i, j \in DOMAIN events' : i < j => events'[i] < events'[j]
        /\ \A i \in DOMAIN events' : events'[i] \in position + 1 .. position + n
    BY <2>1, <2>2, <2>4, InOrderIs
  <2>6. task' = "deliver"
    BY <1>3 DEF Poll
  <2>7. position + 1 .. position + n \subseteq 1 .. Events
    BY <2>1, <2>2
  <2> QED
    BY <2>5, <2>6, <2>7 DEF OrderInv
<1>4. CASE Drops \/ SendDone
  <2>1. events # <<>> /\ events' = Tail(events) /\ task' = "deliver"
    BY <1>4 DEF Drops, SendDone, BroadcastInv
  <2>2. /\ DOMAIN events = 1 .. Len(events) /\ Len(events) \in Nat
        /\ DOMAIN events' = 1 .. Len(events) - 1
        /\ \A k \in 1 .. Len(events) - 1 : events'[k] = events[k + 1]
    BY <2>1, TailIs DEF TypeInv
  <2>3. ASSUME NEW k \in DOMAIN events'
        PROVE  k + 1 \in DOMAIN events /\ events'[k] = events[k + 1]
    BY <2>2
  <2>4. \A i, j \in DOMAIN events' : i < j => events'[i] < events'[j]
    <3>1. SUFFICES ASSUME NEW i \in DOMAIN events', NEW j \in DOMAIN events', i < j
                   PROVE  events[i + 1] < events[j + 1]
      BY <2>3
    <3>2. i + 1 \in DOMAIN events /\ j + 1 \in DOMAIN events /\ i + 1 < j + 1
      BY <2>2, <2>3, <3>1
    <3> QED
      BY <3>2 DEF OrderInv
  <2>5. \A i \in DOMAIN events' : events'[i] \in 1 .. Events
    BY <2>3 DEF OrderInv
  <2> QED
    BY <2>1, <2>4, <2>5 DEF OrderInv
<1>5. CASE Broadcast
  <2>1. events' = events /\ task' = "send"
    BY <1>5 DEF Broadcast
  <2> QED
    BY <2>1 DEF OrderInv
<1>6. CASE Send \/ SendRaises
  BY <1>1, <1>6 DEF Send, SendRaises
<1>7. CASE ProcessEnds
  <2>1. events' = <<>> /\ DOMAIN events' = {}
    BY <1>7 DEF ProcessEnds
  <2> QED
    BY <2>1 DEF OrderInv
<1> QED
  BY <1>1, <1>2, <1>3, <1>4, <1>5, <1>6, <1>7, OtherSteps DEF TaskStep

-------------------------------------------------------------------------------
(* The rate.                                                               *)

\* What is less than a second old later is so now.
LEMMA LaterSecond ==
    ASSUME NEW now \in Nat, NEW later \in Nat, now <= later, NEW second \in Nat
    PROVE  \A tick \in Nat : tick > later - second => tick > now - second
  OBVIOUS

\* What the limiter keeps has as much of the last second as the window had.
LEMMA RecentIs ==
    ASSUME TypeInv, NEW recent \in Recent
    PROVE  /\ recent \in Seq(Nat)
           /\ \A tick \in Nat : tick > clock - Second =>
                 Cardinality(Since(recent, tick)) = Cardinality(Since(window, tick))
<1> DEFINE S == {i \in DOMAIN window : clock - window[i] < Second}
<1>1. window \in Seq(Nat) /\ clock \in Nat /\ \A i \in DOMAIN window : window[i] \in Nat
  <2>1. window \in Seq(Nat) /\ clock \in Nat
    BY DEF TypeInv
  <2> QED
    BY <2>1, LenProperties, ElementOfSeq
<1>2. S \in SUBSET DOMAIN window /\ recent \in Keeping(S)
  BY DEF Recent
<1>3. ASSUME NEW tick \in Nat, tick > clock - Second
      PROVE  \A i \in DOMAIN window : window[i] >= tick => i \in S
  BY <1>1, <1>3
<1> HIDE DEF S
<1> QED
  BY <1>1, <1>2, <1>3, KeepingIs

\* Every step keeps the rate.
LEMMA RateKept ==
    ASSUME TypeInv, TypeInv', RateInv, [Next]_vars
    PROVE  RateInv'
<1> USE DEF kafkaVars, taskVars, serverVars, pageVars, historyVars
<1>1. ASSUME allowed' = allowed, clock <= clock',
             \A tick \in Nat : tick > clock - Second =>
                Cardinality(Since(window', tick)) = Cardinality(Since(window, tick))
      PROVE  RateInv'
  <2>1. \A tick \in Nat : tick > clock' - Second => tick > clock - Second
    <3>1. clock \in Nat /\ clock' \in Nat /\ Second \in Nat
      BY DEF TypeInv
    <3>2. clock <= clock'
      BY <1>1
    <3> QED
      BY <3>1, <3>2, LaterSecond
  <2>2. RateHolds'
    BY <1>1 DEF RateInv, RateHolds
  <2>3. ASSUME NEW tick \in Nat, tick > clock' - Second
        PROVE  Cardinality(Since(allowed', tick)) = Cardinality(Since(window', tick))
    BY <1>1, <2>1, <2>3 DEF RateInv
  <2> QED
    BY <2>2, <2>3 DEF RateInv, Since
<1>2. CASE Drops
  <2>1. PICK recent \in Recent : window' = recent
    BY <1>2 DEF Drops
  <2>2. allowed' = allowed /\ clock' = clock
    BY <1>2 DEF Drops
  <2>3. \A tick \in Nat : tick > clock - Second =>
            Cardinality(Since(window', tick)) = Cardinality(Since(window, tick))
    BY <2>1, RecentIs
  <2>4. clock <= clock'
    BY <2>2 DEF TypeInv
  <2> QED
    BY <1>1, <2>2, <2>3, <2>4
<1>3. CASE Broadcast
  <2>1. PICK recent \in Recent : Len(recent) < Rate /\ window' = Append(recent, clock)
    BY <1>3 DEF Broadcast
  <2>2. allowed' = Append(allowed, clock) /\ clock' = clock /\ clock \in Nat
        /\ allowed \in Seq(Nat)
    BY <1>3 DEF Broadcast, TypeInv
  <2>3. /\ recent \in Seq(Nat)
        /\ \A tick \in Nat : tick > clock - Second =>
              Cardinality(Since(recent, tick)) = Cardinality(Since(window, tick))
    BY RecentIs
  <2>4. ASSUME NEW tick \in Nat, tick > clock - Second
        PROVE  Cardinality(Since(allowed', tick)) = Cardinality(Since(window', tick))
    <3>1. Cardinality(Since(allowed, tick)) = Cardinality(Since(recent, tick))
      BY <2>3, <2>4 DEF RateInv
    <3>2. CASE clock >= tick
      <4>1. Cardinality(Since(Append(allowed, clock), tick)) = Cardinality(Since(allowed, tick)) + 1
        BY <2>2, <3>2, SinceAppend
      <4>2. Cardinality(Since(Append(recent, clock), tick)) = Cardinality(Since(recent, tick)) + 1
        BY <2>2, <2>3, <3>2, SinceAppend
      <4> QED
        BY <2>1, <2>2, <3>1, <4>1, <4>2
    <3>3. CASE clock < tick
      <4>1. Since(Append(allowed, clock), tick) = Since(allowed, tick)
        BY <2>2, <3>3, SinceAppendBefore
      <4>2. Since(Append(recent, clock), tick) = Since(recent, tick)
        BY <2>2, <2>3, <3>3, SinceAppendBefore
      <4> QED
        BY <2>1, <2>2, <3>1, <4>1, <4>2
    <3> QED
      BY <2>2, <3>2, <3>3
  <2>5. window' \in Seq(Nat) /\ Len(window') <= Rate /\ Len(window') \in Nat
    <3>1. Len(window') = Len(recent) + 1 /\ Len(recent) \in Nat /\ window' \in Seq(Nat)
      BY <2>1, <2>2, <2>3, AppendIs
    <3> QED
      BY <2>1, <3>1
  <2>6. /\ allowed' \in Seq(Nat) /\ Len(allowed) \in Nat
        /\ DOMAIN allowed = 1 .. Len(allowed) /\ DOMAIN allowed' = 1 .. Len(allowed) + 1
        /\ \A k \in 1 .. Len(allowed) : allowed'[k] = allowed[k]
        /\ allowed'[Len(allowed) + 1] = clock
    BY <2>2, AppendIs
  <2>7. \A k \in DOMAIN allowed' : allowed'[k] \in Nat
    BY <2>6, LenProperties, ElementOfSeq
  <2>8. ASSUME NEW i \in DOMAIN allowed'
        PROVE  Cardinality({j \in DOMAIN allowed' :
                               /\ allowed'[j] >= allowed'[i]
                               /\ allowed'[j] < allowed'[i] + Second}) <= Rate
    <3> PICK b \in Nat : b = allowed'[i]
      BY <2>7
    <3> DEFINE S == {j \in DOMAIN allowed' : allowed'[j] >= b /\ allowed'[j] < b + Second}
    <3>1. CASE b > clock - Second
      <4>1. S \subseteq Since(allowed', b)
        BY DEF Since
      <4>2. IsFiniteSet(Since(allowed', b)) /\ Cardinality(Since(allowed', b)) \in Nat
        BY <2>6, SinceType
      <4>3. Cardinality(Since(window', b)) <= Len(window') /\ Cardinality(Since(window', b)) \in Nat
        BY <2>5, SinceType
      <4>4. Cardinality(S) <= Cardinality(Since(allowed', b)) /\ Cardinality(S) \in Nat
        BY <4>1, <4>2, FS_Subset, FS_CardinalityType
      <4>5. Cardinality(Since(allowed', b)) = Cardinality(Since(window', b))
        BY <2>4, <3>1
      <4>6. Cardinality(S) <= Rate
        BY <2>5, <4>2, <4>3, <4>4, <4>5
      <4> QED
        BY <4>6
    <3>2. CASE ~ (b > clock - Second)
      <4>1. i \in DOMAIN allowed /\ allowed[i] = b /\ b + Second <= clock
        BY <2>2, <2>6, <3>2
      <4>2. S = {j \in DOMAIN allowed : allowed[j] >= b /\ allowed[j] < b + Second}
        <5>1. ASSUME NEW j \in DOMAIN allowed', allowed'[j] < b + Second
              PROVE  j \in DOMAIN allowed /\ allowed'[j] = allowed[j]
          BY <2>2, <2>6, <4>1, <5>1
        <5>2. \A j \in DOMAIN allowed : j \in DOMAIN allowed' /\ allowed'[j] = allowed[j]
          BY <2>6
        <5> QED
          BY <5>1, <5>2
      <4>3. Cardinality({j \in DOMAIN allowed : allowed[j] >= allowed[i]
                                                /\ allowed[j] < allowed[i] + Second}) <= Rate
        BY <4>1 DEF RateInv, RateHolds
      <4>4. Cardinality(S) <= Rate
        BY <4>1, <4>2, <4>3
      <4> QED
        BY <4>4
    <3> QED
      BY <3>1, <3>2
  <2>9. RateHolds'
    BY <2>8 DEF RateHolds
  <2> QED
    BY <2>2, <2>4, <2>9 DEF RateInv, Since
<1>4. CASE ProcessEnds
  <2>1. allowed' = <<>> /\ window' = <<>> /\ DOMAIN allowed' = {}
    BY <1>4 DEF ProcessEnds
  <2> QED
    BY <2>1 DEF RateInv, RateHolds
<1>5. CASE UNCHANGED <<window, allowed, clock>>
  BY <1>1, <1>5 DEF TypeInv
<1>6. CASE Tick
  <2>1. UNCHANGED <<window, allowed>> /\ clock <= clock'
    BY <1>6 DEF Tick, TypeInv
  <2> QED
    BY <1>1, <2>1
<1>7. CASE Start \/ Poll \/ Send \/ SendRaises \/ SendDone \/ PollAgain
  BY <1>5, <1>7 DEF Start, Poll, Send, SendRaises, SendDone, PollAgain
<1>8. ASSUME NEW c \in Conns, \/ Accept(c) \/ Add(c) \/ PingRaises(c)
                              \/ Break(c) \/ Stall(c) \/ KeepaliveTimeout(c)
      PROVE  RateInv'
  BY <1>5, <1>8 DEF Accept, Add, PingRaises, Break, Stall, KeepaliveTimeout
<1>9. CASE Mount \/ Reconnect \/ TabCloses \/ Rebalance \/ UNCHANGED vars
  BY <1>5, <1>9 DEF Mount, Reconnect, TabCloses, Rebalance, vars
<1> QED
  BY <1>2, <1>3, <1>4, <1>6, <1>7, <1>8, <1>9 DEF Next, TaskStep

-------------------------------------------------------------------------------
(* The feed.                                                               *)

\* What is known of the lengths of the feeds.
LEMMA FeedTypes ==
    ASSUME TypeInv
    PROVE  /\ Len(sent) \in Nat /\ clients \subseteq Conns /\ ToSet(targets) \subseteq Conns
           /\ \A c \in Conns : joined[c] \in Nat /\ got[c] \in Seq(Nat) /\ Len(got[c]) \in Nat
<1>1. /\ sent \in Seq(Nat) /\ targets \in Seq(Conns) /\ clients \subseteq Conns
      /\ \A c \in Conns : joined[c] \in Nat /\ got[c] \in Seq(Nat)
  BY DEF TypeInv
<1> QED
  BY <1>1, LenProperties, HoldsType

\* The places up to the next.
LEMMA UpToNext ==
    ASSUME NEW n \in Nat, NEW k \in 1 .. n + 1
    PROVE  k \in 1 .. n \/ k = n + 1
  OBVIOUS

\* One more makes it whole.
LEMMA OneMore ==
    ASSUME NEW a \in Nat, NEW b \in Nat, NEW n \in Nat, a + b = n - 1
    PROVE  a + (b + 1) = n
  OBVIOUS

\* The consumer task keeps the feeds whole.
LEMMA FeedOfTask ==
    ASSUME TypeInv, ConnsInv, BroadcastInv, FeedInv, TaskStep
    PROVE  FeedInv'
<1> USE DEF kafkaVars, taskVars, serverVars, pageVars, historyVars
<1>1. CASE Start \/ Poll \/ Drops \/ PollAgain
  BY <1>1 DEF Start, Poll, Drops, PollAgain, FeedInv
<1>2. CASE Broadcast
  <2>1. /\ ToSet(targets') = clients /\ UNCHANGED <<net, handler, clients, joined, got>>
        /\ sent' = Append(sent, Head(events)) /\ events # <<>> /\ targets = <<>>
    BY <1>2, TargetsOf DEF Broadcast, BroadcastInv
  <2>2. Head(events) \in Nat
    BY <2>1, TailIs DEF TypeInv
  <2>3. /\ Len(sent') = Len(sent) + 1 /\ Len(sent) \in Nat
        /\ \A k \in 1 .. Len(sent) : sent'[k] = sent[k]
    BY <2>1, <2>2, AppendIs DEF TypeInv
  <2>4. ToSet(targets) = {}
    BY <2>1, HoldsType
  <2>5. \A c \in Conns : joined[c] + Len(got[c]) <= Len(sent')
    BY <2>3, FeedTypes DEF FeedInv
  <2>6. ASSUME NEW c \in Conns, NEW k \in 1 .. Len(got[c])
        PROVE  got[c][k] = sent'[joined[c] + k]
    <3>1. joined[c] + k \in 1 .. Len(sent)
      BY FeedTypes DEF FeedInv
    <3> QED
      BY <2>3, <3>1 DEF FeedInv
  <2>7. \A c \in clients : net[c] = "up" => joined[c] + Len(got[c]) = Len(sent') - 1
    BY <2>3, <2>4 DEF FeedInv
  <2> QED
    BY <2>1, <2>5, <2>6, <2>7 DEF FeedInv
<1>3. CASE Send
  <2> PICK c \in Conns, h \in Nat :
          /\ c = Head(targets) /\ h = Head(events)
    BY <1>3, TailIs DEF Send, BroadcastInv, TypeInv
  <2>1. /\ got' = [got EXCEPT ![c] = Append(@, h)] /\ targets' = Tail(targets)
        /\ UNCHANGED <<net, handler, clients, joined, sent>> /\ targets # <<>>
        /\ net[c] = "up" /\ sent[Len(sent)] = h
    BY <1>3 DEF Send, BroadcastInv
  <2>2. /\ ToSet(targets) = ToSet(targets') \union {c} /\ c \notin ToSet(targets')
    BY <2>1, TailHolds, TailOnce DEF TypeInv, BroadcastInv
  <2>3. c \in clients /\ handler[c] \in {"loop", "ended"}
    BY <2>1, <2>2 DEF ConnsInv
  <2>4. joined[c] + Len(got[c]) = Len(sent) - 1
    BY <2>1, <2>2, <2>3 DEF FeedInv
  <2>5. /\ Len(got'[c]) = Len(got[c]) + 1
        /\ \A k \in 1 .. Len(got[c]) : got'[c][k] = got[c][k]
        /\ got'[c][Len(got[c]) + 1] = h
        /\ \A d \in Conns : d # c => got'[d] = got[d]
    <3>1. got[c] \in Seq(Nat) /\ got'[c] = Append(got[c], h)
          /\ \A d \in Conns : d # c => got'[d] = got[d]
      BY <2>1 DEF TypeInv
    <3> QED
      BY <3>1, AppendIs
  <2>6. \A d \in Conns : handler[d] \in {"none", "accept", "add"} => got'[d] = <<>>
    BY <2>3, <2>5 DEF FeedInv
  <2>7. /\ Len(sent) \in Nat /\ clients \subseteq Conns
        /\ \A d \in Conns : joined[d] \in Nat /\ Len(got[d]) \in Nat
    BY FeedTypes
  <2>8. joined[c] + (Len(got[c]) + 1) = Len(sent)
    <3>1. PICK a \in Nat, b \in Nat, n \in Nat :
              a = joined[c] /\ b = Len(got[c]) /\ n = Len(sent)
      BY <2>7
    <3>2. a + b = n - 1
      BY <2>4, <3>1
    <3>3. a + (b + 1) = n
      BY <3>2, OneMore
    <3> QED
      BY <3>1, <3>3
  <2>9. ASSUME NEW d \in Conns
        PROVE  joined[d] + Len(got'[d]) <= Len(sent)
    <3>1. CASE d = c
      BY <2>5, <2>7, <2>8, <3>1
    <3>2. CASE d # c
      BY <2>5, <3>2 DEF FeedInv
    <3> QED
      BY <3>1, <3>2
  <2>10. ASSUME NEW d \in Conns, NEW k \in 1 .. Len(got'[d])
        PROVE  got'[d][k] = sent[joined[d] + k]
    <3>1. CASE d # c
      <4>1. got'[d] = got[d]
        BY <2>5, <3>1
      <4>2. k \in 1 .. Len(got[d])
        BY <2>10, <4>1
      <4> QED
        BY <4>1, <4>2 DEF FeedInv
    <3>2. CASE d = c
      <4>1. Len(got[c]) \in Nat /\ k \in 1 .. Len(got[c]) + 1
        BY <2>5, <2>10, <2>7, <3>2
      <4>2. CASE k \in 1 .. Len(got[c])
        BY <2>5, <3>2, <4>2 DEF FeedInv
      <4>3. CASE k = Len(got[c]) + 1
        BY <2>1, <2>5, <2>8, <3>2, <4>3
      <4>4. k \in 1 .. Len(got[c]) \/ k = Len(got[c]) + 1
        BY <4>1, UpToNext
      <4> QED
        BY <4>2, <4>3, <4>4
    <3> QED
      BY <3>1, <3>2
  <2>11. ASSUME NEW d \in clients, net[d] = "up"
        PROVE  joined[d] + Len(got'[d])
                   = IF d \in ToSet(targets') THEN Len(sent) - 1 ELSE Len(sent)
    <3>1. CASE d = c
      <4>1. d \notin ToSet(targets')
        BY <2>2, <3>1
      <4>2. joined[d] + Len(got'[d]) = Len(sent)
        BY <2>5, <2>8, <3>1
      <4> QED
        BY <4>1, <4>2
    <3>2. CASE d # c
      <4>1. got'[d] = got[d] /\ (d \in ToSet(targets') <=> d \in ToSet(targets))
        BY <2>2, <2>5, <2>7, <2>11, <3>2
      <4>2. joined[d] + Len(got[d])
                = IF d \in ToSet(targets) THEN Len(sent) - 1 ELSE Len(sent)
        BY <2>11 DEF FeedInv
      <4>3. CASE d \in ToSet(targets)
        BY <4>1, <4>2, <4>3
      <4>4. CASE d \notin ToSet(targets)
        BY <4>1, <4>2, <4>4
      <4> QED
        BY <4>3, <4>4
    <3> QED
      BY <3>1, <3>2
  <2>12. /\ \A d \in Conns : handler'[d] \in {"none", "accept", "add"} => got'[d] = <<>>
         /\ \A d \in Conns : joined'[d] + Len(got'[d]) <= Len(sent')
    BY <2>1, <2>6, <2>9
  <2>13. \A d \in Conns : \A k \in 1 .. Len(got'[d]) : got'[d][k] = sent'[joined'[d] + k]
    BY <2>1, <2>10
  <2>14. \A d \in clients' : net'[d] = "up" =>
             joined'[d] + Len(got'[d])
                 = IF d \in ToSet(targets') THEN Len(sent') - 1 ELSE Len(sent')
    BY <2>1, <2>11
  <2> QED
    BY <2>12, <2>13, <2>14 DEF FeedInv
<1>4. CASE SendRaises
  <2>1. /\ targets' = Tail(targets) /\ targets # <<>> /\ net[Head(targets)] = "broken"
        /\ UNCHANGED <<net, handler, clients, joined, got, sent>>
    BY <1>4 DEF SendRaises
  <2>2. ToSet(targets) = ToSet(targets') \union {Head(targets)}
    BY <2>1, TailHolds DEF TypeInv
  <2>3. \A d \in clients : net[d] = "up" =>
            (d \in ToSet(targets') <=> d \in ToSet(targets))
    BY <2>1, <2>2
  <2> QED
    BY <2>1, <2>3 DEF FeedInv
<1>5. CASE SendDone
  <2>1. /\ clients' \subseteq clients /\ UNCHANGED <<targets, net, handler, joined, got, sent>>
    BY <1>5 DEF SendDone
  <2> QED
    BY <2>1 DEF FeedInv
<1> QED
  BY <1>1, <1>2, <1>3, <1>4, <1>5 DEF TaskStep

\* Every step keeps the feeds whole.
LEMMA FeedKept ==
    ASSUME TypeInv, ConnsInv, BroadcastInv, FeedInv, [Next]_vars
    PROVE  FeedInv'
<1> USE DEF kafkaVars, taskVars, serverVars, pageVars, historyVars
<1>1. ASSUME UNCHANGED <<handler, targets, joined, got, sent>>, clients' \subseteq clients,
             \A c \in clients : net'[c] = "up" => net[c] = "up"
      PROVE  FeedInv'
  BY <1>1 DEF FeedInv
<1>2. ASSUME NEW c \in Conns, Accept(c)
      PROVE  FeedInv'
  <2>1. /\ handler[c] = "accept" /\ UNCHANGED <<clients, targets, joined, got, sent>>
        /\ \A d \in Conns : d # c => net'[d] = net[d] /\ handler'[d] = handler[d]
    BY <1>2 DEF Accept, TypeInv
  <2>2. c \notin clients
    BY <2>1 DEF ConnsInv
  <2>3. \A d \in clients : net'[d] = net[d]
    BY <2>1, <2>2, FeedTypes
  <2>4. \A d \in Conns : handler'[d] \in {"none", "accept", "add"} => got[d] = <<>>
    BY <2>1 DEF FeedInv
  <2> QED
    BY <2>1, <2>3, <2>4 DEF FeedInv
<1>3. ASSUME NEW c \in Conns, Add(c)
      PROVE  FeedInv'
  <2>1. /\ handler[c] = "add" /\ handler'[c] = "loop" /\ clients' = clients \union {c}
        /\ joined'[c] = Len(sent) /\ UNCHANGED <<net, targets, got, sent>>
        /\ \A d \in Conns : d # c => joined'[d] = joined[d] /\ handler'[d] = handler[d]
    BY <1>3 DEF Add, TypeInv
  <2>2. c \notin clients /\ c \notin ToSet(targets) /\ got[c] = <<>>
    BY <2>1 DEF ConnsInv, FeedInv
  <2>3. Len(got[c]) = 0 /\ Len(sent) \in Nat
    BY <2>2, FeedTypes, EmptySeq
  <2>4. \A d \in Conns : handler'[d] \in {"none", "accept", "add"} => got[d] = <<>>
    BY <2>1 DEF FeedInv
  <2>5. \A d \in Conns : joined'[d] + Len(got[d]) <= Len(sent)
    BY <2>1, <2>3 DEF FeedInv
  <2>6. \A d \in Conns : \A k \in 1 .. Len(got[d]) : got[d][k] = sent[joined'[d] + k]
    BY <2>1, <2>3 DEF FeedInv
  <2>7. ASSUME NEW d \in clients \union {c}, net[d] = "up"
        PROVE  joined'[d] + Len(got[d])
                   = IF d \in ToSet(targets) THEN Len(sent) - 1 ELSE Len(sent)
    <3>1. CASE d = c
      BY <2>1, <2>2, <2>3, <3>1
    <3>2. CASE d # c
      <4>1. d \in clients /\ joined'[d] = joined[d]
        BY <2>1, <2>7, <3>2, FeedTypes
      <4> QED
        BY <2>7, <4>1 DEF FeedInv
    <3> QED
      BY <3>1, <3>2
  <2> QED
    BY <2>1, <2>4, <2>5, <2>6, <2>7 DEF FeedInv
<1>4. ASSUME NEW c \in Conns, PingRaises(c)
      PROVE  FeedInv'
  <2>1. /\ handler'[c] = "ended" /\ clients' \subseteq clients
        /\ UNCHANGED <<net, targets, joined, got, sent>>
        /\ \A d \in Conns : d # c => handler'[d] = handler[d]
    BY <1>4 DEF PingRaises, TypeInv
  <2>2. \A d \in Conns : handler'[d] \in {"none", "accept", "add"} => got[d] = <<>>
    BY <2>1 DEF FeedInv
  <2> QED
    BY <2>1, <2>2 DEF FeedInv
<1>5. CASE Mount \/ Reconnect
  <2>1. \A c \in Conns :
            \/ net'[c] = net[c] /\ handler'[c] = handler[c]
            \/ net[c] = "unused" /\ net'[c] \in {"connecting", "broken"} /\ handler'[c] = "accept"
    BY <1>5, OpenedAre
  <2>2. UNCHANGED <<clients, targets, joined, got, sent>>
    BY <1>5 DEF Mount, Reconnect
  <2>3. \A c \in Conns : handler'[c] \in {"none", "accept", "add"} => got[c] = <<>>
    BY <2>1 DEF FeedInv, ConnsInv
  <2>4. \A c \in clients : net'[c] = "up" => net[c] = "up"
    BY <2>1, FeedTypes
  <2> QED
    BY <2>2, <2>3, <2>4 DEF FeedInv
<1>6. ASSUME NEW c \in Conns, Break(c) \/ Stall(c) \/ KeepaliveTimeout(c)
      PROVE  FeedInv'
  <2>1. \A d \in clients : net'[d] = "up" => net[d] = "up"
    BY <1>6, FeedTypes DEF Break, Stall, KeepaliveTimeout, TypeInv
  <2>2. UNCHANGED <<handler, targets, joined, got, sent, clients>>
    BY <1>6 DEF Break, Stall, KeepaliveTimeout
  <2> QED
    BY <1>1, <2>1, <2>2
<1>7. CASE TabCloses
  <2>1. \A d \in clients : net'[d] = "up" => net[d] = "up"
    BY <1>7, FeedTypes DEF TabCloses, TypeInv
  <2>2. UNCHANGED <<handler, targets, joined, got, sent, clients>>
    BY <1>7 DEF TabCloses
  <2> QED
    BY <1>1, <2>1, <2>2
<1>8. CASE ProcessEnds
  <2>1. clients' = {} /\ UNCHANGED <<joined, got, sent>>
    BY <1>8 DEF ProcessEnds
  <2>2. \A c \in Conns : handler'[c] \in {"none", "accept", "add"} => handler[c] = "none"
    BY <1>8 DEF ProcessEnds
  <2> QED
    BY <2>1, <2>2 DEF FeedInv
<1>9. CASE Tick \/ Rebalance \/ UNCHANGED vars
  <2>1. UNCHANGED <<handler, targets, joined, got, sent, clients, net>>
    BY <1>9 DEF Tick, Rebalance, vars
  <2> QED
    BY <1>1, <2>1
<1> QED
  BY <1>2, <1>3, <1>4, <1>5, <1>6, <1>7, <1>8, <1>9, FeedOfTask DEF Next

-------------------------------------------------------------------------------
(* How often the page shows an event.                                      *)

\* What is within the bound of some reads is within that of more, and a part of
\* it too.
LEMMA MoreReads ==
    ASSUME NEW a \in Nat, NEW l \in Nat, NEW r \in Nat, NEW k \in Nat,
           r <= k, a + l <= Mounts * r
    PROVE  a + l <= Mounts * k /\ a <= Mounts * k
<1>1. CASE Mounts = 1
  BY <1>1
<1>2. CASE Mounts = 2
  BY <1>2
<1> QED
  BY <1>1, <1>2

\* One more read is one more on each socket.
LEMMA OneMoreRead ==
    ASSUME NEW a \in Nat, NEW r \in Nat, a <= Mounts * r
    PROVE  a + Mounts <= Mounts * (r + 1)
<1>1. CASE Mounts = 1
  BY <1>1
<1>2. CASE Mounts = 2
  BY <1>2
<1> QED
  BY <1>1, <1>2

\* The sockets to reach are at most as many as the page is mounted times.
LEMMA ComingType ==
    ASSUME TypeInv, SocketsInv
    PROVE  /\ IsFiniteSet(Coming) /\ Cardinality(Coming) \in Nat
           /\ Cardinality(Coming) <= Mounts
<1>1. Coming \subseteq Alive
  BY DEF Coming
<1>2. IsFiniteSet(Coming) /\ Cardinality(Coming) <= Cardinality(Alive)
  BY <1>1, AliveType, FS_Subset
<1>3. Cardinality(Coming) \in Nat
  BY <1>2, FS_CardinalityType
<1>4. Cardinality(Alive) <= Mounts /\ Cardinality(Alive) \in Nat
  BY AliveType, FewSockets
<1>5. Cardinality(Coming) <= Mounts
  BY <1>2, <1>3, <1>4
<1> QED
  BY <1>2, <1>3, <1>5

\* So what is left of an event is at most that.
LEMMA LeftType ==
    ASSUME TypeInv, SocketsInv, NEW e \in 1 .. Events
    PROVE  Left(e) \in Nat /\ Left(e) <= Mounts
<1>1. CASE e \notin ToSet(events)
  BY <1>1 DEF Left
<1>2. CASE e \in ToSet(events) /\ task = "send" /\ e = Head(events)
  BY <1>2, ComingType DEF Left
<1>3. CASE e \in ToSet(events) /\ ~ (task = "send" /\ e = Head(events))
  BY <1>3 DEF Left
<1> QED
  BY <1>1, <1>2, <1>3

\* The number of reads is a number.
LEMMA ReadsType ==
    ASSUME TypeInv, NEW e \in 1 .. Events
    PROVE  Reads(e) \in Nat
<1>1. reread[e] \in Nat
  BY DEF TypeInv
<1> QED
  BY <1>1 DEF Reads

\* Going back is not a read, and forgets none; entering at the end passes events
\* by, as if they had been read.
LEMMA ReadsOfAssign ==
    ASSUME TypeInv, NEW offset \in Nat, offset <= position, Assign(offset),
           NEW e \in 1 .. Events
    PROVE  Reads(e)' \in Nat /\ Reads(e) <= Reads(e)'
<1>1. position \in Nat /\ reread[e] \in Nat
  BY DEF TypeInv
<1>2. PICK k \in Nat : k = reread[e]
  BY <1>1
<1>3. CASE offset = 0
  <2>1. position' \in Nat /\ position <= position' /\ reread'[e] = k
    BY <1>1, <1>2, <1>3 DEF Assign
  <2> QED
    BY <1>1, <1>2, <2>1 DEF Reads
<1>4. CASE offset > 0
  <2>1. /\ position' = offset
        /\ reread'[e] = IF offset < e /\ e <= position THEN reread[e] + 1 ELSE reread[e]
    BY <1>4 DEF Assign
  <2>2. CASE e <= offset
    <3>1. e <= position /\ e <= position' /\ reread'[e] = k
      BY <1>1, <1>2, <2>1, <2>2
    <3> QED
      BY <1>2, <3>1 DEF Reads
  <2>3. CASE offset < e /\ e <= position
    <3>1. ~ (e <= position') /\ reread'[e] = k + 1
      BY <1>1, <1>2, <2>1, <2>3
    <3> QED
      BY <1>2, <2>3, <3>1 DEF Reads
  <2>4. CASE position < e
    <3>1. ~ (e <= position) /\ ~ (e <= position') /\ reread'[e] = k
      BY <1>1, <1>2, <2>1, <2>4
    <3> QED
      BY <1>2, <3>1 DEF Reads
  <2> QED
    BY <1>1, <2>2, <2>3, <2>4
<1> QED
  BY <1>3, <1>4

\* No step takes a read back.
LEMMA ReadsKept ==
    ASSUME TypeInv, [Next]_vars, ~ Poll, NEW e \in 1 .. Events
    PROVE  Reads(e)' \in Nat /\ Reads(e) <= Reads(e)'
<1> USE DEF kafkaVars, historyVars
<1>1. ASSUME UNCHANGED <<position, reread>>
      PROVE  Reads(e)' \in Nat /\ Reads(e) <= Reads(e)'
  <2>1. PICK r \in Nat : r = Reads(e)
    BY ReadsType
  <2>2. Reads(e)' = r
    BY <1>1, <2>1 DEF Reads
  <2> QED
    BY <2>1, <2>2
<1>2. CASE Start
  <2>1. Assign(committed) /\ committed \in Nat /\ committed <= position
    BY <1>2 DEF Start, TypeInv
  <2> QED
    BY <2>1, ReadsOfAssign
<1>3. CASE Rebalance
  <2>1. Assign(committed') /\ committed' \in AutoCommitted
    BY <1>3 DEF Rebalance
  <2>2. PICK offset \in Nat : offset = committed' /\ offset <= position
    <3>1. PICK n \in AutoCommitted : n = committed'
      BY <2>1
    <3>2. n \in 0 .. position /\ position \in Nat
      BY AutoCommittedType DEF TypeInv
    <3> QED
      BY <3>1, <3>2
  <2> QED
    BY <2>1, <2>2, ReadsOfAssign
<1>4. CASE Drops \/ Broadcast \/ Send \/ SendRaises \/ SendDone \/ PollAgain
  BY <1>1, <1>4 DEF Drops, Broadcast, Send, SendRaises, SendDone, PollAgain
<1>5. ASSUME NEW c \in Conns, \/ Accept(c) \/ Add(c) \/ PingRaises(c)
                              \/ Break(c) \/ Stall(c) \/ KeepaliveTimeout(c)
      PROVE  UNCHANGED <<position, reread>>
  BY <1>5 DEF Accept, Add, PingRaises, Break, Stall, KeepaliveTimeout
<1>6. CASE Tick \/ Mount \/ Reconnect \/ TabCloses \/ ProcessEnds \/ UNCHANGED vars
  BY <1>1, <1>6 DEF Tick, Mount, Reconnect, TabCloses, ProcessEnds, vars
<1> QED
  BY <1>1, <1>2, <1>3, <1>4, <1>5, <1>6 DEF Next, TaskStep

\* Only a send shows one.
LEMMA ShownSame ==
    ASSUME [Next]_vars, ~ Send
    PROVE  shown' = shown
<1> USE DEF historyVars
<1>1. CASE Start \/ Poll \/ Drops \/ Broadcast \/ SendRaises \/ SendDone \/ PollAgain
  BY <1>1 DEF Start, Poll, Drops, Broadcast, SendRaises, SendDone, PollAgain
<1>2. ASSUME NEW c \in Conns, \/ Accept(c) \/ Add(c) \/ PingRaises(c)
                              \/ Break(c) \/ Stall(c) \/ KeepaliveTimeout(c)
      PROVE  shown' = shown
  BY <1>2 DEF Accept, Add, PingRaises, Break, Stall, KeepaliveTimeout
<1>3. CASE Tick \/ Mount \/ Reconnect \/ TabCloses \/ Rebalance \/ ProcessEnds \/ UNCHANGED vars
  BY <1>3 DEF Tick, Mount, Reconnect, TabCloses, Rebalance, ProcessEnds, vars
<1> QED
  BY <1>1, <1>2, <1>3 DEF Next, TaskStep

\* A broadcast that has fewer sockets to reach leaves no event more.
LEMMA LeftShrinks ==
    ASSUME TypeInv, SocketsInv, UNCHANGED <<task, events>>, Coming' \subseteq Coming,
           NEW e \in 1 .. Events
    PROVE  Left(e)' \in Nat /\ Left(e)' <= Left(e)
<1>1. /\ IsFiniteSet(Coming) /\ Cardinality(Coming) \in Nat
  BY ComingType
<1>2. Cardinality(Coming') <= Cardinality(Coming) /\ Cardinality(Coming') \in Nat
  BY <1>1, FS_Subset, FS_CardinalityType
<1>3. CASE e \notin ToSet(events)
  BY <1>3 DEF Left
<1>4. CASE e \in ToSet(events) /\ task = "send" /\ e = Head(events)
  BY <1>2, <1>4 DEF Left
<1>5. CASE e \in ToSet(events) /\ ~ (task = "send" /\ e = Head(events))
  BY <1>5 DEF Left
<1> QED
  BY <1>3, <1>4, <1>5

\* The page, the network and the handlers bring no socket on the way of the
\* broadcast.
LEMMA ComingShrinks ==
    ASSUME TypeInv, ConnsInv, BroadcastInv, [Next]_vars, ~ TaskStep, ~ ProcessEnds
    PROVE  UNCHANGED <<task, events>> /\ Coming' \subseteq Coming
<1> USE DEF kafkaVars, taskVars, serverVars, pageVars, historyVars
<1>1. UNCHANGED <<task, events, targets>>
  BY OtherSteps
<1>2. /\ Coming = {c \in Conns : c \in ToSet(targets) /\ net[c] \in Open}
      /\ Coming' = {c \in Conns : c \in ToSet(targets) /\ net'[c] \in Open}
  BY <1>1 DEF Coming, Alive, Open
<1>3. ASSUME \A c \in ToSet(targets) : net'[c] \in Open => net[c] \in Open
      PROVE  Coming' \subseteq Coming
  BY <1>2, <1>3
<1>4. ToSet(targets) \subseteq Conns /\ \A c \in ToSet(targets) : net[c] # "unused"
  BY HoldsType DEF TypeInv, ConnsInv
<1>5. ASSUME NEW c \in Conns, \/ Accept(c) \/ Add(c) \/ PingRaises(c)
                              \/ Break(c) \/ Stall(c) \/ KeepaliveTimeout(c)
      PROVE  \A d \in Conns : net'[d] \in Open => net[d] \in Open
  BY <1>5 DEF Accept, Add, PingRaises, Break, Stall, KeepaliveTimeout, TypeInv, Open
<1>6. CASE Mount \/ Reconnect
  <2>1. \A c \in Conns : net[c] = "unused" \/ net'[c] = net[c]
    BY <1>6, OpenedAre
  <2> QED
    BY <1>1, <1>3, <1>4, <2>1
<1>7. CASE TabCloses
  <2>1. \A c \in Conns : net'[c] \notin Open
    BY <1>7 DEF TabCloses, TypeInv, Open
  <2> QED
    BY <1>1, <1>3, <1>4, <2>1
<1>8. CASE Tick \/ Rebalance \/ UNCHANGED vars
  <2>1. net' = net
    BY <1>8 DEF Tick, Rebalance, vars
  <2> QED
    BY <1>1, <1>3, <2>1
<1> QED
  BY <1>1, <1>3, <1>4, <1>5, <1>6, <1>7, <1>8 DEF Next

\* An event is at one place of what was polled: the first is not in the rest.
LEMMA HeadIsOnce ==
    ASSUME TypeInv, OrderInv, events # <<>>
    PROVE  /\ Head(events) \notin ToSet(Tail(events))
           /\ ToSet(events) = ToSet(Tail(events)) \union {Head(events)}
<1>1. /\ Head(events) = events[1]
      /\ DOMAIN events = 1 .. Len(events) /\ Len(events) \in Nat \ {0}
      /\ DOMAIN Tail(events) = 1 .. Len(events) - 1
      /\ \A k \in 1 .. Len(events) - 1 : Tail(events)[k] = events[k + 1]
  BY TailIs DEF TypeInv
<1>2. ASSUME NEW k \in 1 .. Len(events) - 1
      PROVE  events[k + 1] # events[1]
  <2>1. 1 \in DOMAIN events /\ k + 1 \in DOMAIN events /\ 1 < k + 1
    BY <1>1
  <2>2. events[1] < events[k + 1]
    BY <2>1 DEF OrderInv
  <2>3. events[1] \in 1 .. Events
    BY <2>1 DEF OrderInv
  <2> QED
    BY <2>2, <2>3
<1>3. Head(events) \notin ToSet(Tail(events))
  BY <1>1, <1>2 DEF ToSet
<1> QED
  BY <1>3, TailHolds DEF TypeInv

\* The consumer task leaves no event more but what it polls, and what it sends
\* it has left once less.
LEMMA LeftOfTask ==
    ASSUME TypeInv, ConnsInv, BroadcastInv, SocketsInv, OrderInv,
           TaskStep, ~ Poll, ~ Send, NEW e \in 1 .. Events
    PROVE  Left(e)' \in Nat /\ Left(e)' <= Left(e)
<1> USE DEF kafkaVars, taskVars, serverVars, pageVars, historyVars
<1>0. Left(e) \in Nat
  BY LeftType
<1>1. CASE Start \/ PollAgain
  <2>1. events = <<>> /\ events' = <<>>
    BY <1>1 DEF Start, PollAgain, OrderInv
  <2> QED
    BY <1>0, <2>1, HoldsType DEF Left
<1>2. CASE Drops \/ SendDone
  <2>1. events # <<>> /\ events' = Tail(events) /\ task' = "deliver"
    BY <1>2 DEF Drops, SendDone, BroadcastInv
  <2>2. CASE e \notin ToSet(events')
    BY <1>0, <2>2 DEF Left
  <2>3. CASE e \in ToSet(events')
    <3>1. e \in ToSet(events) /\ e # Head(events)
      BY <2>1, <2>3, HeadIsOnce
    <3> QED
      BY <2>1, <2>3, <3>1 DEF Left
  <2> QED
    BY <2>2, <2>3
<1>3. CASE Broadcast
  <2>1. task = "deliver" /\ task' = "send" /\ events' = events /\ net' = net
        /\ events # <<>>
    BY <1>3 DEF Broadcast
  <2>2. Alive' = Alive
    BY <2>1 DEF Alive
  <2>3. Coming' \subseteq Alive
    BY <2>2 DEF Coming
  <2>4. Cardinality(Coming') <= Cardinality(Alive) /\ Cardinality(Coming') \in Nat
    BY <2>3, AliveType, FS_Subset, FS_CardinalityType
  <2>5. Cardinality(Coming') <= Mounts
    <3>1. Cardinality(Alive) <= Mounts /\ Cardinality(Alive) \in Nat
      BY AliveType, FewSockets
    <3> QED
      BY <2>4, <3>1
  <2>6. CASE e \notin ToSet(events)
    BY <2>1, <2>6 DEF Left
  <2>7. CASE e \in ToSet(events) /\ e = Head(events)
    <3>1. Left(e) = Mounts /\ Left(e)' = Cardinality(Coming')
      BY <2>1, <2>7 DEF Left
    <3> QED
      BY <2>4, <2>5, <3>1
  <2>8. CASE e \in ToSet(events) /\ e # Head(events)
    BY <2>1, <2>8 DEF Left
  <2> QED
    BY <2>6, <2>7, <2>8
<1>4. CASE SendRaises
  <2>1. /\ targets' = Tail(targets) /\ targets # <<>> /\ UNCHANGED <<net, task, events>>
    BY <1>4 DEF SendRaises
  <2>2. ToSet(targets') \subseteq ToSet(targets)
    BY <2>1, TailHolds DEF TypeInv
  <2>3. Coming' \subseteq Coming
    BY <2>1, <2>2 DEF Coming, Alive
  <2> QED
    BY <2>1, <2>3, LeftShrinks
<1> QED
  BY <1>1, <1>2, <1>3, <1>4 DEF TaskStep

\* A send takes a socket off those to reach.
LEMMA LeftOfSend ==
    ASSUME TypeInv, BroadcastInv, SocketsInv, OrderInv, Send, NEW e \in 1 .. Events
    PROVE  /\ Left(e)' \in Nat /\ shown'[e] \in Nat
           /\ shown'[e] + Left(e)' = shown[e] + Left(e)
<1> PICK c \in Conns, h \in Nat : c = Head(targets) /\ h = Head(events)
  BY TailIs DEF Send, BroadcastInv, TypeInv
<1>1. /\ shown' = [shown EXCEPT ![h] = @ + 1] /\ targets' = Tail(targets)
      /\ UNCHANGED <<net, task, events>> /\ targets # <<>> /\ task = "send"
      /\ net[c] = "up" /\ events # <<>>
  BY DEF Send, BroadcastInv, taskVars, serverVars
<1>2. ToSet(targets) = ToSet(targets') \union {c} /\ c \notin ToSet(targets')
  BY <1>1, TailHolds, TailOnce DEF TypeInv, BroadcastInv
<1>3. c \in Coming /\ Coming' = Coming \ {c}
  <2>1. c \in Alive /\ Alive' = Alive
    BY <1>1 DEF Alive
  <2> QED
    BY <1>2, <2>1 DEF Coming
<1>4. /\ Cardinality(Coming \ {c}) = Cardinality(Coming) - 1
      /\ Cardinality(Coming) \in Nat /\ Cardinality(Coming \ {c}) \in Nat
  <2>1. IsFiniteSet(Coming) /\ IsFiniteSet(Coming \ {c})
    BY ComingType, FS_Subset
  <2> QED
    BY <1>3, <2>1, FS_RemoveElement, FS_CardinalityType
<1>5. shown[e] \in Nat /\ Left(e) \in Nat
  BY LeftType DEF TypeInv
<1>6. CASE e = h
  <2>1. e \in ToSet(events)
    BY <1>1, <1>6, HeadIsOnce
  <2>2. Left(e) = Cardinality(Coming) /\ Left(e)' = Cardinality(Coming \ {c})
    BY <1>1, <1>3, <1>6, <2>1 DEF Left
  <2>3. shown'[e] = shown[e] + 1
    BY <1>1, <1>6 DEF TypeInv
  <2>4. PICK a \in Nat, n \in Nat, m \in Nat :
            a = shown[e] /\ n = Cardinality(Coming) /\ m = Cardinality(Coming \ {c}) /\ m = n - 1
    BY <1>4, <1>5
  <2>5. (a + 1) + m = a + n
    BY <2>4
  <2> QED
    BY <2>2, <2>3, <2>4, <2>5
<1>7. CASE e # h
  <2>1. shown'[e] = shown[e]
    BY <1>1, <1>7 DEF TypeInv
  <2>2. Left(e)' = Left(e)
    BY <1>1, <1>7 DEF Left
  <2> QED
    BY <1>5, <2>1, <2>2
<1> QED
  BY <1>6, <1>7

\* A poll reads each event it takes once more, and leaves it to every socket.
LEMMA ShownOfPoll ==
    ASSUME TypeInv, SocketsInv, OrderInv, ShownInv, Poll, NEW e \in 1 .. Events
    PROVE  (shown[e] + Left(e) <= Mounts * Reads(e))'
<1>1. PICK n \in 1 .. DrainMax :
          /\ position' = position + n
          /\ events' \in InOrder((position + 1 .. position + n) \ Garbage)
  BY DEF Poll
<1>2. events = <<>> /\ task' = "deliver" /\ UNCHANGED <<shown, reread>> /\ position \in Nat
  BY DEF Poll, OrderInv, historyVars, TypeInv
<1>3. Left(e) = 0
  BY <1>2, HoldsType DEF Left
<1>4. PICK a \in Nat, k \in Nat, r \in Nat : a = shown[e] /\ k = reread[e] /\ r = Reads(e)
  BY ReadsType DEF TypeInv
<1>5. a <= Mounts * r
  <2>1. shown[e] + Left(e) <= Mounts * Reads(e)
    BY DEF ShownInv
  <2> QED
    BY <1>3, <1>4, <2>1
<1>6. shown'[e] = a /\ reread'[e] = k
  BY <1>2, <1>4
<1>7. CASE e \in ToSet(events')
  <2>1. e \in position + 1 .. position + n
    <3>1. (position + 1 .. position + n) \ Garbage \in SUBSET Nat
      BY <1>2
    <3>2. IsFiniteSet(position + 1 .. position + n)
      BY <1>2, FS_Interval
    <3>3. IsFiniteSet((position + 1 .. position + n) \ Garbage)
      BY <3>2, FS_Subset
    <3>4. \A i \in DOMAIN events' : events'[i] \in (position + 1 .. position + n) \ Garbage
      BY <1>1, <3>1, <3>3, InOrderIs
    <3> QED
      BY <1>7, <3>4 DEF ToSet
  <2>2. ~ (e <= position) /\ e <= position'
    BY <1>1, <1>2, <2>1
  <2>3. r = k
    BY <1>4, <2>2 DEF Reads
  <2>4. Reads(e)' = r + 1
    BY <1>6, <2>2, <2>3 DEF Reads
  <2>5. Left(e)' = Mounts
    BY <1>2, <1>7 DEF Left
  <2>6. a + Mounts <= Mounts * (r + 1)
    BY <1>5, OneMoreRead
  <2> QED
    BY <1>6, <2>4, <2>5, <2>6
<1>8. CASE e \notin ToSet(events')
  <2>1. Left(e)' = 0
    BY <1>8 DEF Left
  <2>2. PICK p \in Nat : p = Reads(e)' /\ r <= p
    <3>1. e <= position => e <= position'
      BY <1>1, <1>2
    <3>2. CASE e <= position
      BY <1>4, <1>6, <3>1, <3>2 DEF Reads
    <3>3. CASE ~ (e <= position)
      <4>1. r = k
        BY <1>4, <3>3 DEF Reads
      <4>2. Reads(e)' = k \/ Reads(e)' = k + 1
        BY <1>6 DEF Reads
      <4> QED
        BY <4>1, <4>2
    <3> QED
      BY <3>2, <3>3
  <2>3. a + 0 <= Mounts * r
    BY <1>5
  <2>4. a + 0 <= Mounts * p
    BY <2>2, <2>3, MoreReads
  <2> QED
    BY <1>6, <2>1, <2>2, <2>4
<1> QED
  BY <1>7, <1>8

\* Every step keeps how often an event may be shown.
LEMMA ShownKept ==
    ASSUME TypeInv, TypeInv', ConnsInv, BroadcastInv, SocketsInv, OrderInv, ShownInv,
           [Next]_vars
    PROVE  ShownInv'
<1>1. SUFFICES ASSUME NEW e \in 1 .. Events
               PROVE  (shown[e] + Left(e) <= Mounts * Reads(e))'
  BY DEF ShownInv
<1>2. CASE Poll
  BY <1>2, ShownOfPoll
<1>3. ASSUME ~ Poll, Left(e)' \in Nat, shown'[e] \in Nat,
             shown'[e] + Left(e)' <= shown[e] + Left(e)
      PROVE  (shown[e] + Left(e) <= Mounts * Reads(e))'
  <2>1. Reads(e)' \in Nat /\ Reads(e) <= Reads(e)'
    BY <1>3, ReadsKept
  <2>2. shown[e] + Left(e) <= Mounts * Reads(e)
    BY DEF ShownInv
  <2>3. PICK a \in Nat, l \in Nat, b \in Nat, m \in Nat, r \in Nat :
            /\ a = shown[e] /\ l = Left(e) /\ b = shown'[e] /\ m = Left(e)' /\ r = Reads(e)
    BY <1>3, LeftType, ReadsType DEF TypeInv
  <2>4. PICK k \in Nat : k = Reads(e)' /\ r <= k
    BY <2>1, <2>3
  <2>5. b + m <= a + l /\ a + l <= Mounts * r
    BY <1>3, <2>2, <2>3
  <2>6. b + m <= Mounts * k
    <3>1. CASE Mounts = 1
      BY <2>3, <2>4, <2>5, <3>1
    <3>2. CASE Mounts = 2
      BY <2>3, <2>4, <2>5, <3>2
    <3> QED
      BY <3>1, <3>2
  <2> QED
    BY <2>3, <2>4, <2>6
<1>4. CASE Send
  <2>1. ~ Poll
    BY <1>4 DEF Send, Poll
  <2>2. shown'[e] + Left(e)' = shown[e] + Left(e) /\ Left(e)' \in Nat /\ shown'[e] \in Nat
    BY <1>4, LeftOfSend
  <2>3. shown'[e] + Left(e)' <= shown[e] + Left(e) /\ Left(e)' \in Nat /\ shown'[e] \in Nat
    <3>1. PICK m \in Nat, b \in Nat : m = Left(e)' /\ b = shown'[e]
      BY <2>2
    <3>2. b + m <= b + m
      OBVIOUS
    <3> QED
      BY <2>2, <3>1, <3>2
  <2> QED
    BY <1>3, <2>1, <2>3
<1>5. ASSUME ~ Poll, ~ Send, Left(e)' \in Nat, Left(e)' <= Left(e)
      PROVE  (shown[e] + Left(e) <= Mounts * Reads(e))'
  <2>1. shown'[e] = shown[e] /\ shown[e] \in Nat /\ Left(e) \in Nat
    BY <1>5, ShownSame, LeftType DEF TypeInv
  <2> QED
    BY <1>3, <1>5, <2>1
<1>6. CASE TaskStep /\ ~ Poll /\ ~ Send
  BY <1>5, <1>6, LeftOfTask
<1>7. CASE ProcessEnds
  <2>1. ~ Poll /\ ~ Send
    BY <1>7 DEF ProcessEnds, Poll, Send
  <2>2. Left(e)' = 0
    BY <1>7, HoldsType DEF ProcessEnds, Left
  <2> QED
    BY <1>5, <2>1, <2>2, LeftType
<1>8. CASE ~ TaskStep /\ ~ ProcessEnds
  <2>1. Left(e)' \in Nat /\ Left(e)' <= Left(e)
    BY <1>8, ComingShrinks, LeftShrinks
  <2> QED
    BY <1>5, <1>8, <2>1 DEF TaskStep
<1> QED
  BY <1>2, <1>4, <1>6, <1>7, <1>8

-------------------------------------------------------------------------------
(* The invariant holds.                                                    *)

\* It holds of a system that has not started.
LEMMA InitHolds ==
    ASSUME Init
    PROVE  IInv
<1>1. /\ clock = 0 /\ position = 0 /\ base = 0 /\ committed = 0 /\ task = "down" /\ timers = 0
      /\ events = <<>> /\ window = <<>> /\ targets = <<>> /\ allowed = <<>> /\ sent = <<>>
      /\ dead = {} /\ clients = {} /\ closed = {} /\ mounted = FALSE
      /\ net = [c \in Conns |-> "unused"] /\ handler = [c \in Conns |-> "none"]
      /\ joined = [c \in Conns |-> 0] /\ got = [c \in Conns |-> <<>>]
      /\ shown = [e \in 1 .. Events |-> 0] /\ reread = [e \in 1 .. Events |-> 0]
  BY DEF Init
<1>2. /\ Len(<<>>) = 0 /\ ToSet(<<>>) = {} /\ DOMAIN <<>> = {}
      /\ \A S : <<>> \in Seq(S)
  BY EmptySeq, HoldsType
<1>3. TypeInv
  <2>1. /\ events \in Seq(Nat) /\ window \in Seq(Nat) /\ targets \in Seq(Conns)
        /\ allowed \in Seq(Nat) /\ sent \in Seq(Nat) /\ got \in [Conns -> Seq(Nat)]
    BY <1>1, <1>2
  <2>2. /\ net \in [Conns -> {"unused", "connecting", "up", "stalled", "broken"}]
        /\ handler \in [Conns -> {"none", "accept", "add", "loop", "ended"}]
        /\ joined \in [Conns -> Nat] /\ mounted \in BOOLEAN
        /\ shown \in [1 .. Events -> Nat] /\ reread \in [1 .. Events -> Nat]
    BY <1>1
  <2>3. /\ clock \in Nat /\ position \in Nat /\ base \in Nat /\ committed \in 0 .. position
        /\ timers \in Nat
        /\ task \in {"down", "poll", "deliver", "send"}
        /\ dead \subseteq Conns /\ clients \subseteq Conns /\ closed \subseteq Conns
    BY <1>1
  <2> QED
    BY <2>1, <2>2, <2>3 DEF TypeInv
<1>4. ConnsInv /\ BroadcastInv
  BY <1>1, <1>2 DEF ConnsInv, BroadcastInv
<1>5. Alive = {}
  BY <1>1 DEF Alive
<1>6. SocketsInv
  BY <1>1, <1>5 DEF SocketsInv
<1>7. FeedInv
  BY <1>1, <1>2 DEF FeedInv
<1>8. OrderInv
  BY <1>1, <1>2 DEF OrderInv
<1>9. ShownInv
  <2>1. ASSUME NEW e \in 1 .. Events
        PROVE  shown[e] = 0 /\ Left(e) = 0 /\ Reads(e) = 0
    BY <1>1, <1>2 DEF Left, Reads
  <2>2. ASSUME NEW e \in 1 .. Events
        PROVE  shown[e] + Left(e) <= Mounts * Reads(e)
    <3>1. PICK a \in Nat, l \in Nat, r \in Nat :
              a = shown[e] /\ l = Left(e) /\ r = Reads(e) /\ a = 0 /\ l = 0 /\ r = 0
      BY <2>1
    <3>2. a + l <= Mounts * r
      BY <3>1
    <3> QED
      BY <3>1, <3>2
  <2> QED
    BY <2>2 DEF ShownInv
<1>10. RateInv
  BY <1>1, <1>2 DEF RateInv, RateHolds, Since
<1> QED
  BY <1>3, <1>4, <1>6, <1>7, <1>8, <1>9, <1>10 DEF IInv

\* Every step keeps it.
LEMMA NextKeeps ==
    ASSUME IInv, [Next]_vars
    PROVE  IInv'
<1>1. /\ TypeInv /\ ConnsInv /\ BroadcastInv /\ SocketsInv
      /\ FeedInv /\ OrderInv /\ ShownInv /\ RateInv
  BY DEF IInv
<1>2. TypeInv'
  BY <1>1, TypeKept
<1>3. ConnsInv'
  BY <1>1, ConnsKept
<1>4. BroadcastInv'
  BY <1>1, BroadcastKept
<1>5. SocketsInv'
  BY <1>1, SocketsKept
<1>6. FeedInv'
  BY <1>1, FeedKept
<1>7. OrderInv'
  BY <1>1, OrderKept
<1>8. ShownInv'
  BY <1>1, <1>2, ShownKept
<1>9. RateInv'
  BY <1>1, <1>2, RateKept
<1> QED
  BY <1>2, <1>3, <1>4, <1>5, <1>6, <1>7, <1>8, <1>9 DEF IInv

\* It holds in every reachable state.
LEMMA InvHolds == Spec => []IInv
<1>1. Init => IInv
  BY InitHolds
<1>2. IInv /\ [Next]_vars => IInv'
  BY NextKeeps
<1> QED
  BY <1>1, <1>2, PTL DEF Spec

\* The variables keep their types.
THEOREM TypeCorrect == Spec => []TypeInv
<1>1. IInv => TypeInv
  BY DEF IInv
<1> QED
  BY <1>1, InvHolds, PTL

\* At most Rate events pass in any second, wherever it begins, for every rate
\* and every timing of the events (live_broadcast.py:27-40).
THEOREM RateIsKept == Spec => []RateHolds
<1>1. IInv => RateHolds
  BY DEF IInv, RateInv
<1> QED
  BY <1>1, InvHolds, PTL

\* A feed that agrees with the due events, place by place, is the beginning of
\* them; one that is as long, or lacks only the last, is whole with it.
LEMMA FeedIsDue ==
    ASSUME NEW n \in Nat, NEW s \in Seq(Nat), NEW g \in Seq(Nat), n + Len(g) <= Len(s),
           \A k \in 1 .. Len(g) : g[k] = s[n + k]
    PROVE  /\ IsPrefix(g, SubSeq(s, n + 1, Len(s)))
           /\ n + Len(g) = Len(s) => g \o <<>> = SubSeq(s, n + 1, Len(s))
           /\ n + Len(g) = Len(s) - 1 => g \o <<s[Len(s)]>> = SubSeq(s, n + 1, Len(s))
<1>1. PICK m \in Nat, q \in Nat :
          m = Len(g) /\ q = Len(s) /\ DOMAIN s = 1 .. q /\ DOMAIN g = 1 .. m
  BY LenProperties
<1>2. n + m <= q /\ \A k \in 1 .. m : g[k] = s[n + k]
  BY <1>1
<1>3. PICK due : due = SubSeq(s, n + 1, q)
  OBVIOUS
<1>4. /\ due \in Seq(Nat) /\ Len(due) = q - n
      /\ \A k \in 1 .. q - n : due[k] = s[n + k]
  <2>1. \A i \in n + 1 .. q : s[i] \in Nat
    <3>1. n + 1 .. q \subseteq 1 .. q
      OBVIOUS
    <3> QED
      BY <1>1, <3>1, ElementOfSeq
  <2>2. /\ due \in Seq(Nat) /\ Len(due) = IF n + 1 <= q THEN q - (n + 1) + 1 ELSE 0
        /\ \A k \in 1 .. (q - (n + 1) + 1) : due[k] = s[n + 1 + k - 1]
    <3>1. n + 1 \in Int /\ q \in Int
      OBVIOUS
    <3> QED
      BY <1>3, <2>1, <3>1, SubSeqProperties
  <2>3. q - (n + 1) + 1 = q - n /\ (~ (n + 1 <= q) => q - n = 0)
    BY <1>2
  <2>4. Len(due) = q - n
    BY <2>2, <2>3
  <2>5. ASSUME NEW k \in 1 .. q - n
        PROVE  due[k] = s[n + k]
    <3>1. k \in 1 .. (q - (n + 1) + 1) /\ n + 1 + k - 1 = n + k
      OBVIOUS
    <3> QED
      BY <2>2, <3>1
  <2> QED
    BY <2>2, <2>4, <2>5
<1>5. m <= q - n /\ \A k \in 1 .. m : due[k] = g[k] /\ due[k] \in Nat
  <2>1. m <= q - n /\ \A k \in 1 .. m : k \in 1 .. q - n
    BY <1>2
  <2> QED
    BY <1>1, <1>2, <1>4, <2>1, ElementOfSeq
<1>6. IsPrefix(g, due)
  <2>1. /\ SubSeq(due, 1, m) \in Seq(Nat)
        /\ Len(SubSeq(due, 1, m)) = IF 1 <= m THEN m - 1 + 1 ELSE 0
        /\ \A k \in 1 .. m - 1 + 1 : SubSeq(due, 1, m)[k] = due[1 + k - 1]
    BY <1>5, SubSeqProperties
  <2>2. Len(SubSeq(due, 1, m)) = m
    BY <2>1
  <2>3. \A k \in 1 .. m : SubSeq(due, 1, m)[k] = g[k]
    BY <1>5, <2>1
  <2>4. SubSeq(due, 1, m) = g
    BY <1>1, <2>1, <2>2, <2>3, SeqEqual
  <2>5. SubSeq(g, 1, m) = g
    BY <1>1, SubSeqFull
  <2>6. Len(g) <= Len(due)
    BY <1>1, <1>4, <1>5
  <2> QED
    BY <1>1, <2>4, <2>5, <2>6 DEF IsPrefix
<1>7. ASSUME n + m = q
      PROVE  g \o <<>> = due
  <2>1. m = q - n
    BY <1>7
  <2> QED
    BY <1>1, <1>4, <1>5, <2>1, SeqEqual, ConcatEmptySeq
<1>8. ASSUME n + m = q - 1
      PROVE  g \o <<s[q]>> = due
  <2>1. m + 1 = q - n /\ n + (m + 1) = q /\ q \in 1 .. q /\ m + 1 \in 1 .. q - n
    BY <1>8
  <2>2. PICK e \in Nat : e = s[q]
    BY <1>1, <2>1, ElementOfSeq
  <2>3. due[m + 1] = e
    BY <1>4, <2>1, <2>2
  <2>4. PICK a \in Seq(Nat) :
            /\ a = Append(g, e) /\ Len(a) = m + 1
            /\ \A k \in 1 .. m : a[k] = g[k]
            /\ a[m + 1] = e
    <3>1. /\ Append(g, e) \in Seq(Nat) /\ Len(Append(g, e)) = Len(g) + 1
          /\ \A k \in 1 .. Len(g) : Append(g, e)[k] = g[k]
          /\ Append(g, e)[Len(g) + 1] = e
      BY AppendIs
    <3> QED
      BY <1>1, <3>1
  <2>5. ASSUME NEW k \in 1 .. m + 1
        PROVE  a[k] = due[k]
    <3>1. CASE k \in 1 .. m
      BY <1>5, <2>4, <3>1
    <3>2. CASE k = m + 1
      BY <2>3, <2>4, <3>2
    <3> QED
      BY <3>1, <3>2
  <2>6. a = due
    BY <1>4, <2>1, <2>4, <2>5, SeqEqual
  <2>7. a = g \o <<e>>
    BY <2>4, AppendIsConcat
  <2> QED
    BY <2>2, <2>6, <2>7
<1> QED
  BY <1>1, <1>3, <1>6, <1>7, <1>8

\* A client gets what is broadcast in order, each broadcast once, from the
\* moment it is added until its connection breaks, for any number of clients
\* and whatever they do in the middle of a broadcast (websocket.py:25-36).
THEOREM FeedIsWhole == Spec => []FeedHasNoGap
<1>1. ASSUME IInv PROVE FeedHasNoGap
  <2>1. TypeInv /\ ConnsInv /\ BroadcastInv /\ FeedInv
    BY <1>1 DEF IInv
  <2>2. ASSUME NEW c \in Conns
        PROVE  LET due    == SubSeq(sent, joined[c] + 1, Len(sent))
                   coming == IF c \in ToSet(targets) THEN <<Head(events)>> ELSE <<>>
               IN  /\ IsPrefix(got[c], due)
                   /\ c \in clients /\ net[c] = "up" => got[c] \o coming = due
    <3>1. /\ joined[c] \in Nat /\ sent \in Seq(Nat) /\ got[c] \in Seq(Nat)
          /\ joined[c] + Len(got[c]) <= Len(sent)
          /\ \A k \in 1 .. Len(got[c]) : got[c][k] = sent[joined[c] + k]
      BY <2>1 DEF TypeInv, FeedInv
    <3>2. /\ IsPrefix(got[c], SubSeq(sent, joined[c] + 1, Len(sent)))
          /\ joined[c] + Len(got[c]) = Len(sent)
                => got[c] \o <<>> = SubSeq(sent, joined[c] + 1, Len(sent))
          /\ joined[c] + Len(got[c]) = Len(sent) - 1
                => got[c] \o <<sent[Len(sent)]>> = SubSeq(sent, joined[c] + 1, Len(sent))
      BY <3>1, FeedIsDue
    <3>3. CASE c \in ToSet(targets)
      <4>1. targets # <<>>
        BY <3>3, HoldsType
      <4>2. sent[Len(sent)] = Head(events)
        BY <2>1, <4>1 DEF BroadcastInv
      <4>3. c \in clients /\ net[c] = "up" => joined[c] + Len(got[c]) = Len(sent) - 1
        BY <2>1, <3>3 DEF FeedInv
      <4> QED
        BY <3>2, <3>3, <4>2, <4>3
    <3>4. CASE c \notin ToSet(targets)
      <4>1. c \in clients /\ net[c] = "up" => joined[c] + Len(got[c]) = Len(sent)
        BY <2>1, <3>4 DEF FeedInv
      <4> QED
        BY <3>2, <3>4, <4>1
    <3> QED
      BY <3>3, <3>4
  <2> QED
    BY <2>2 DEF FeedHasNoGap
<1>2. IInv => FeedHasNoGap
  BY <1>1
<1> QED
  BY <1>2, InvHolds, PTL

\* However often its connections break, whoever closes them and whenever the
\* process ends, the page keeps one socket, open or about to reconnect, for each
\* mount (api.js:56-90, main.jsx:7-12). It shows an event at most once for each
\* of them and each time the consumer has read it, in however many processes and
\* assignments of the partition that was (live_broadcast.py:5-6).
THEOREM SocketPerMount == Spec => []OneSocketPerMount
<1>1. ASSUME IInv PROVE OneSocketPerMount
  <2>1. TypeInv /\ SocketsInv /\ ShownInv
    BY <1>1 DEF IInv
  <2>2. ASSUME NEW e \in 1 .. Events
        PROVE  shown[e] <= Mounts * (1 + reread[e])
    <3>1. Left(e) \in Nat /\ shown[e] + Left(e) <= Mounts * Reads(e)
      BY <2>1, LeftType DEF ShownInv
    <3>2. PICK a \in Nat, l \in Nat, k \in Nat, r \in Nat :
              a = shown[e] /\ l = Left(e) /\ k = reread[e] /\ r = Reads(e)
      BY <2>1, <3>1, ReadsType DEF TypeInv
    <3>3. r <= 1 + k
      BY <3>2 DEF Reads
    <3>4. a + l <= Mounts * r
      BY <3>1, <3>2
    <3>5. a <= Mounts * (1 + k)
      BY <3>3, <3>4, MoreReads
    <3> QED
      BY <3>2, <3>5
  <2> QED
    BY <2>1, <2>2 DEF OneSocketPerMount, SocketsInv
<1>2. IInv => OneSocketPerMount
  BY <1>1
<1> QED
  BY <1>2, InvHolds, PTL
===============================================================================
