------------------------------- MODULE LiveHub -------------------------------
(***************************************************************************)
(* The live feed: the consumer task of the API process                     *)
(* (services/live_broadcast.py), the WebSocket hub and its handlers        *)
(* (api/websocket.py), and a dashboard page that reconnects by itself      *)
(* (frontend/src/api.js).                                                  *)
(*                                                                         *)
(* The coroutines of the API process interleave at their awaits: between   *)
(* the events of a poll, between the clients of a broadcast, and between   *)
(* accepting a client and adding it.  A send to a broken connection raises *)
(* WebSocketDisconnect the first time and RuntimeError from then on; a     *)
(* send to a stalled one waits.                                            *)
(*                                                                         *)
(* The page is mounted `Mounts` times: React.StrictMode (main.jsx), in the *)
(* dev server the frontend image runs, mounts, unmounts and mounts again.  *)
(*                                                                         *)
(* The consumer commits by itself, now and then, what it has read, handled *)
(* or not.  A new process and a partition that is assigned anew go back to *)
(* the committed offset, so the tail shows the page some events again and  *)
(* others, committed but lost with the process, never; before the first    *)
(* commit they enter the topic at its end again.  The page outlives the    *)
(* process, and what it has shown is kept.                                 *)
(*                                                                         *)
(* Bounds: Events (the topic), MaxClock (ticks), Conns (connections ever   *)
(* opened), MaxFaults (connections that break or stall, rebalances,        *)
(* process ends).  The limiter and its history `allowed` are of one        *)
(* process; the other histories go on.                                     *)
(***************************************************************************)
EXTENDS Integers, FiniteSets, SequencesExt

CONSTANTS
    Events,      \* bound: events of wiki.raw
    Garbage,     \* those that do not decode
    DrainMax,    \* max_messages of _drain
    Rate,        \* settings.live_broadcast_max_rate_per_s
    Second,      \* ticks in a second
    MaxClock,    \* bound: the last tick
    Conns,       \* bound: connection identities, in the order they are opened
    Mounts,      \* mounts of the page: 2 under StrictMode, otherwise 1
    MaxFaults    \* bound, see above

ASSUME CountAssumption ==
    {DrainMax, Rate, Second} \subseteq Nat \ {0} /\ Events \in Nat /\ Conns \subseteq Nat
ASSUME MountAssumption == Mounts \in {1, 2}
ASSUME ConnAssumption == IsFiniteSet(Conns) /\ Cardinality(Conns) >= Mounts

VARIABLES
    clock,
    position,   \* events the consumer has read
    base,       \* where the group entered the topic, at its end
    committed,  \* events the auto-commit had covered when the consumer last lost its
                \* place, 0 before the first
    task,       \* where _run is; "down" when the process is
    events,     \* those of the last poll not yet handled
    window,     \* the limiter's _window
    targets,    \* clients the broadcast under way has still to reach
    dead,       \* clients it failed to reach
    clients,    \* hub.clients
    net,        \* each connection, as the network has it
    handler,    \* where its live_ws is
    closed,     \* connections the server has found broken
    mounted,    \* the page is open
    timers,     \* its pending reconnects
    faults,     \* faults so far (history, bounded)
    allowed,    \* the ticks at which events passed this process's limiter (history)
    sent,       \* the events broadcast (history)
    joined,     \* per connection, the length of sent when it was added (history)
    got,        \* per connection, what the page received (history)
    shown,      \* per event, how often the page showed it (history)
    reread      \* per event, how often the consumer went back before it (history)

kafkaVars   == <<position, base, committed>>
taskVars    == <<task, events, window, targets, dead>>
serverVars  == <<clients, handler, closed>>
pageVars    == <<mounted, timers>>
historyVars == <<allowed, sent, joined, got, shown, reread>>
vars == <<clock, position, base, committed, task, events, window, targets, dead, clients,
          net, handler, closed, mounted, timers, faults, allowed, sent, joined, got,
          shown, reread>>

Alive == {c \in Conns : net[c] \in {"connecting", "up", "stalled"}}

Unused == {c \in Conns : net[c] = "unused"}

NextConn == CHOOSE c \in Unused : \A d \in Unused : c <= d

\* The numbers of S in ascending order, as a set of one sequence.
InOrder(S) == {s \in SetToSeqs(S) : \A i, j \in DOMAIN s : i < j => s[i] < s[j]}
-------------------------------------------------------------------------------
(* The consumer task.                                                      *)

Tick ==
    /\ clock < MaxClock
    /\ clock' = clock + 1
    /\ UNCHANGED <<kafkaVars, taskVars, serverVars, net, pageVars, faults, historyVars>>

\* The consumer reads on from the committed offset, some events once more; or
\* from the end of the topic, as there is none ("latest").
Assign(offset) ==
    \/ /\ offset = 0
       /\ position' \in position .. Events
       /\ base' = position'
       /\ reread' = reread
    \/ /\ offset > 0
       /\ position' = offset
       /\ base' = base
       /\ reread' = [e \in 1 .. Events |->
                        IF offset < e /\ e <= position THEN reread[e] + 1 ELSE reread[e]]

\* What librdkafka may have committed by now, in its own time.
AutoCommitted == {committed} \union {n \in committed + 1 .. position : n > base}

\* start(): the consumer of a new process.
Start ==
    /\ task = "down"
    /\ task' = "poll"
    /\ Assign(committed)
    /\ UNCHANGED <<clock, committed, events, window, targets, dead, serverVars, net,
                   pageVars, faults, allowed, sent, joined, got, shown>>

\* The partition is assigned anew, whatever the task is at: a broadcast held up
\* beyond max.poll.interval.ms, a lost session, a second API process. What was
\* polled is still broadcast.
Rebalance ==
    /\ task # "down"
    /\ faults < MaxFaults
    /\ faults' = faults + 1
    /\ committed' \in AutoCommitted
    /\ Assign(committed')
    /\ UNCHANGED <<clock, taskVars, serverVars, net, pageVars, allowed, sent, joined, got,
                   shown>>

\* _drain, in a thread: what is there, up to DrainMax.
Poll ==
    /\ task = "poll"
    /\ \E n \in 1 .. DrainMax :
          /\ position + n <= Events
          /\ position' = position + n
          /\ events' \in InOrder((position + 1 .. position + n) \ Garbage)
    /\ task' = "deliver"
    /\ UNCHANGED <<clock, base, committed, window, targets, dead, serverVars, net, pageVars,
                   faults, historyVars>>

\* What is left of the window at the places S, as a set of one sequence.
Keeping(S) == {[k \in DOMAIN p |-> window[p[k]]] : p \in InOrder(S)}

Recent_FixedSecond == Keeping({i \in DOMAIN window : window[i] \div Second = clock \div Second})

\* The part of the window less than a second old.
Recent == Keeping({i \in DOMAIN window : clock - window[i] < Second})

Drops ==
    /\ task = "deliver" /\ events # <<>>
    /\ \E recent \in Recent : Len(recent) >= Rate /\ window' = recent
    /\ events' = Tail(events)
    /\ UNCHANGED <<clock, kafkaVars, task, targets, dead, serverVars, net, pageVars,
                   faults, historyVars>>

\* The limiter lets an event pass; its broadcast goes to a copy of the clients,
\* in the order of a set.
Broadcast ==
    /\ task = "deliver" /\ events # <<>>
    /\ \E recent \in Recent : Len(recent) < Rate /\ window' = Append(recent, clock)
    /\ targets' \in SetToSeqs(clients)
    /\ dead' = {}
    /\ task' = "send"
    /\ allowed' = Append(allowed, clock)
    /\ sent' = Append(sent, Head(events))
    /\ UNCHANGED <<clock, kafkaVars, events, serverVars, net, pageVars, faults, joined, got,
                   shown, reread>>

\* The client gets the event, and the page shows it (onEvent).
Send ==
    /\ task = "send" /\ targets # <<>>
    /\ net[Head(targets)] = "up"
    /\ got' = [got EXCEPT ![Head(targets)] = Append(@, Head(events))]
    /\ shown' = [shown EXCEPT ![Head(events)] = @ + 1]
    /\ targets' = Tail(targets)
    /\ UNCHANGED <<clock, kafkaVars, task, events, window, dead, serverVars, net,
                   pageVars, faults, allowed, sent, joined, reread>>

SendRaises_EndsBroadcast ==
    /\ task = "send" /\ targets # <<>>
    /\ net[Head(targets)] = "broken"
    /\ dead' = dead \union {Head(targets)}
    /\ closed' = closed \union {Head(targets)}
    /\ targets' = <<>>
    /\ UNCHANGED <<clock, kafkaVars, task, events, window, clients, handler, net,
                   pageVars, faults, historyVars>>

\* Any exception counts the client as dead; the others get the event.
SendRaises ==
    /\ task = "send" /\ targets # <<>>
    /\ net[Head(targets)] = "broken"
    /\ dead' = dead \union {Head(targets)}
    /\ closed' = closed \union {Head(targets)}
    /\ targets' = Tail(targets)
    /\ UNCHANGED <<clock, kafkaVars, task, events, window, clients, handler, net,
                   pageVars, faults, historyVars>>

SendDone_KeepsDead ==
    /\ task = "send" /\ targets = <<>>
    /\ events' = Tail(events)
    /\ task' = "deliver"
    /\ dead' = {}
    /\ UNCHANGED <<clock, kafkaVars, window, targets, serverVars, net, pageVars,
                   faults, historyVars>>

SendDone ==
    /\ task = "send" /\ targets = <<>>
    /\ clients' = clients \ dead
    /\ events' = Tail(events)
    /\ task' = "deliver"
    /\ dead' = {}
    /\ UNCHANGED <<clock, kafkaVars, window, targets, handler, closed, net, pageVars,
                   faults, historyVars>>

PollAgain ==
    /\ task = "deliver" /\ events = <<>>
    /\ task' = "poll"
    /\ UNCHANGED <<clock, kafkaVars, events, window, targets, dead, serverVars, net,
                   pageVars, faults, historyVars>>

-------------------------------------------------------------------------------
(* The handlers.                                                           *)

\* connect(): accepted first, then added; a client that has gone is neither.
Accept(c) ==
    /\ handler[c] = "accept"
    /\ IF net[c] = "connecting"
       THEN /\ net' = [net EXCEPT ![c] = "up"]
            /\ handler' = [handler EXCEPT ![c] = "add"]
       ELSE /\ net' = net
            /\ handler' = [handler EXCEPT ![c] = "ended"]
    /\ UNCHANGED <<clock, kafkaVars, taskVars, clients, closed, pageVars, faults, historyVars>>

Add(c) ==
    /\ handler[c] = "add"
    /\ handler' = [handler EXCEPT ![c] = "loop"]
    /\ clients' = clients \union {c}
    /\ joined' = [joined EXCEPT ![c] = Len(sent)]
    /\ UNCHANGED <<clock, kafkaVars, taskVars, closed, net, pageVars, faults,
                   allowed, sent, got, shown, reread>>

\* A ping finds the connection broken. Only the first to find it gets the
\* exception that removes the client.
PingRaises(c) ==
    /\ handler[c] = "loop"
    /\ net[c] = "broken"
    /\ handler' = [handler EXCEPT ![c] = "ended"]
    /\ closed' = closed \union {c}
    /\ clients' = IF c \in closed THEN clients ELSE clients \ {c}
    /\ UNCHANGED <<clock, kafkaVars, taskVars, net, pageVars, faults, historyVars>>

-------------------------------------------------------------------------------
(* The page and the network.                                               *)

\* useEffect: connect; under StrictMode the first socket is closed again at
\* once, and its onclose sets a timer like any other.
Mount ==
    /\ ~mounted /\ \A c \in Conns : net[c] = "unused"
    /\ task # "down"
    /\ mounted' = TRUE
    /\ LET first == NextConn
           second == CHOOSE d \in Unused \ {first} : \A e \in Unused \ {first} : d <= e
       IN  IF Mounts = 1
           THEN /\ net' = [net EXCEPT ![first] = "connecting"]
                /\ handler' = [handler EXCEPT ![first] = "accept"]
                /\ timers' = 0
           ELSE /\ net' = [net EXCEPT ![first] = "broken", ![second] = "connecting"]
                /\ handler' = [handler EXCEPT ![first] = "accept", ![second] = "accept"]
                /\ timers' = 1
    /\ UNCHANGED <<clock, kafkaVars, taskVars, clients, closed, faults, historyVars>>

OnClose_AndOnError(broken) == timers' = IF mounted THEN timers + 2 * Cardinality(broken) ELSE timers

OnClose_OnlyOnce(broken) == timers' = IF mounted /\ timers > 0 THEN timers + 1 ELSE timers

\* onclose sets one timer for each socket that closed.
OnClose(broken) == timers' = IF mounted THEN timers + Cardinality(broken) ELSE timers

\* Three seconds later. While the process is down the attempt fails, and sets
\* the timer again.
Reconnect ==
    /\ mounted /\ timers > 0 /\ Unused # {}
    /\ task # "down"
    /\ timers' = timers - 1
    /\ net' = [net EXCEPT ![NextConn] = "connecting"]
    /\ handler' = [handler EXCEPT ![NextConn] = "accept"]
    /\ UNCHANGED <<clock, kafkaVars, taskVars, clients, closed, mounted, faults, historyVars>>

Break(c) ==
    /\ c \in Alive
    /\ faults < MaxFaults
    /\ faults' = faults + 1
    /\ net' = [net EXCEPT ![c] = "broken"]
    /\ OnClose({c})
    /\ UNCHANGED <<clock, kafkaVars, taskVars, serverVars, mounted, historyVars>>

\* The peer stops reading without closing.
Stall(c) ==
    /\ net[c] = "up"
    /\ faults < MaxFaults
    /\ faults' = faults + 1
    /\ net' = [net EXCEPT ![c] = "stalled"]
    /\ UNCHANGED <<clock, kafkaVars, taskVars, serverVars, pageVars, historyVars>>

\* The server's keepalive gives a stalled connection up.
KeepaliveTimeout(c) ==
    /\ net[c] = "stalled"
    /\ net' = [net EXCEPT ![c] = "broken"]
    /\ OnClose({c})
    /\ UNCHANGED <<clock, kafkaVars, taskVars, serverVars, mounted, faults, historyVars>>

\* The tab is closed, and its timers with it.
TabCloses ==
    /\ mounted
    /\ mounted' = FALSE
    /\ timers' = 0
    /\ net' = [c \in Conns |-> IF net[c] \in {"unused", "broken"} THEN net[c] ELSE "broken"]
    /\ UNCHANGED <<clock, kafkaVars, taskVars, serverVars, faults, historyVars>>

\* The API process ends, by a crash or by stop(): the task is cancelled at an
\* await, a poll that runs in its thread is lost, the consumer is not closed.
ProcessEnds ==
    /\ task # "down"
    /\ faults < MaxFaults
    /\ faults' = faults + 1
    /\ task' = "down"
    /\ events' = <<>> /\ window' = <<>> /\ targets' = <<>> /\ dead' = {}
    /\ clients' = {} /\ closed' = {}
    /\ handler' = [c \in Conns |-> IF handler[c] = "none" THEN "none" ELSE "ended"]
    /\ net' = [c \in Conns |-> IF c \in Alive THEN "broken" ELSE net[c]]
    /\ OnClose(Alive)
    /\ allowed' = <<>>
    /\ committed' \in AutoCommitted
    /\ UNCHANGED <<clock, position, base, mounted, sent, joined, got, shown, reread>>

Init ==
    /\ clock = 0
    /\ position = 0 /\ base = 0 /\ committed = 0
    /\ task = "down" /\ events = <<>> /\ window = <<>> /\ targets = <<>> /\ dead = {}
    /\ clients = {} /\ closed = {}
    /\ net = [c \in Conns |-> "unused"]
    /\ handler = [c \in Conns |-> "none"]
    /\ mounted = FALSE /\ timers = 0
    /\ faults = 0
    /\ allowed = <<>> /\ sent = <<>>
    /\ joined = [c \in Conns |-> 0] /\ got = [c \in Conns |-> <<>>]
    /\ shown = [e \in 1 .. Events |-> 0] /\ reread = [e \in 1 .. Events |-> 0]

TaskStep == Start \/ Poll \/ Drops \/ Broadcast \/ Send \/ SendRaises \/ SendDone \/ PollAgain

Next ==
    \/ Tick \/ TaskStep
    \/ \E c \in Conns : Accept(c) \/ Add(c) \/ PingRaises(c)
    \/ Mount \/ Reconnect \/ TabCloses
    \/ \E c \in Conns : Break(c) \/ Stall(c) \/ KeepaliveTimeout(c)
    \/ Rebalance \/ ProcessEnds

Spec == Init /\ [][Next]_vars

\* The event loop runs every coroutine that can go on, every 15 seconds each
\* handler tries its connection, the keepalive (20 s) ends a stall, the page's
\* timers fire, docker restarts the process. Nothing forces the topic to have
\* more events.
Fairness ==
    /\ WF_vars(TaskStep /\ task # "poll")
    /\ WF_vars(\E c \in Conns : Accept(c) \/ Add(c) \/ PingRaises(c))
    /\ WF_vars(\E c \in Conns : KeepaliveTimeout(c))
    /\ WF_vars(Reconnect)

FairSpec == Spec /\ Fairness
-------------------------------------------------------------------------------
(* Properties.                                                             *)

\* At most Rate events pass in any second, wherever it begins: the limiter's
\* window forgets no event that still counts (live_broadcast.py:27-40).
RateHolds ==
    \A i \in DOMAIN allowed :
        Cardinality({j \in DOMAIN allowed :
                        allowed[j] >= allowed[i] /\ allowed[j] < allowed[i] + Second}) <= Rate

\* A client gets what is broadcast, in order, each broadcast once and none left
\* out, from the moment it is added until its connection breaks, whatever clients
\* come, go or break in the middle of a broadcast (websocket.py:25-36).
FeedHasNoGap ==
    \A c \in Conns :
        LET due    == SubSeq(sent, joined[c] + 1, Len(sent))
            coming == IF c \in ToSet(targets) THEN <<Head(events)>> ELSE <<>>
        IN  /\ IsPrefix(got[c], due)
            /\ c \in clients /\ net[c] = "up" => got[c] \o coming = due

\* The page keeps one socket, open or about to reconnect, for each mount. So it
\* shows an event once for each mount, and as often again each time the consumer
\* went back before it (live_broadcast.py:5-6), but never more, whatever breaks,
\* and however long the page outlives the process.
OneSocketPerMount ==
    /\ mounted => Cardinality(Alive) + timers = Mounts
    /\ \A e \in 1 .. Events : shown[e] <= Mounts * (1 + reread[e])

\* A client whose connection broke leaves hub.clients, by whichever of its
\* handler and the broadcasts finds it first (websocket.py:31-36, 64-65), and
\* although a stalled client holds up the broadcast.
DeadAreForgotten == \A c \in Conns : (c \in clients /\ net[c] = "broken") ~> c \notin clients

\* An open page is connected again in the end.
PageComesBack == mounted ~> (\E c \in clients : net[c] = "up") \/ ~mounted
===============================================================================
