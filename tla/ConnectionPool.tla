---------------------------- MODULE ConnectionPool ----------------------------
(***************************************************************************)
(* The pool of node connections behind the WebSocket server                *)
(* (src/ws/pool.ts, src/ws/connectionManager.ts and                        *)
(* src/ws/handlers/disconnectHandler.ts).                                  *)
(*                                                                         *)
(* A node dials again and again; every attempt is a socket with the number *)
(* of the attempt as its generation, 0 for a legacy node.  Handshakes and  *)
(* close events reach the server late and out of order.  The manager runs  *)
(* each handler without a pause, so a handler is one step.                 *)
(***************************************************************************)
EXTENDS Integers, Sequences, FiniteSets

CONSTANTS
    Nodes,
    Legacy,      \* nodes that send no generation
    Capacity,    \* entries the pool may hold
    MaxDials     \* bound: attempts of a node

ASSUME PoolAssumption ==
    /\ IsFiniteSet(Nodes) /\ Legacy \subseteq Nodes
    /\ Capacity \in Nat \ {0} /\ MaxDials \in Nat

VARIABLES
    slot,       \* the pool's entry for each node
    timers,     \* <<node, attempt>>: the grace timers set for the entry's socket
    dialled,    \* how often each node has dialled
    arriving,   \* <<node, attempt>>: handshakes on their way to the server
    open,       \* accepted sockets that are open
    closing,    \* accepted sockets whose close event is on its way
    queue,      \* the local event queue
    scheduled,  \* flushScheduled
    delivered   \* the node_disconnected events its subscribers have seen

poolVars == <<slot, timers, dialled, arriving, open, closing, queue, scheduled, delivered>>

NoSlot == [state |-> "none", gen |-> 0, socket |-> 0]
Gen(n, k) == IF n \in Legacy THEN 0 ELSE k
Size == Cardinality({n \in Nodes : slot[n].state # "none"})

PoolInit ==
    /\ slot = [n \in Nodes |-> NoSlot]
    /\ timers = {}
    /\ dialled = [n \in Nodes |-> 0]
    /\ arriving = {} /\ open = {} /\ closing = {}
    /\ queue = <<>> /\ scheduled = FALSE /\ delivered = {}

-----------------------------------------------------------------------------
(* ConnectionPool *)

\* Mutant: the capacity is tested for nodes that hold a slot too.
Accepts_FullForAll(s, n, gen) ==
    /\ Cardinality({m \in Nodes : s[m].state # "none"}) < Capacity
    /\ s[n].state # "connected"
    /\ s[n].state = "disconnecting" => gen > s[n].gen \/ gen = 0

\* add() takes the connection: there is room or the node has its slot already,
\* and a slot in its grace window goes to a newer generation only.
Accepts(s, n, gen) ==
    /\ s[n].state = "none" => Cardinality({m \in Nodes : s[m].state # "none"}) < Capacity
    /\ s[n].state # "connected"
    /\ s[n].state = "disconnecting" => gen > s[n].gen \/ gen = 0

\* Mutant: _replaceEntry() keeps the old socket.
Added_KeepsSocket(s, n, k) ==
    [s EXCEPT ![n] = [state |-> "connected", gen |-> Gen(n, k),
                      socket |-> IF s[n].state = "none" THEN k ELSE s[n].socket]]

\* A new entry, or _replaceEntry().
Added(s, n, k) ==
    [s EXCEPT ![n] = [state |-> "connected", gen |-> Gen(n, k), socket |-> k]]

\* Mutants: the generation is not looked at; an equal one counts as advanced.
Disconnects_AnyGen(n, gen) == slot[n].state = "connected"
Disconnects_NotOwn(n, gen) == slot[n].state = "connected" /\ slot[n].gen < gen

\* beginDisconnect() applies: the entry is connected and has not advanced.
Disconnects(n, gen) == slot[n].state = "connected" /\ slot[n].gen <= gen

\* beginDisconnect() sets the state and a timer.
BeginDisconnect(n) == [slot EXCEPT ![n].state = "disconnecting"]
Armed(n) == timers \union {<<n, slot[n].socket>>}

\* Mutant: the timer is left to run.
Cancelled_Keeps(s, ts, n) == ts

\* clearTimeout() of the entry's timer, if it has one.
Cancelled(s, ts, n) == ts \ {<<n, s[n].socket>>}

-----------------------------------------------------------------------------
(* ConnectionManager *)

\* add() on the slots `s` and their timers; whoever calls it closes the socket if
\* it throws.
Add(s, ts, n, k) ==
    \/ /\ Accepts(s, n, Gen(n, k))
       /\ slot' = Added(s, n, k)
       /\ timers' = Cancelled(s, ts, n)
       /\ open' = open \union {<<n, k>>}
    \/ /\ ~Accepts(s, n, Gen(n, k))
       /\ slot' = s
       /\ timers' = ts
       /\ UNCHANGED open

HandleConnect(n, k) ==
    /\ <<n, k>> \in arriving
    /\ arriving' = arriving \ {<<n, k>>}
    /\ Add(slot, timers, n, k)
    /\ UNCHANGED <<dialled, closing, queue, scheduled, delivered>>

\* A connected slot enters its grace window first, whatever the generation.
HandleReconnect(n, k) ==
    /\ <<n, k>> \in arriving
    /\ arriving' = arriving \ {<<n, k>>}
    /\ IF slot[n].state = "connected"
       THEN Add(BeginDisconnect(n), Armed(n), n, k)
       ELSE Add(slot, timers, n, k)
    /\ UNCHANGED <<dialled, closing, queue, scheduled, delivered>>

\* The close event of a socket; the disconnect is announced if it applied.
HandleDisconnect(n, k) ==
    /\ <<n, k>> \in closing
    /\ closing' = closing \ {<<n, k>>}
    /\ \/ /\ Disconnects(n, Gen(n, k))
          /\ slot' = BeginDisconnect(n)
          /\ timers' = Armed(n)
          /\ queue' = Append(queue, <<n, k>>)
          /\ scheduled' = TRUE
       \/ /\ ~Disconnects(n, Gen(n, k))
          /\ UNCHANGED <<slot, timers, queue, scheduled>>
    /\ UNCHANGED <<dialled, arriving, open, delivered>>

\* Mutant: one event per callback.
Flush_OneEvent ==
    /\ scheduled
    /\ scheduled' = FALSE
    /\ delivered' = delivered \union {Head(queue)}
    /\ queue' = Tail(queue)
    /\ UNCHANGED <<slot, timers, dialled, arriving, open, closing>>

\* The local queue's setImmediate callback.
Flush ==
    /\ scheduled
    /\ scheduled' = FALSE
    /\ delivered' = delivered \union {queue[i] : i \in DOMAIN queue}
    /\ queue' = <<>>
    /\ UNCHANGED <<slot, timers, dialled, arriving, open, closing>>

\* The grace timer set for the socket of attempt k fires.  It compares the entry's
\* generation with that of the entry it was set for, read when it fires: an entry is
\* replaced in place, so that they are one object and the comparison tells nothing.
ExpireGraceWindow(n, k) ==
    /\ <<n, k>> \in timers
    /\ timers' = timers \ {<<n, k>>}
    /\ slot' = IF slot[n].state = "disconnecting" THEN [slot EXCEPT ![n] = NoSlot] ELSE slot
    /\ UNCHANGED <<dialled, arriving, open, closing, queue, scheduled, delivered>>

\* forceRemove() leaves the socket alone.
Evict(n) ==
    /\ slot[n].state # "none"
    /\ slot' = [slot EXCEPT ![n] = NoSlot]
    /\ timers' = Cancelled(slot, timers, n)
    /\ UNCHANGED <<dialled, arriving, open, closing, queue, scheduled, delivered>>

\* clear()
Shutdown ==
    /\ \E n \in Nodes : slot[n].state # "none"
    /\ slot' = [n \in Nodes |-> NoSlot]
    /\ timers' = {t \in timers : \A n \in Nodes : t \in Cancelled(slot, timers, n)}
    /\ UNCHANGED <<dialled, arriving, open, closing, queue, scheduled, delivered>>

-----------------------------------------------------------------------------
(* The nodes and the network *)

Dial(n) ==
    /\ dialled[n] < MaxDials
    /\ dialled' = [dialled EXCEPT ![n] = @ + 1]
    /\ arriving' = arriving \union {<<n, dialled'[n]>>}
    /\ UNCHANGED <<slot, timers, open, closing, queue, scheduled, delivered>>

SocketCloses(n, k) ==
    /\ <<n, k>> \in open
    /\ open' = open \ {<<n, k>>}
    /\ closing' = closing \union {<<n, k>>}
    /\ UNCHANGED <<slot, timers, dialled, arriving, queue, scheduled, delivered>>

PoolNext ==
    \/ \E n \in Nodes :
          \/ Dial(n) \/ Evict(n)
          \/ \E k \in 1..MaxDials :
                HandleConnect(n, k) \/ HandleReconnect(n, k) \/ HandleDisconnect(n, k)
                    \/ ExpireGraceWindow(n, k) \/ SocketCloses(n, k)
    \/ Flush \/ Shutdown

PoolSpec == PoolInit /\ [][PoolNext]_poolVars

\* Close events, timers and immediates run; nothing is assumed of the nodes.
PoolFairSpec ==
    /\ PoolSpec
    /\ WF_poolVars(Flush)
    /\ \A n \in Nodes : \A k \in 1..MaxDials :
          WF_poolVars(ExpireGraceWindow(n, k)) /\ WF_poolVars(HandleDisconnect(n, k))

-----------------------------------------------------------------------------
Sockets == Nodes \X (1..MaxDials)
Slots == [state : {"none", "connected", "disconnecting"}, gen : 0..MaxDials, socket : 0..MaxDials]

\* The pool never holds more entries than its capacity, however connects,
\* grace windows and reconnects overlap (add).
PoolTypeOK ==
    /\ slot \in [Nodes -> Slots] /\ timers \subseteq Sockets
    /\ dialled \in [Nodes -> 0..MaxDials]
    /\ arriving \subseteq Sockets /\ open \subseteq Sockets /\ closing \subseteq Sockets
    /\ queue \in Seq(Sockets) /\ scheduled \in BOOLEAN /\ delivered \subseteq Sockets
    /\ Size <= Capacity

\* No zombie takes up a slot: a connected entry's socket is open, or its close
\* event is still to come and will be heeded (handleDisconnect, beginDisconnect).
ConnectedIsAlive ==
    \A n \in Nodes : slot[n].state = "connected" => <<n, slot[n].socket>> \in open \union closing

Modern == Nodes \ Legacy

\* The late close event of an older socket never touches the connection that
\* replaced it: an entry leaves "connected" while its socket is open only by a
\* handshake, by an eviction, or when a newer socket closes that was evicted
\* before the older one arrived (handleDisconnect).
LateCloseIsHarmless ==
    [][\A n \in Modern :
          slot[n].state = "connected" /\ <<n, slot[n].socket>> \in open /\ slot'[n] # slot[n] =>
             \/ slot'[n].state = "none"
             \/ \E k \in 1..MaxDials : <<n, k>> \in arriving \ arriving'
             \/ \E k \in 1..MaxDials : <<n, k>> \in closing \ closing' /\ k > slot[n].gen
      ]_poolVars

\* "A rapid reconnect can claim it without being rejected" (pool.ts:12-13): a
\* newer attempt that arrives in the grace window gets the slot, even from a
\* full pool, and the slot's generation only rises while it is held (add).
RapidReconnectWins ==
    [][\A n \in Modern : slot[n].state = "disconnecting" =>
          /\ \A k \in 1..MaxDials :
                <<n, k>> \in arriving \ arriving' /\ k > slot[n].gen => slot'[n].socket = k
          /\ slot'[n].state # "none" => slot'[n].gen >= slot[n].gen
      ]_poolVars

\* A connection has its own grace window to come back in, whatever windows the node
\* had before: a timer that fires and takes an entry with it was set for the entry's
\* socket, never left over from a connection that was replaced or evicted
\* (_replaceEntry, forceRemove, _expireGraceWindow).
OwnTimerEndsWindow ==
    [][\A n \in Nodes : \A k \in 1..MaxDials :
          <<n, k>> \in timers \ timers' /\ slot[n].state # "none" /\ slot'[n].state = "none"
             => slot[n].socket = k
      ]_poolVars

\* The entry of a socket that has closed is freed or taken over in the end
\* (handleDisconnect, the grace timer).
ClosedSocketsLeave ==
    \A n \in Nodes : \A k \in 1..MaxDials :
        (slot[n].socket = k /\ <<n, k>> \notin open) ~> (slot[n].socket # k)

\* Every disconnect that was announced reaches the subscribers in the end, by a
\* flush that one of the enqueues scheduled (LocalEventQueue).
AnnouncedIsDelivered ==
    \A n \in Nodes : \A k \in 1..MaxDials :
        (\E i \in DOMAIN queue : queue[i] = <<n, k>>) ~> (<<n, k>> \in delivered)
=============================================================================
