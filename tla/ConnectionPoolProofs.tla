------------------------- MODULE ConnectionPoolProofs -------------------------
(***************************************************************************)
(* What TLAPS proves about the connection pool, for any nodes, any         *)
(* capacity and any number of attempts: the capacity holds, a connected    *)
(* entry is alive, the late close of an older socket does no harm, a rapid *)
(* reconnect gets its slot and only its own timer ends a grace window.     *)
(***************************************************************************)
EXTENDS ConnectionPool, FiniteSetTheorems, TLAPS

\* An attempt is arriving, open or closing, one at a time, and was dialled.
SocketInv ==
    /\ arriving \cap (open \union closing) = {} /\ open \cap closing = {}
    /\ \A n \in Nodes : \A k \in 1..MaxDials :
          <<n, k>> \in arriving \union open \union closing => k <= dialled[n]

\* An entry's generation is that of its socket.
SlotInv ==
    \A n \in Nodes : slot[n].state # "none" => slot[n].gen = Gen(n, slot[n].socket)

\* A timer runs for the socket of an entry in its grace window, and for no other.
Belong(s, ts) ==
    /\ DOMAIN s = Nodes /\ ts \subseteq Sockets
    /\ \A n \in Nodes : \A k \in 1..MaxDials :
          <<n, k>> \in ts => s[n].state = "disconnecting" /\ s[n].socket = k
TimerInv == Belong(slot, timers)

PoolInv == PoolTypeOK /\ ConnectedIsAlive /\ SocketInv /\ SlotInv /\ TimerInv

Held(s) == {n \in Nodes : s[n].state # "none"}

USE PoolAssumption

-----------------------------------------------------------------------------
LEMMA HeldIsFinite ==
    ASSUME NEW s
    PROVE  IsFiniteSet(Held(s)) /\ Cardinality(Held(s)) \in Nat
  <1>1. Held(s) \subseteq Nodes
    BY DEF Held
  <1> QED
    BY <1>1, FS_Subset, FS_CardinalityType

\* Slots change hands without a new entry unless there is room for one.
LEMMA RoomIsKept ==
    ASSUME NEW s, NEW t, Cardinality(Held(s)) <= Capacity, NEW n \in Nodes,
           \A m \in Nodes : m # n /\ t[m].state # "none" => s[m].state # "none",
           s[n].state = "none" => t[n].state = "none" \/ Cardinality(Held(s)) < Capacity
    PROVE  Cardinality(Held(t)) <= Capacity
  <1>1. IsFiniteSet(Held(s)) /\ Cardinality(Held(s)) \in Nat /\ Cardinality(Held(t)) \in Nat
    BY HeldIsFinite
  <1>2. CASE Held(t) \subseteq Held(s)
    <2>1. Cardinality(Held(t)) <= Cardinality(Held(s))
      BY <1>1, <1>2, FS_Subset
    <2> QED
      BY <1>1, <2>1
  <1>3. CASE ~(Held(t) \subseteq Held(s))
    <2>1. n \notin Held(s) /\ n \in Held(t)
      BY <1>3 DEF Held
    <2>2. Held(t) \subseteq Held(s) \union {n}
      BY DEF Held
    <2>3. IsFiniteSet(Held(s) \union {n})
          /\ Cardinality(Held(s) \union {n}) = Cardinality(Held(s)) + 1
      BY <1>1, <2>1, FS_AddElement
    <2>4. Cardinality(Held(t)) <= Cardinality(Held(s)) + 1
      BY <2>2, <2>3, FS_Subset
    <2>5. Cardinality(Held(s)) < Capacity
      BY <2>1 DEF Held
    <2> QED
      BY <1>1, <2>4, <2>5
  <1> QED
    BY <1>2, <1>3

LEMMA GenType == ASSUME NEW n, NEW k \in 1..MaxDials PROVE Gen(n, k) \in 0..MaxDials
  BY DEF Gen

\* What a handshake does to the slots, by either handler.
Handshake(n, k) ==
    /\ <<n, k>> \in arriving /\ arriving' = arriving \ {<<n, k>>}
    /\ UNCHANGED <<dialled, closing, queue, scheduled, delivered>>
    /\ \A m \in Nodes : m # n => slot'[m] = slot[m]
    /\ slot' \in [Nodes -> Slots]
    /\ \/ /\ slot'[n] = [state |-> "connected", gen |-> Gen(n, k), socket |-> k]
          /\ open' = open \union {<<n, k>>}
          /\ slot[n].state = "none" => Size < Capacity
       \/ /\ slot'[n] \in {slot[n], [slot[n] EXCEPT !.state = "disconnecting"]}
          /\ slot[n].state = "none" => slot'[n] = slot[n]
          /\ open' = open

LEMMA ConnectIsHandshake ==
    ASSUME PoolInv, NEW n \in Nodes, NEW k \in 1..MaxDials,
           HandleConnect(n, k) \/ HandleReconnect(n, k)
    PROVE  Handshake(n, k)
  <1> DEFINE down == [slot EXCEPT ![n].state = "disconnecting"]
             new == [state |-> "connected", gen |-> Gen(n, k), socket |-> k]
  <1>1. slot \in [Nodes -> Slots] /\ new \in Slots
    BY GenType DEF PoolInv, PoolTypeOK, Slots
  <1>2. /\ down \in [Nodes -> Slots]
        /\ down[n] = [slot[n] EXCEPT !.state = "disconnecting"]
        /\ \A m \in Nodes : m # n => down[m] = slot[m]
    BY <1>1 DEF Slots
  <1>3. PICK s, ts : Add(s, ts, n, k) /\ (s = slot \/ (s = down /\ slot[n].state = "connected"))
    <2>1. CASE Add(slot, timers, n, k)
      BY <2>1, Zenon
    <2>2. CASE slot[n].state = "connected" /\ Add(down, Armed(n), n, k)
      BY <2>2, Zenon
    <2>3. HandleReconnect(n, k) /\ slot[n].state = "connected" => Add(down, Armed(n), n, k)
      BY Zenon DEF HandleReconnect, BeginDisconnect
    <2>4. HandleReconnect(n, k) /\ slot[n].state # "connected" => Add(slot, timers, n, k)
      BY Zenon DEF HandleReconnect
    <2> QED
      BY <2>1, <2>2, <2>3, <2>4, Zenon DEF HandleConnect
  <1>4. s \in [Nodes -> Slots] /\ \A m \in Nodes : m # n => s[m] = slot[m]
    BY <1>1, <1>2, <1>3
  <1>5. CASE Accepts(s, n, Gen(n, k))
    <2>1. slot' = [s EXCEPT ![n] = new] /\ open' = open \union {<<n, k>>}
      BY <1>3, <1>5, Zenon DEF Add, Added
    <2>2. slot' \in [Nodes -> Slots] /\ slot'[n] = new /\ \A m \in Nodes : m # n => slot'[m] = slot[m]
      BY <1>1, <1>4, <2>1
    <2>3. slot[n].state = "none" => Size < Capacity
      BY <1>3, <1>5 DEF Accepts, Size
    <2> QED
      BY <2>1, <2>2, <2>3 DEF Handshake, HandleConnect, HandleReconnect
  <1>6. CASE ~Accepts(s, n, Gen(n, k))
    <2>1. slot' = s /\ open' = open
      BY <1>3, <1>6, Zenon DEF Add
    <2>2. s[n] \in {slot[n], [slot[n] EXCEPT !.state = "disconnecting"]}
          /\ (slot[n].state = "none" => s[n] = slot[n])
      BY <1>2, <1>3
    <2> QED
      BY <1>4, <2>1, <2>2 DEF Handshake, HandleConnect, HandleReconnect
  <1> QED
    BY <1>5, <1>6

\* A step that only takes entries away, or down.
LEMMA SlotsFall ==
    ASSUME PoolInv, slot' \in [Nodes -> Slots],
           \A n \in Nodes : slot'[n].state # "none" =>
              /\ slot[n].state # "none"
              /\ slot'[n].gen = slot[n].gen /\ slot'[n].socket = slot[n].socket
    PROVE  Size' <= Capacity /\ SlotInv'
  <1>1. Held(slot') \subseteq Held(slot)
    BY DEF Held
  <1>2. Cardinality(Held(slot')) <= Cardinality(Held(slot))
    BY <1>1, HeldIsFinite, FS_Subset
  <1>3. Size = Cardinality(Held(slot)) /\ Size' = Cardinality(Held(slot'))
    BY DEF Size, Held
  <1>4. Cardinality(Held(slot)) \in Nat /\ Cardinality(Held(slot')) \in Nat
    BY HeldIsFinite
  <1>5. SlotInv'
    BY DEF PoolInv, SlotInv, Gen
  <1> QED
    BY <1>2, <1>3, <1>4, <1>5 DEF PoolInv, PoolTypeOK

LEMMA HandshakeKeepsInv ==
    ASSUME PoolInv, NEW n \in Nodes, NEW k \in 1..MaxDials, Handshake(n, k), TimerInv'
    PROVE  PoolInv'
  <1> USE DEF PoolInv
  <1>1. /\ arriving' = arriving \ {<<n, k>>} /\ <<n, k>> \in arriving
        /\ dialled' = dialled /\ closing' = closing
        /\ queue' = queue /\ scheduled' = scheduled /\ delivered' = delivered
        /\ \A m \in Nodes : m # n => slot'[m] = slot[m]
        /\ slot' \in [Nodes -> Slots]
    BY DEF Handshake
  <1>2. <<n, k>> \in Sockets
    BY DEF Sockets
  <1>3. CASE /\ slot'[n] = [state |-> "connected", gen |-> Gen(n, k), socket |-> k]
             /\ open' = open \union {<<n, k>>}
             /\ slot[n].state = "none" => Size < Capacity
    <2>1. Cardinality(Held(slot')) <= Capacity
      <3>1. Size = Cardinality(Held(slot))
        BY DEF Size, Held
      <3> QED
        BY <1>1, <1>3, <3>1, RoomIsKept DEF PoolTypeOK
    <2>2. Size' <= Capacity
      BY <2>1 DEF Size, Held
    <2>3. PoolTypeOK'
      BY <1>1, <1>2, <1>3, <2>2 DEF PoolTypeOK, TimerInv, Belong
    <2>4. ConnectedIsAlive'
      BY <1>1, <1>3 DEF ConnectedIsAlive
    <2>5. SocketInv'
      BY <1>1, <1>3 DEF SocketInv
    <2>6. SlotInv'
      BY <1>1, <1>3 DEF SlotInv, Gen
    <2> QED
      BY <2>3, <2>4, <2>5, <2>6
  <1>4. CASE /\ slot'[n] \in {slot[n], [slot[n] EXCEPT !.state = "disconnecting"]}
             /\ slot[n].state = "none" => slot'[n] = slot[n]
             /\ open' = open
    <2>1. slot[n] \in Slots
      BY DEF PoolTypeOK
    <2>2. slot'[n].gen = slot[n].gen /\ slot'[n].socket = slot[n].socket
      BY <1>4, <2>1 DEF Slots
    <2>3. slot'[n].state = "connected" => slot[n].state = "connected"
      BY <1>4, <2>1 DEF Slots
    <2>4. Size' <= Capacity /\ SlotInv'
      BY <1>1, <1>4, <2>2, SlotsFall
    <2>5. PoolTypeOK'
      BY <1>1, <1>4, <2>4 DEF PoolTypeOK, TimerInv, Belong
    <2>6. ConnectedIsAlive'
      BY <1>1, <1>4, <2>2, <2>3 DEF ConnectedIsAlive
    <2>7. SocketInv'
      BY <1>1, <1>4 DEF SocketInv
    <2> QED
      BY <2>4, <2>5, <2>6, <2>7
  <1> QED
    BY <1>3, <1>4 DEF Handshake

LEMMA HandleDisconnectKeepsInv ==
    ASSUME PoolInv, NEW n \in Nodes, NEW k \in 1..MaxDials, HandleDisconnect(n, k), TimerInv'
    PROVE  PoolInv'
  <1> USE DEF PoolInv
  <1>1. closing' = closing \ {<<n, k>>} /\ UNCHANGED <<dialled, arriving, open, delivered>>
        /\ <<n, k>> \in closing
    BY DEF HandleDisconnect
  <1>2. slot[n] \in Slots /\ <<n, k>> \in Sockets /\ slot \in [Nodes -> Slots]
    BY DEF PoolTypeOK, Sockets
  <1>3. SocketInv'
    BY <1>1 DEF SocketInv
  <1>4. CASE /\ Disconnects(n, Gen(n, k)) /\ slot' = BeginDisconnect(n)
             /\ queue' = Append(queue, <<n, k>>) /\ scheduled' = TRUE
    <2>1. /\ slot' = [slot EXCEPT ![n] = [slot[n] EXCEPT !.state = "disconnecting"]]
          /\ slot[n].state = "connected"
      BY <1>2, <1>4 DEF BeginDisconnect, Disconnects
    <2>2. /\ slot' \in [Nodes -> Slots]
          /\ slot'[n].state = "disconnecting" /\ slot'[n].gen = slot[n].gen
          /\ slot'[n].socket = slot[n].socket
          /\ \A m \in Nodes : m # n => slot'[m] = slot[m]
      BY <1>2, <2>1 DEF Slots
    <2>3. Size' <= Capacity /\ SlotInv'
      BY <2>1, <2>2, SlotsFall
    <2>4. PoolTypeOK'
      BY <1>1, <1>2, <1>4, <2>2, <2>3 DEF PoolTypeOK, TimerInv, Belong
    <2>5. ConnectedIsAlive'
      BY <1>1, <2>2 DEF ConnectedIsAlive
    <2> QED
      BY <1>3, <2>3, <2>4, <2>5
  <1>5. CASE ~Disconnects(n, Gen(n, k)) /\ UNCHANGED <<slot, timers, queue, scheduled>>
    <2>1. Size' = Size
      BY <1>5 DEF Size
    <2>2. PoolTypeOK' /\ SlotInv'
      BY <1>1, <1>5, <2>1 DEF PoolTypeOK, TimerInv, Belong, SlotInv, Gen
    <2>3. slot[n].state = "connected" => slot[n].socket # k
      <3>1. slot[n].state = "connected" => slot[n].gen = Gen(n, slot[n].socket)
        BY DEF SlotInv
      <3>2. slot[n].state = "connected" => ~(slot[n].gen <= Gen(n, k))
        BY <1>5 DEF Disconnects
      <3>3. Gen(n, k) \in 0..MaxDials
        BY GenType
      <3>4. Gen(n, k) <= Gen(n, k)
        BY <3>3
      <3> QED
        BY <3>1, <3>2, <3>4
    <2>4. ConnectedIsAlive'
      BY <1>1, <1>5, <2>3 DEF ConnectedIsAlive
    <2> QED
      BY <1>3, <2>2, <2>4
  <1> QED
    BY <1>4, <1>5 DEF HandleDisconnect

\* The grace timer, an eviction, a shutdown.
LEMMA RemovalKeepsInv ==
    ASSUME PoolInv, NEW gone \in SUBSET Nodes, TimerInv',
           slot' = [n \in Nodes |-> IF n \in gone THEN NoSlot ELSE slot[n]],
           UNCHANGED <<dialled, arriving, open, closing, queue, scheduled, delivered>>
    PROVE  PoolInv'
  <1> USE DEF PoolInv
  <1>1. \A n \in Nodes : slot'[n] = NoSlot \/ slot'[n] = slot[n]
    OBVIOUS
  <1>2. NoSlot \in Slots /\ NoSlot.state = "none"
    BY DEF NoSlot, Slots
  <1>3. slot' \in [Nodes -> Slots]
    BY <1>2 DEF PoolTypeOK
  <1>4. Size' <= Capacity /\ SlotInv'
    BY <1>1, <1>2, <1>3, SlotsFall
  <1>5. PoolTypeOK'
    BY <1>3, <1>4 DEF PoolTypeOK, TimerInv, Belong
  <1>6. ConnectedIsAlive' /\ SocketInv'
    BY <1>1, <1>2 DEF ConnectedIsAlive, SocketInv
  <1> QED
    BY <1>4, <1>5, <1>6

LEMMA NetworkKeepsInv ==
    ASSUME PoolInv, NEW n \in Nodes, NEW k \in 1..MaxDials, Dial(n) \/ SocketCloses(n, k),
           TimerInv'
    PROVE  PoolInv'
  <1> USE DEF PoolInv
  <1>1. slot' = slot /\ queue' = queue /\ scheduled' = scheduled /\ delivered' = delivered
    BY DEF Dial, SocketCloses
  <1>2. Size' = Size /\ SlotInv'
    BY <1>1 DEF Size, SlotInv, Gen
  <1>3. CASE Dial(n)
    <2>1. /\ dialled[n] \in 0..MaxDials /\ dialled[n] < MaxDials
          /\ dialled' = [dialled EXCEPT ![n] = dialled[n] + 1]
          /\ arriving' = arriving \union {<<n, dialled[n] + 1>>}
          /\ open' = open /\ closing' = closing
      BY <1>3 DEF Dial, PoolTypeOK
    <2>2. dialled[n] + 1 \in 1..MaxDials
      BY <2>1
    <2>3. PoolTypeOK'
      BY <1>1, <1>2, <2>1, <2>2 DEF PoolTypeOK, TimerInv, Belong, Sockets
    <2>4. ConnectedIsAlive'
      BY <1>1, <2>1 DEF ConnectedIsAlive
    <2>5. <<n, dialled[n] + 1>> \notin arriving \union open \union closing
      BY <2>1, <2>2 DEF SocketInv
    <2>6. \A m \in Nodes : \A i \in 1..MaxDials :
              <<m, i>> \in arriving' \union open' \union closing' => i <= dialled'[m]
      <3> SUFFICES ASSUME NEW m \in Nodes, NEW i \in 1..MaxDials,
                          <<m, i>> \in arriving' \union open' \union closing'
                   PROVE  i <= dialled'[m]
        OBVIOUS
      <3>1. dialled \in [Nodes -> 0..MaxDials]
        BY DEF PoolTypeOK
      <3>2. CASE <<m, i>> \in arriving \union open \union closing
        <4>1. i <= dialled[m]
          BY <3>2 DEF SocketInv
        <4> QED
          BY <2>1, <3>1, <4>1
      <3>3. CASE m = n /\ i = dialled[n] + 1
        BY <2>1, <3>1, <3>3
      <3> QED
        BY <2>1, <3>2, <3>3
    <2>7. SocketInv'
      BY <2>1, <2>5, <2>6 DEF SocketInv
    <2> QED
      BY <1>2, <2>3, <2>4, <2>7
  <1>4. CASE SocketCloses(n, k)
    <2>1. /\ <<n, k>> \in open /\ open' = open \ {<<n, k>>} /\ closing' = closing \union {<<n, k>>}
          /\ dialled' = dialled /\ arriving' = arriving
      BY <1>4 DEF SocketCloses
    <2>2. PoolTypeOK'
      BY <1>1, <1>2, <2>1 DEF PoolTypeOK, TimerInv, Belong
    <2>3. ConnectedIsAlive'
      BY <1>1, <2>1 DEF ConnectedIsAlive
    <2>4. SocketInv'
      BY <2>1 DEF SocketInv
    <2> QED
      BY <1>2, <2>2, <2>3, <2>4
  <1> QED
    BY <1>3, <1>4

LEMMA EmptyQueueTyped == <<>> \in Seq(Sockets)
  OBVIOUS

LEMMA FlushKeepsInv ==
    ASSUME PoolInv, Flush, TimerInv'
    PROVE  PoolInv'
  <1> USE DEF PoolInv
  <1>1. UNCHANGED <<slot, timers, dialled, arriving, open, closing>>
        /\ queue' = <<>> /\ scheduled' = FALSE
        /\ delivered' = delivered \union {queue[i] : i \in DOMAIN queue}
    BY DEF Flush
  <1>2. \A i \in DOMAIN queue : queue[i] \in Sockets
    BY DEF PoolTypeOK
  <1>3. Size' = Size
    BY <1>1 DEF Size
  <1>4. PoolTypeOK'
    <2>1. delivered' \subseteq Sockets
      BY <1>1, <1>2 DEF PoolTypeOK
    <2>2. queue' \in Seq(Sockets)
      BY <1>1, EmptyQueueTyped
    <2>3. scheduled' \in BOOLEAN
      BY <1>1
    <2> QED
      BY <1>1, <1>3, <2>1, <2>2, <2>3 DEF PoolTypeOK, TimerInv, Belong
  <1> QED
    BY <1>1, <1>4 DEF ConnectedIsAlive, SocketInv, SlotInv, Gen

LEMMA PoolInitInv == PoolInit => PoolInv
  <1> SUFFICES ASSUME PoolInit PROVE PoolInv
    OBVIOUS
  <1>1. \A n \in Nodes : slot[n].state = "none"
    BY DEF PoolInit, NoSlot
  <1>2. Size = 0
    <2>1. {n \in Nodes : slot[n].state # "none"} = {}
      BY <1>1
    <2> QED
      BY <2>1, FS_EmptySet DEF Size
  <1>3. slot \in [Nodes -> Slots]
    BY DEF PoolInit, NoSlot, Slots
  <1>4. /\ queue \in Seq(Sockets)
        /\ scheduled \in BOOLEAN
        /\ dialled \in [Nodes -> 0..MaxDials]
    <2>1. queue \in Seq(Sockets)
      BY EmptyQueueTyped DEF PoolInit
    <2>2. scheduled \in BOOLEAN
      BY DEF PoolInit
    <2>3. dialled \in [Nodes -> 0..MaxDials]
      BY PoolAssumption DEF PoolInit
    <2> QED
      BY <2>1, <2>2, <2>3
  <1>5. arriving = {} /\ open = {} /\ closing = {} /\ delivered = {} /\ timers = {}
    BY DEF PoolInit
  <1>6. PoolTypeOK
    BY <1>2, <1>3, <1>4, <1>5 DEF PoolTypeOK
  <1> QED
    BY <1>1, <1>3, <1>5, <1>6
    DEF PoolInv, ConnectedIsAlive, SocketInv, SlotInv, TimerInv, Belong

\* beginDisconnect(): the entry's timer is set.
LEMMA ArmedBelong ==
    ASSUME PoolInv, NEW n \in Nodes, slot[n].state = "connected"
    PROVE  Belong(BeginDisconnect(n), Armed(n))
  <1>1. slot \in [Nodes -> Slots] /\ Belong(slot, timers)
    BY DEF PoolInv, PoolTypeOK, TimerInv
  <1>2. <<n, slot[n].socket>> \in Sockets
    BY DEF PoolInv, PoolTypeOK, ConnectedIsAlive
  <1> DEFINE down == BeginDisconnect(n)
  <1>3. /\ DOMAIN down = Nodes
        /\ down[n].state = "disconnecting" /\ down[n].socket = slot[n].socket
        /\ \A m \in Nodes : m # n => down[m] = slot[m]
    BY <1>1 DEF BeginDisconnect, Slots
  <1>4. Armed(n) \subseteq Sockets
    BY <1>1, <1>2 DEF Belong, Armed
  <1>5. ASSUME NEW m \in Nodes, NEW k \in 1..MaxDials, <<m, k>> \in Armed(n)
        PROVE  down[m].state = "disconnecting" /\ down[m].socket = k
    <2>1. CASE <<m, k>> \in timers
      <3>1. slot[m].state = "disconnecting" /\ slot[m].socket = k
        BY <1>1, <2>1 DEF Belong
      <3> QED
        BY <1>3, <3>1
    <2>2. CASE m = n /\ k = slot[n].socket
      BY <1>3, <2>2
    <2> QED
      BY <1>5, <2>1, <2>2 DEF Armed
  <1> HIDE DEF down
  <1>6. Belong(down, Armed(n))
    BY <1>3, <1>4, <1>5 DEF Belong
  <1> QED
    BY <1>6 DEF down

\* add(): an entry that is replaced has its timer cancelled.
LEMMA AddKeepsTimers ==
    ASSUME NEW s, NEW ts, Belong(s, ts), NEW n \in Nodes, NEW k \in 1..MaxDials, Add(s, ts, n, k)
    PROVE  TimerInv'
  <1>1. CASE slot' = s /\ timers' = ts
    BY <1>1 DEF TimerInv, Belong
  <1>2. CASE slot' = Added(s, n, k) /\ timers' = Cancelled(s, ts, n)
    <2>1. DOMAIN slot' = Nodes /\ \A m \in Nodes : m # n => slot'[m] = s[m]
      BY <1>2 DEF Added, Belong
    <2>2. timers' = ts \ {<<n, s[n].socket>>}
      BY <1>2 DEF Cancelled
    <2> QED
      BY <2>1, <2>2 DEF TimerInv, Belong
  <1> QED
    BY <1>1, <1>2, Zenon DEF Add

\* An entry that is removed takes its timer with it.
LEMMA RemovalKeepsTimers ==
    ASSUME PoolInv, NEW n \in Nodes, slot' = [slot EXCEPT ![n] = NoSlot],
           timers' = timers \ {<<n, slot[n].socket>>}
    PROVE  TimerInv'
  <1>1. Belong(slot, timers)
    BY DEF PoolInv, TimerInv
  <1>2. DOMAIN slot' = Nodes /\ \A m \in Nodes : m # n => slot'[m] = slot[m]
    BY <1>1 DEF Belong
  <1> QED
    BY <1>1, <1>2 DEF TimerInv, Belong

\* No step leaves a timer behind.
LEMMA TimersFollow ==
    ASSUME PoolInv, [PoolNext]_poolVars
    PROVE  TimerInv'
  <1>1. Belong(slot, timers) /\ slot \in [Nodes -> Slots]
    BY DEF PoolInv, PoolTypeOK, TimerInv
  <1>2. ASSUME UNCHANGED <<slot, timers>>
        PROVE  TimerInv'
    BY <1>1, <1>2 DEF TimerInv, Belong
  <1>3. ASSUME NEW n \in Nodes, NEW k \in 1..MaxDials, HandleConnect(n, k) \/ HandleReconnect(n, k)
        PROVE  TimerInv'
    <2>1. CASE Add(slot, timers, n, k)
      BY <1>1, <2>1, AddKeepsTimers
    <2>2. CASE slot[n].state = "connected" /\ Add(BeginDisconnect(n), Armed(n), n, k)
      BY <2>2, ArmedBelong, AddKeepsTimers
    <2> QED
      BY <1>3, <2>1, <2>2, Zenon DEF HandleConnect, HandleReconnect
  <1>4. ASSUME NEW n \in Nodes, NEW k \in 1..MaxDials, HandleDisconnect(n, k)
        PROVE  TimerInv'
    <2>1. CASE slot[n].state = "connected" /\ slot' = BeginDisconnect(n) /\ timers' = Armed(n)
      BY <2>1, ArmedBelong DEF TimerInv, Belong
    <2> QED
      BY <1>2, <1>4, <2>1 DEF HandleDisconnect, Disconnects
  <1>5. ASSUME NEW n \in Nodes, NEW k \in 1..MaxDials, ExpireGraceWindow(n, k)
        PROVE  TimerInv'
    <2>1. /\ slot[n].state = "disconnecting" /\ slot[n].socket = k
          /\ timers' = timers \ {<<n, k>>}
      BY <1>1, <1>5 DEF ExpireGraceWindow, Belong
    <2>2. slot' = [slot EXCEPT ![n] = NoSlot]
      BY <1>5, <2>1 DEF ExpireGraceWindow
    <2> QED
      BY <2>1, <2>2, RemovalKeepsTimers
  <1>6. ASSUME NEW n \in Nodes, Evict(n)
        PROVE  TimerInv'
    BY <1>6, RemovalKeepsTimers DEF Evict, Cancelled
  <1>7. CASE Shutdown
    <2>1. DOMAIN slot' = Nodes
      BY <1>7 DEF Shutdown
    <2>2. ASSUME NEW n \in Nodes, NEW k \in 1..MaxDials, <<n, k>> \in timers'
          PROVE  FALSE
      <3>1. <<n, k>> \in timers /\ <<n, k>> \in Cancelled(slot, timers, n)
        BY <1>7, <2>2 DEF Shutdown
      <3>2. slot[n].socket = k
        BY <1>1, <3>1 DEF Belong
      <3> QED
        BY <3>1, <3>2 DEF Cancelled
    <2>3. timers' \subseteq Sockets
      BY <1>1, <1>7 DEF Shutdown, Belong
    <2> QED
      BY <2>1, <2>2, <2>3 DEF TimerInv, Belong
  <1>8. ASSUME NEW n, NEW k, Dial(n) \/ SocketCloses(n, k)
        PROVE  TimerInv'
    BY <1>2, <1>8 DEF Dial, SocketCloses
  <1>9. CASE Flush \/ UNCHANGED poolVars
    BY <1>2, <1>9 DEF Flush, poolVars
  <1> QED
    BY <1>3, <1>4, <1>5, <1>6, <1>7, <1>8, <1>9 DEF PoolNext

LEMMA PoolStepInv == PoolInv /\ [PoolNext]_poolVars => PoolInv'
  <1> SUFFICES ASSUME PoolInv, [PoolNext]_poolVars PROVE PoolInv'
    OBVIOUS
  <1>0. TimerInv'
    BY TimersFollow
  <1>1. slot \in [Nodes -> Slots]
    BY DEF PoolInv, PoolTypeOK
  <1>2. ASSUME NEW n \in Nodes, NEW k \in 1..MaxDials,
               HandleConnect(n, k) \/ HandleReconnect(n, k)
        PROVE  PoolInv'
    BY <1>0, <1>2, ConnectIsHandshake, HandshakeKeepsInv
  <1>3. ASSUME NEW n \in Nodes, NEW k \in 1..MaxDials, ExpireGraceWindow(n, k)
        PROVE  PoolInv'
    <2>1. slot' = [m \in Nodes |-> IF m \in {n} THEN NoSlot ELSE slot[m]]
      <3>1. slot[n].state = "disconnecting"
        BY <1>3 DEF PoolInv, TimerInv, Belong, ExpireGraceWindow
      <3> QED
        BY <1>1, <1>3, <3>1 DEF ExpireGraceWindow
    <2> QED
      BY <1>0, <1>3, <2>1, RemovalKeepsInv DEF ExpireGraceWindow
  <1>4. CASE Shutdown
    <2>1. slot' = [m \in Nodes |-> IF m \in Nodes THEN NoSlot ELSE slot[m]]
      BY <1>4 DEF Shutdown
    <2> QED
      BY <1>0, <1>4, <2>1, RemovalKeepsInv DEF Shutdown
  <1>5. ASSUME NEW n \in Nodes, Dial(n)
        PROVE  PoolInv'
    <2>1. 1 \in 1..MaxDials
      BY <1>5 DEF Dial, PoolInv, PoolTypeOK
    <2> QED
      BY <1>0, <1>5, <2>1, NetworkKeepsInv
  <1>6. CASE UNCHANGED poolVars
    <2>1. Size' = Size
      BY <1>6 DEF poolVars, Size
    <2> QED
      BY <1>0, <1>6, <2>1
      DEF poolVars, PoolInv, PoolTypeOK, ConnectedIsAlive, SocketInv, SlotInv, Gen
  <1>7. ASSUME NEW n \in Nodes, Evict(n)
        PROVE  PoolInv'
    <2>1. slot' = [m \in Nodes |-> IF m \in {n} THEN NoSlot ELSE slot[m]]
      BY <1>1, <1>7 DEF Evict
    <2> QED
      BY <1>0, <1>7, <2>1, RemovalKeepsInv DEF Evict
  <1> QED
    BY <1>0, <1>2, <1>3, <1>4, <1>5, <1>6, <1>7, NetworkKeepsInv, HandleDisconnectKeepsInv,
       FlushKeepsInv DEF PoolNext

LEMMA PoolInvariant == PoolSpec => []PoolInv
  BY PoolInitInv, PoolStepInv, PTL DEF PoolSpec

\* However connects, grace windows, reconnects and evictions overlap, the pool
\* never holds more entries than its capacity, and its entries and events keep
\* their types (add).
THEOREM CapacityHolds == PoolSpec => []PoolTypeOK
  BY PoolInvariant, PTL DEF PoolInv

\* A connected entry's socket is open or its close event is still to come, and
\* that event will be heeded: an entry's generation is always its own socket's,
\* so beginDisconnect() never takes its own close for a stale one.
THEOREM NoZombies == PoolSpec => []ConnectedIsAlive
  BY PoolInvariant, PTL DEF PoolInv

\* The close event of an older socket never disconnects the newer connection
\* (handleDisconnect, beginDisconnect).
THEOREM LateClosesAreHarmless == PoolSpec => LateCloseIsHarmless
  <1> DEFINE A(n) == slot[n].state = "connected" /\ <<n, slot[n].socket>> \in open /\ slot'[n] # slot[n] =>
             \/ slot'[n].state = "none"
             \/ \E k \in 1..MaxDials : <<n, k>> \in arriving \ arriving'
             \/ \E k \in 1..MaxDials : <<n, k>> \in closing \ closing' /\ k > slot[n].gen
  <1>1. PoolInv /\ [PoolNext]_poolVars => [\A n \in Modern : A(n)]_poolVars
    <2> SUFFICES ASSUME PoolInv, PoolNext, NEW n \in Modern,
                        slot[n].state = "connected", <<n, slot[n].socket>> \in open, slot'[n] # slot[n]
                 PROVE  \/ slot'[n].state = "none"
                        \/ \E k \in 1..MaxDials : <<n, k>> \in arriving \ arriving'
                        \/ \E k \in 1..MaxDials : <<n, k>> \in closing \ closing' /\ k > slot[n].gen
      OBVIOUS
    <2>1. n \in Nodes /\ n \notin Legacy /\ slot \in [Nodes -> Slots] /\ slot[n] \in Slots
      BY DEF Modern, PoolInv, PoolTypeOK
    <2>2. ASSUME NEW m \in Nodes, NEW k \in 1..MaxDials, HandleConnect(m, k) \/ HandleReconnect(m, k)
          PROVE  \E i \in 1..MaxDials : <<n, i>> \in arriving \ arriving'
      <3>1. Handshake(m, k)
        BY <2>2, ConnectIsHandshake
      <3>2. m = n
        BY <2>1, <3>1 DEF Handshake
      <3> QED
        BY <3>1, <3>2 DEF Handshake
    <2>3. ASSUME NEW m \in Nodes, NEW k \in 1..MaxDials, HandleDisconnect(m, k)
          PROVE  \E i \in 1..MaxDials : <<n, i>> \in closing \ closing' /\ i > slot[n].gen
      <3>1. Disconnects(m, Gen(m, k)) /\ slot' = BeginDisconnect(m) /\ m = n
        BY <2>1, <2>3 DEF HandleDisconnect, BeginDisconnect
      <3>2. slot[n].gen <= k /\ slot[n].gen \in 0..MaxDials
        BY <2>1, <3>1 DEF Disconnects, Gen, Slots
      <3>3. <<n, k>> \in closing /\ <<n, k>> \notin closing'
        BY <2>3, <3>1 DEF HandleDisconnect
      <3>4. slot[n].socket # k
        BY <3>3 DEF PoolInv, SocketInv
      <3>5. slot[n].gen = slot[n].socket
        BY <2>1 DEF PoolInv, SlotInv, Gen
      <3> QED
        BY <3>2, <3>3, <3>4, <3>5
    <2>4. ASSUME NEW m \in Nodes, NEW k, ExpireGraceWindow(m, k) \/ Evict(m) \/ Shutdown
          PROVE  slot'[n].state = "none"
      BY <2>1, <2>4 DEF ExpireGraceWindow, Evict, Shutdown, NoSlot
    <2>5. ASSUME NEW m \in Nodes, NEW k, Dial(m) \/ SocketCloses(m, k)
          PROVE  FALSE
      BY <2>5 DEF Dial, SocketCloses
    <2>6. CASE Flush
      BY <2>6 DEF Flush
    <2> QED
      BY <2>1, <2>2, <2>3, <2>4, <2>5, <2>6 DEF PoolNext
  <1>2. PoolSpec => [][\A n \in Modern : A(n)]_poolVars
    BY <1>1, PoolInvariant, PTL DEF PoolSpec
  <1> QED
    BY <1>2, Zenon DEF LateCloseIsHarmless

\* A newer attempt that arrives in the grace window gets the slot, even from a
\* full pool, and an older one leaves it alone (add).
THEOREM RapidReconnectsWin == PoolSpec => RapidReconnectWins
  <1> DEFINE A(n) == slot[n].state = "disconnecting" =>
          /\ \A k \in 1..MaxDials :
                <<n, k>> \in arriving \ arriving' /\ k > slot[n].gen => slot'[n].socket = k
          /\ slot'[n].state # "none" => slot'[n].gen >= slot[n].gen
  <1>1. PoolInv /\ [PoolNext]_poolVars => [\A n \in Modern : A(n)]_poolVars
    <2> SUFFICES ASSUME PoolInv, PoolNext, NEW n \in Modern, slot[n].state = "disconnecting"
                 PROVE  /\ \A k \in 1..MaxDials :
                              <<n, k>> \in arriving \ arriving' /\ k > slot[n].gen => slot'[n].socket = k
                        /\ slot'[n].state # "none" => slot'[n].gen >= slot[n].gen
      OBVIOUS
    <2>1. /\ n \in Nodes /\ n \notin Legacy
          /\ slot \in [Nodes -> Slots] /\ slot[n].gen \in 0..MaxDials
      BY DEF Modern, PoolInv, PoolTypeOK, Slots
    <2>2. ASSUME NEW m \in Nodes, NEW k \in 1..MaxDials, HandleConnect(m, k) \/ HandleReconnect(m, k)
          PROVE  /\ arriving' = arriving \ {<<m, k>>}
                 /\ \/ slot'[n] = slot[n] /\ (m = n => k <= slot[n].gen)
                    \/ m = n /\ slot'[n].socket = k /\ slot'[n].gen = k /\ k > slot[n].gen
      <3>1. arriving' = arriving \ {<<m, k>>}
        BY <2>2 DEF HandleConnect, HandleReconnect
      <3>2. CASE m = n
        <4>1. Add(slot, timers, n, k)
          BY <2>2, <3>2 DEF HandleConnect, HandleReconnect
        <4>2. Gen(n, k) = k
          BY <2>1 DEF Gen
        <4>3. Accepts(slot, n, k) <=> k > slot[n].gen
          BY <2>1 DEF Accepts
        <4> QED
          BY <2>1, <3>1, <3>2, <4>1, <4>2, <4>3 DEF Add, Added
      <3>3. CASE m # n
        BY <2>1, <2>2, <3>1, <3>3, ConnectIsHandshake DEF Handshake
      <3> QED
        BY <3>2, <3>3
    <2>3. ASSUME NEW m \in Nodes, NEW k \in 1..MaxDials, HandleDisconnect(m, k)
          PROVE  slot'[n] = slot[n] /\ arriving' = arriving
      BY <2>1, <2>3 DEF HandleDisconnect, Disconnects, BeginDisconnect
    <2>4. ASSUME NEW m \in Nodes, NEW k, ExpireGraceWindow(m, k) \/ Evict(m)
          PROVE  slot'[n] \in {slot[n], NoSlot} /\ arriving' = arriving
      BY <2>1, <2>4 DEF ExpireGraceWindow, Evict
    <2>5. ASSUME NEW m \in Nodes, NEW k, Dial(m) \/ SocketCloses(m, k)
          PROVE  slot' = slot /\ arriving \subseteq arriving'
      BY <2>5 DEF Dial, SocketCloses
    <2>6. CASE Flush
      BY <2>1, <2>6 DEF Flush
    <2>7. CASE Shutdown
      BY <2>1, <2>7 DEF Shutdown, NoSlot
    <2>8. NoSlot.state = "none"
      BY DEF NoSlot
    <2>9. ASSUME NEW m \in Nodes, NEW k \in 1..MaxDials, HandleConnect(m, k) \/ HandleReconnect(m, k)
          PROVE  /\ \A i \in 1..MaxDials :
                       <<n, i>> \in arriving \ arriving' /\ i > slot[n].gen => slot'[n].socket = i
                 /\ slot'[n].state # "none" => slot'[n].gen >= slot[n].gen
      BY <2>1, <2>2, <2>9
    <2> QED
      BY <2>1, <2>3, <2>4, <2>5, <2>6, <2>7, <2>8, <2>9 DEF PoolNext
  <1>2. PoolSpec => [][\A n \in Modern : A(n)]_poolVars
    BY <1>1, PoolInvariant, PTL DEF PoolSpec
  <1> QED
    BY <1>2, Zenon DEF RapidReconnectWins

\* Only its own timer ends the grace window of a connection: one that is replaced
\* or removed takes its timer with it (_replaceEntry, forceRemove, clear).
THEOREM OwnTimersEndWindows == PoolSpec => OwnTimerEndsWindow
  <1> DEFINE A(n) == \A k \in 1..MaxDials :
          <<n, k>> \in timers \ timers' /\ slot[n].state # "none" /\ slot'[n].state = "none"
             => slot[n].socket = k
  <1>1. PoolInv /\ [PoolNext]_poolVars => [\A n \in Nodes : A(n)]_poolVars
    BY DEF PoolInv, TimerInv, Belong
  <1>2. PoolSpec => [][\A n \in Nodes : A(n)]_poolVars
    BY <1>1, PoolInvariant, PTL DEF PoolSpec
  <1> QED
    BY <1>2, Zenon DEF OwnTimerEndsWindow
=============================================================================
