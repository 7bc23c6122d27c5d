---------------------------- MODULE EventBusProofs ----------------------------
(***************************************************************************)
(* What TLAPS proves about the event bus, for any partitions, flows and    *)
(* rebalances: as long as two rebalances do not contend for a partition,   *)
(* none of its events is lost, its log keeps their order, it is quiet      *)
(* while it moves, and its new owner finds every event in the log; and of  *)
(* the consumer's sequencer, for any delivery of a flow's events: each is  *)
(* handed out once and, while calls do not overlap, in order.              *)
(***************************************************************************)
EXTENDS EventBus, FlowSequencer, SequenceTheorems, FiniteSetTheorems, WellFoundedInduction, TLAPS

\* A calm partition is moved by one rebalance at a time, which keeps it paused.
QuietInv ==
    \A r \in Rebalances : phase[r] \in Running =>
        \A p \in Moved(r) \cap Calm :
            p \in paused /\ \A q \in Rebalances : p \in Moved(q) /\ phase[q] \in Running => q = r

\* What a flush appends is the buffer as it still is; afterwards it is empty.
FlushOf(r) ==
    Here(r) \in Calm =>
        /\ phase[r] = "append" => records[r] = buffer[Here(r)]
        /\ phase[r] \in {"confirm", "assume"} => buffer[Here(r)] = <<>>
FlushInv == \A r \in Rebalances : FlushOf(r)

\* An event in `t' comes after its predecessor there, unless `s' has that.
Follows(t, s) ==
    \A i \in DOMAIN t : t[i][2] > 1 =>
        \/ In(<<t[i][1], t[i][2] - 1>>, s)
        \/ \E j \in 1..(i - 1) : t[j] = <<t[i][1], t[i][2] - 1>>

\* The events of a buffer follow those of the log.
BufferKeepsOrder == \A p \in Calm : Follows(buffer[p], log[p])

BusInv ==
    /\ BusTypeOK /\ QuietInv /\ FlushInv
    /\ EventsAreKept /\ LogKeepsOrder /\ BufferKeepsOrder

USE BusAssumption

-----------------------------------------------------------------------------
LEMMA HereIsMoved ==
    ASSUME BusTypeOK, NEW r \in Rebalances
    PROVE  /\ Here(r) \in Moved(r) /\ Here(r) \in Partitions
           /\ at[r] \in 1..Len(Plan[r]) /\ Len(Plan[r]) \in Nat \ {0}
           /\ Plan[r] \in Seq(Partitions)
  <1>1. Plan[r] \in Seq(Partitions)
    OBVIOUS
  <1>2. at[r] \in DOMAIN Plan[r]
    BY DEF BusTypeOK
  <1> QED
    BY <1>1, <1>2 DEF Here, Moved

LEMMA MovedArePartitions ==
    ASSUME NEW r \in Rebalances
    PROVE  Moved(r) \subseteq Partitions
  <1>1. Plan[r] \in Seq(Partitions)
    OBVIOUS
  <1> QED
    BY <1>1 DEF Moved

LEMMA UpdateTyped ==
    ASSUME NEW S, NEW T, NEW g \in [S -> T], NEW x, NEW y \in T
    PROVE  [g EXCEPT ![x] = y] \in [S -> T]
  OBVIOUS

LEMMA EmptyTyped == <<>> \in Seq(Events)
  OBVIOUS

LEMMA NextIndexTyped ==
    ASSUME BusTypeOK, NEW r \in Rebalances,
           \/ at' = [at EXCEPT ![r] = 1]
           \/ at' = [at EXCEPT ![r] = at[r]]
           \/ at' = [at EXCEPT ![r] = at[r] + 1] /\ ~Last(r)
    PROVE  at' \in [Rebalances -> Nat] /\ \A q \in Rebalances : at'[q] \in DOMAIN Plan[q]
  <1>1. /\ at \in [Rebalances -> Nat]
        /\ \A q \in Rebalances : at[q] \in DOMAIN Plan[q]
    BY DEF BusTypeOK
  <1>2. at[r] \in 1..Len(Plan[r]) /\ Len(Plan[r]) \in Nat \ {0} /\ DOMAIN Plan[r] = 1..Len(Plan[r])
    BY HereIsMoved
  <1>3. 1 \in DOMAIN Plan[r] /\ (~Last(r) => at[r] + 1 \in DOMAIN Plan[r])
    BY <1>2 DEF Last
  <1>4. CASE at' = [at EXCEPT ![r] = 1]
    BY <1>1, <1>3, <1>4
  <1>5. CASE at' = [at EXCEPT ![r] = at[r] + 1] /\ ~Last(r)
    BY <1>1, <1>2, <1>3, <1>5
  <1>6. CASE at' = [at EXCEPT ![r] = at[r]]
    BY <1>1, <1>6
  <1> QED
    BY <1>4, <1>5, <1>6

-----------------------------------------------------------------------------
(* The types *)

LEMMA BusTypes == BusTypeOK /\ [BusNext]_busVars => BusTypeOK'
  <1> SUFFICES ASSUME BusTypeOK, [BusNext]_busVars PROVE BusTypeOK'
    OBVIOUS
  <1>0. /\ buffer \in [Partitions -> Seq(Events)] /\ log \in [Partitions -> Seq(Events)]
        /\ records \in [Rebalances -> Seq(Events)] /\ assigned \in [Flows -> 0..MaxEvents]
    BY DEF BusTypeOK
  <1>a. /\ fence \in [Partitions -> Rebalances \union {None}]
        /\ owner \in [Partitions -> Rebalances \union {None}]
        /\ owners \in Rebalances \union {None}
    BY DEF BusTypeOK
  <1>b. /\ paused \subseteq Partitions /\ contended \subseteq Partitions
        /\ late \subseteq Partitions \X Rebalances
    BY DEF BusTypeOK
  <1>c. phase \in [Rebalances -> Running \union {"idle", "done", "failed"}]
    BY DEF BusTypeOK
  <1>1. ASSUME NEW f \in Flows, Publish(f) PROVE BusTypeOK'
    <2>1. /\ assigned[f] + 1 \in 1..MaxEvents
          /\ assigned' = [assigned EXCEPT ![f] = assigned[f] + 1]
      BY <1>0, <1>1 DEF Publish
    <2>2. <<f, assigned'[f]>> \in Events
      BY <1>0, <2>1 DEF Events
    <2>3. buffer' \in [Partitions -> Seq(Events)]
      BY <1>0, <1>1, <2>2 DEF Publish
    <2>4. assigned' \in [Flows -> 0..MaxEvents]
      BY <1>0, <2>1
    <2>5. UNCHANGED <<log, paused, fence, late, owner, owners, phase, at, records, contended>>
      BY <1>1 DEF Publish
    <2> QED
      BY <2>3, <2>4, <2>5 DEF BusTypeOK
  <1>2. ASSUME NEW r \in Rebalances, Begin(r) PROVE BusTypeOK'
    <2>1. paused' \subseteq Partitions /\ contended' \subseteq Partitions
      BY <1>2, <1>b, MovedArePartitions DEF Begin
    <2>2. phase' \in [Rebalances -> Running \union {"idle", "done", "failed"}]
      BY <1>c, <1>2 DEF Begin, Running
    <2>3. UNCHANGED <<assigned, buffer, log, fence, late, owner, owners, at, records>>
      BY <1>2 DEF Begin
    <2> QED
      BY <2>1, <2>2, <2>3 DEF BusTypeOK
  <1>3. ASSUME NEW r \in Rebalances, FenceActivated(r) PROVE BusTypeOK'
    <2>1. at' = [at EXCEPT ![r] = 1] \/ (at' = [at EXCEPT ![r] = at[r] + 1] /\ ~Last(r))
      <3>1. CASE Last(r)
        BY <1>3, <3>1 DEF FenceActivated
      <3>2. CASE ~Last(r)
        BY <1>3, <3>2 DEF FenceActivated
      <3> QED
        BY <3>1, <3>2
    <2>2. at' \in [Rebalances -> Nat] /\ \A q \in Rebalances : at'[q] \in DOMAIN Plan[q]
      BY <2>1, NextIndexTyped
    <2>3. phase' \in [Rebalances -> Running \union {"idle", "done", "failed"}]
      BY <1>c, <1>3 DEF FenceActivated, Running
    <2>4. fence' \in [Partitions -> Rebalances \union {None}]
      <3>1. r \in Rebalances \union {None}
        OBVIOUS
      <3>2. [fence EXCEPT ![Here(r)] = r] \in [Partitions -> Rebalances \union {None}]
        BY <1>a, <3>1, UpdateTyped
      <3> QED
        BY <1>3, <3>2 DEF FenceActivated
    <2>5. UNCHANGED <<assigned, buffer, log, paused, late, owner, owners, records, contended>>
      BY <1>3 DEF FenceActivated
    <2> QED
      BY <2>2, <2>3, <2>4, <2>5 DEF BusTypeOK
  <1>4. ASSUME NEW r \in Rebalances, Drained(r) PROVE BusTypeOK'
    <2>1. phase' \in [Rebalances -> Running \union {"idle", "done", "failed"}]
      BY <1>c, <1>4 DEF Drained, Running
    <2>2. records' \in [Rebalances -> Seq(Events)]
      BY <1>0, <1>4, HereIsMoved DEF Drained
    <2>3. UNCHANGED <<assigned, buffer, log, paused, fence, late, owner, owners, at, contended>>
      BY <1>4 DEF Drained
    <2> QED
      BY <2>1, <2>2, <2>3 DEF BusTypeOK
  <1>5. ASSUME NEW r \in Rebalances PROVE log[Here(r)] \o records[r] \in Seq(Events)
    <2>1. log[Here(r)] \in Seq(Events) /\ records[r] \in Seq(Events)
      BY <1>0, HereIsMoved
    <2> QED
      BY <2>1
  <1>6. ASSUME NEW r \in Rebalances, Appended(r) PROVE BusTypeOK'
    <2>1. phase' \in [Rebalances -> Running \union {"idle", "done", "failed"}]
      BY <1>c, <1>6 DEF Appended, Running
    <2>2. log' \in [Partitions -> Seq(Events)]
      BY <1>0, <1>5, <1>6 DEF Appended
    <2>3. buffer' \in [Partitions -> Seq(Events)] /\ records' \in [Rebalances -> Seq(Events)]
      BY <1>0, <1>6, EmptyTyped DEF Appended
    <2>4. UNCHANGED <<assigned, paused, fence, late, owner, owners, at, contended>>
      BY <1>6 DEF Appended
    <2> QED
      BY <2>1, <2>2, <2>3, <2>4 DEF BusTypeOK
  <1>7. ASSUME NEW r \in Rebalances, FenceAnswered(r) PROVE BusTypeOK'
    <2>1. phase' \in [Rebalances -> Running \union {"idle", "done", "failed"}]
      BY <1>c, <1>7 DEF FenceAnswered, Running
    <2>2. UNCHANGED <<assigned, buffer, log, paused, fence, late, owner, owners, at, records, contended>>
      BY <1>7 DEF FenceAnswered
    <2> QED
      BY <2>1, <2>2 DEF BusTypeOK
  <1>8. ASSUME NEW r \in Rebalances, Assumed(r) PROVE BusTypeOK'
    <2>1. at' = [at EXCEPT ![r] = at[r]] \/ (at' = [at EXCEPT ![r] = at[r] + 1] /\ ~Last(r))
      <3>1. CASE Last(r)
        BY <1>8, <3>1 DEF Assumed
      <3>2. CASE ~Last(r)
        BY <1>8, <3>2 DEF Assumed
      <3> QED
        BY <3>1, <3>2
    <2>2. at' \in [Rebalances -> Nat] /\ \A q \in Rebalances : at'[q] \in DOMAIN Plan[q]
      BY <2>1, NextIndexTyped
    <2>3. phase' \in [Rebalances -> Running \union {"idle", "done", "failed"}]
      BY <1>c, <1>8 DEF Assumed, Running
    <2>4. owner' \in [Partitions -> Rebalances \union {None}]
      <3>1. r \in Rebalances \union {None}
        OBVIOUS
      <3>2. [owner EXCEPT ![Here(r)] = r] \in [Partitions -> Rebalances \union {None}]
        BY <1>a, <3>1, UpdateTyped
      <3> QED
        BY <1>8, <3>2 DEF Assumed
    <2>7. owners' \in Rebalances \union {None}
      BY <1>a, <1>8 DEF Assumed
    <2>5. paused' \subseteq Partitions
      BY <1>b, <1>8 DEF Assumed
    <2>6. UNCHANGED <<assigned, buffer, log, fence, late, records, contended>>
      BY <1>8 DEF Assumed
    <2> QED
      BY <2>2, <2>3, <2>4, <2>5, <2>6, <2>7 DEF BusTypeOK
  <1>9. ASSUME NEW r \in Rebalances, AppendFails(r) PROVE BusTypeOK'
    <2>1. phase' \in [Rebalances -> Running \union {"idle", "done", "failed"}]
      BY <1>c, <1>9 DEF AppendFails, Running
    <2>2. log' \in [Partitions -> Seq(Events)]
      BY <1>0, <1>5, <1>9 DEF AppendFails
    <2>3. records' \in [Rebalances -> Seq(Events)]
      BY <1>0, <1>9, EmptyTyped DEF AppendFails
    <2>4. UNCHANGED <<assigned, buffer, paused, fence, late, owner, owners, at, contended>>
      BY <1>9 DEF AppendFails
    <2> QED
      BY <2>1, <2>2, <2>3, <2>4 DEF BusTypeOK
  <1>10. ASSUME NEW r \in Rebalances, CallFails(r) PROVE BusTypeOK'
    <2>1. phase' \in [Rebalances -> Running \union {"idle", "done", "failed"}]
      BY <1>c, <1>10 DEF CallFails, Running
    <2>2. late' \subseteq Partitions \X Rebalances
      BY <1>b, <1>10, HereIsMoved DEF CallFails
    <2>3. owner' \in [Partitions -> Rebalances \union {None}]
      BY <1>a, <1>10 DEF CallFails
    <2>4. UNCHANGED <<assigned, buffer, log, paused, fence, owners, at, records, contended>>
      BY <1>10 DEF CallFails
    <2> QED
      BY <2>1, <2>2, <2>3, <2>4 DEF BusTypeOK
  <1>11. ASSUME NEW p \in Partitions, NEW r \in Rebalances, FenceLands(p, r) PROVE BusTypeOK'
    BY <1>11 DEF FenceLands, BusTypeOK
  <1>12. CASE UNCHANGED busVars
    BY <1>12 DEF busVars, BusTypeOK
  <1> QED
    BY <1>1, <1>2, <1>3, <1>4, <1>6, <1>7, <1>8, <1>9, <1>10, <1>11, <1>12 DEF BusNext, Settles

-----------------------------------------------------------------------------
(* Pauses *)

\* A rebalance that goes on and keeps its pause keeps calm partitions quiet.
LEMMA QuietKept ==
    ASSUME BusTypeOK, QuietInv, NEW r \in Rebalances, NEW ph,
           phase' = [phase EXCEPT ![r] = ph], phase[r] \in Running,
           UNCHANGED <<paused, contended>>
    PROVE  QuietInv'
  <1>1. phase \in [Rebalances -> Running \union {"idle", "done", "failed"}]
    BY DEF BusTypeOK
  <1>2. \A q \in Rebalances : phase'[q] \in Running => phase[q] \in Running
    BY <1>1
  <1> QED
    BY <1>2 DEF QuietInv, Calm

LEMMA QuietStep == BusTypeOK /\ QuietInv /\ [BusNext]_busVars => QuietInv'
  <1> SUFFICES ASSUME BusTypeOK, QuietInv, [BusNext]_busVars PROVE QuietInv'
    OBVIOUS
  <1>1. phase \in [Rebalances -> Running \union {"idle", "done", "failed"}]
    BY DEF BusTypeOK
  <1>2. ASSUME NEW r \in Rebalances, Begin(r) PROVE QuietInv'
    <2>1. /\ phase' = [phase EXCEPT ![r] = "fence"] /\ phase[r] = "idle"
          /\ paused' = paused \union Moved(r)
          /\ contended' = contended \union
                UNION {Moved(q) \cap Moved(r) : q \in {q \in Rebalances : phase[q] \in Running}}
      BY <1>2 DEF Begin
    <2>2. \A q \in Rebalances : q # r => phase'[q] = phase[q]
      BY <1>1, <2>1
    <2>3. SUFFICES ASSUME NEW s \in Rebalances, phase'[s] \in Running,
                          NEW p \in Moved(s), p \in Partitions, p \notin contended'
                   PROVE  /\ p \in paused'
                          /\ \A q \in Rebalances : p \in Moved(q) /\ phase'[q] \in Running => q = s
      BY DEF QuietInv, Calm
    <2>4. p \in Calm
      BY <2>1, <2>3 DEF Calm
    <2>5. \A q \in Rebalances : phase[q] \in Running => ~(p \in Moved(q) /\ p \in Moved(r))
      BY <2>1, <2>3
    <2>6. CASE s = r
      BY <2>1, <2>2, <2>3, <2>5, <2>6
    <2>7. CASE s # r
      <3>1. phase[s] \in Running /\ p \notin Moved(r)
        BY <2>2, <2>3, <2>5, <2>7
      <3> QED
        BY <2>1, <2>2, <2>3, <2>4, <3>1 DEF QuietInv
    <2> QED
      BY <2>6, <2>7
  <1>3. ASSUME NEW r \in Rebalances, Assumed(r) PROVE QuietInv'
    <2>1. CASE ~Last(r)
      BY <1>3, <2>1, QuietKept DEF Assumed, Running
    <2>2. CASE Last(r)
      <3>1. /\ phase' = [phase EXCEPT ![r] = "done"] /\ phase[r] \in Running
            /\ paused' = paused \ Moved(r) /\ contended' = contended
        BY <1>3, <2>2 DEF Assumed, Running
      <3>2. \A q \in Rebalances : phase'[q] \in Running => q # r /\ phase[q] \in Running
        BY <1>1, <3>1 DEF Running
      <3> QED
        BY <3>1, <3>2 DEF QuietInv, Calm
    <2> QED
      BY <2>1, <2>2
  <1>4. ASSUME NEW r \in Rebalances, FenceActivated(r) \/ FenceAnswered(r) PROVE QuietInv'
    <2>1. /\ phase[r] \in Running /\ UNCHANGED <<paused, contended>>
          /\ \E ph : phase' = [phase EXCEPT ![r] = ph]
      BY <1>4 DEF FenceActivated, FenceAnswered, Running
    <2> QED
      BY <2>1, QuietKept
  <1>5. ASSUME NEW r \in Rebalances, Drained(r) \/ Appended(r) \/ AppendFails(r) PROVE QuietInv'
    <2>1. /\ phase[r] \in Running /\ UNCHANGED <<paused, contended>>
          /\ \E ph : phase' = [phase EXCEPT ![r] = ph]
      BY <1>5 DEF Drained, Appended, AppendFails, Running
    <2> QED
      BY <2>1, QuietKept
  <1>6. ASSUME NEW r \in Rebalances, CallFails(r) PROVE QuietInv'
    <2>1. /\ phase[r] \in Running /\ UNCHANGED <<paused, contended>>
          /\ phase' = [phase EXCEPT ![r] = "failed"]
      BY <1>6 DEF CallFails, Running
    <2> QED
      BY <2>1, QuietKept
  <1>7. CASE UNCHANGED <<phase, paused, contended>>
    BY <1>7 DEF QuietInv, Calm
  <1>8. ASSUME NEW f \in Flows, Publish(f) PROVE UNCHANGED <<phase, paused, contended>>
    BY <1>8 DEF Publish
  <1>9. ASSUME NEW p, NEW r, FenceLands(p, r) PROVE UNCHANGED <<phase, paused, contended>>
    BY <1>9 DEF FenceLands
  <1>10. CASE UNCHANGED busVars
    BY <1>7, <1>10 DEF busVars
  <1> QED
    BY <1>2, <1>3, <1>4, <1>5, <1>6, <1>7, <1>8, <1>9, <1>10 DEF BusNext, Settles

-----------------------------------------------------------------------------
(* Sequences of events *)

LEMMA InConcat ==
    ASSUME NEW S, NEW s \in Seq(S), NEW t \in Seq(S), NEW e
    PROVE  In(e, s \o t) <=> In(e, s) \/ In(e, t)
  <1>1. /\ DOMAIN (s \o t) = 1..(Len(s) + Len(t)) /\ DOMAIN s = 1..Len(s) /\ DOMAIN t = 1..Len(t)
        /\ Len(s) \in Nat /\ Len(t) \in Nat
        /\ \A i \in 1..(Len(s) + Len(t)) : (s \o t)[i] = IF i <= Len(s) THEN s[i] ELSE t[i - Len(s)]
    OBVIOUS
  <1> DEFINE u == s \o t
  <1> HIDE DEF u
  <1>2. ASSUME In(e, u) PROVE In(e, s) \/ In(e, t)
    <2>1. PICK i \in 1..(Len(s) + Len(t)) : u[i] = e
      BY <1>1, <1>2 DEF In, u
    <2>2. CASE i <= Len(s)
      <3>1. i \in 1..Len(s) /\ s[i] = e
        BY <1>1, <2>1, <2>2 DEF u
      <3> QED
        BY <1>1, <3>1 DEF In
    <2>3. CASE i > Len(s)
      <3>1. i - Len(s) \in 1..Len(t) /\ t[i - Len(s)] = e
        BY <1>1, <2>1, <2>3 DEF u
      <3> QED
        BY <1>1, <3>1 DEF In
    <2> QED
      BY <1>1, <2>1, <2>2, <2>3
  <1>3. ASSUME In(e, s) PROVE In(e, u)
    BY <1>1, <1>3 DEF In, u
  <1>4. ASSUME In(e, t) PROVE In(e, u)
    <2>1. PICK i \in 1..Len(t) : t[i] = e
      BY <1>1, <1>4 DEF In
    <2>2. Len(s) + i \in 1..(Len(s) + Len(t)) /\ u[Len(s) + i] = e
      BY <1>1, <2>1 DEF u
    <2> QED
      BY <1>1, <2>2 DEF In, u
  <1> QED
    BY <1>2, <1>3, <1>4 DEF u

LEMMA FollowsAppend ==
    ASSUME NEW S, NEW t \in Seq(S), NEW s, NEW e \in S, Follows(t, s),
           e[2] > 1 => In(<<e[1], e[2] - 1>>, s) \/ In(<<e[1], e[2] - 1>>, t)
    PROVE  Follows(Append(t, e), s)
  <1> DEFINE u == Append(t, e)
  <1>1. /\ DOMAIN u = 1..(Len(t) + 1) /\ DOMAIN t = 1..Len(t) /\ Len(t) \in Nat
        /\ u[Len(t) + 1] = e /\ \A i \in 1..Len(t) : u[i] = t[i]
    OBVIOUS
  <1> HIDE DEF u
  <1>2. SUFFICES ASSUME NEW i \in 1..(Len(t) + 1), u[i][2] > 1
                 PROVE  \/ In(<<u[i][1], u[i][2] - 1>>, s)
                        \/ \E j \in 1..(i - 1) : u[j] = <<u[i][1], u[i][2] - 1>>
    BY <1>1 DEF Follows, u
  <1>3. CASE i \in 1..Len(t)
    <2>1. u[i] = t[i] /\ \A j \in 1..(i - 1) : u[j] = t[j]
      BY <1>1, <1>3
    <2> QED
      BY <1>1, <1>2, <1>3, <2>1 DEF Follows
  <1>4. CASE i = Len(t) + 1
    <2>1. u[i] = e /\ i - 1 = Len(t)
      BY <1>1, <1>4
    <2> QED
      BY <1>1, <1>2, <2>1 DEF In
  <1> QED
    BY <1>1, <1>3, <1>4

LEMMA FollowsConcat ==
    ASSUME NEW S, NEW s \in Seq(S), NEW t \in Seq(S), Follows(s, <<>>), Follows(t, s)
    PROVE  Follows(s \o t, <<>>)
  <1> DEFINE u == s \o t
  <1>1. /\ DOMAIN u = 1..(Len(s) + Len(t)) /\ DOMAIN s = 1..Len(s) /\ DOMAIN t = 1..Len(t)
        /\ Len(s) \in Nat /\ Len(t) \in Nat
        /\ \A i \in 1..Len(s) : u[i] = s[i]
        /\ \A i \in 1..Len(t) : u[Len(s) + i] = t[i]
    OBVIOUS
  <1> HIDE DEF u
  <1>2. \A e : ~In(e, <<>>)
    BY DEF In
  <1>3. SUFFICES ASSUME NEW i \in 1..(Len(s) + Len(t)), u[i][2] > 1
                 PROVE  \E j \in 1..(i - 1) : u[j] = <<u[i][1], u[i][2] - 1>>
    BY <1>1 DEF Follows, u
  <1>4. CASE i \in 1..Len(s)
    <2>1. u[i] = s[i] /\ \A j \in 1..(i - 1) : u[j] = s[j]
      BY <1>1, <1>4
    <2>2. s[i][2] > 1 => \E j \in 1..(i - 1) : s[j] = <<s[i][1], s[i][2] - 1>>
      BY <1>1, <1>2, <1>4 DEF Follows
    <2> QED
      BY <1>3, <2>1, <2>2
  <1>5. CASE i \notin 1..Len(s)
    <2>1. PICK m \in 1..Len(t) : i = Len(s) + m
      <3>1. i - Len(s) \in 1..Len(t) /\ i = Len(s) + (i - Len(s))
        BY <1>1, <1>5
      <3> QED
        BY <3>1
    <2> DEFINE before == <<t[m][1], t[m][2] - 1>>
    <2>2. u[i] = t[m]
      BY <1>1, <2>1
    <2>3. In(before, s) \/ \E j \in 1..(m - 1) : t[j] = before
      BY <1>1, <1>3, <2>2 DEF Follows
    <2> HIDE DEF before
    <2>4. CASE In(before, s)
      <3>1. PICK j \in 1..Len(s) : s[j] = before
        BY <1>1, <2>4 DEF In
      <3>2. j \in 1..(i - 1) /\ u[j] = before
        BY <1>1, <2>1, <3>1
      <3> QED
        BY <2>2, <3>2 DEF before
    <2>5. ASSUME NEW j \in 1..(m - 1), t[j] = before
          PROVE  \E k \in 1..(i - 1) : u[k] = <<u[i][1], u[i][2] - 1>>
      <3>1. Len(s) + j \in 1..(i - 1) /\ u[Len(s) + j] = before
        BY <1>1, <2>1, <2>5
      <3> QED
        BY <2>2, <3>1 DEF before
    <2> QED
      BY <2>2, <2>3, <2>4, <2>5 DEF before
  <1> QED
    BY <1>4, <1>5

LEMMA FollowsMore ==
    ASSUME NEW t, NEW s, NEW more, Follows(t, s), \A e : In(e, s) => In(e, more)
    PROVE  Follows(t, more)
  BY DEF Follows

LEMMA LogOrderIsFollows == LogKeepsOrder <=> \A p \in Calm : Follows(log[p], <<>>)
  <1>1. \A e : ~In(e, <<>>)
    BY DEF In
  <1> QED
    BY <1>1 DEF LogKeepsOrder, Follows

-----------------------------------------------------------------------------
(* What a flush appends *)

\* What a step does not touch of a rebalance and of its buffer stays right.
LEMMA FlushOfKept ==
    ASSUME FlushInv, NEW r \in Rebalances, Calm' \subseteq Calm,
           at'[r] = at[r], phase'[r] = phase[r], records'[r] = records[r],
           phase[r] \in Running /\ Here(r) \in Calm => buffer'[Here(r)] = buffer[Here(r)]
    PROVE  FlushOf(r)'
  <1>1. Here(r)' = Here(r)
    BY DEF Here
  <1>2. FlushOf(r)
    BY DEF FlushInv
  <1>3. {"append", "confirm", "assume"} \subseteq Running
    BY DEF Running
  <1> QED
    BY <1>1, <1>2, <1>3 DEF FlushOf

\* A rebalance that moves on, its buffer as it was.
LEMMA FlushMovesOn ==
    ASSUME BusTypeOK, FlushInv, NEW r \in Rebalances, UNCHANGED <<buffer, contended>>,
           \A q \in Rebalances \ {r} :
               at'[q] = at[q] /\ phase'[q] = phase[q] /\ records'[q] = records[q],
           FlushOf(r)'
    PROVE  FlushInv'
  <1>1. Calm' \subseteq Calm
    BY DEF Calm
  <1>2. ASSUME NEW q \in Rebalances \ {r} PROVE FlushOf(q)'
    BY <1>1, FlushOfKept
  <1> QED
    BY <1>2 DEF FlushInv

LEMMA FlushStep == BusTypeOK /\ QuietInv /\ FlushInv /\ [BusNext]_busVars => FlushInv'
  <1> SUFFICES ASSUME BusTypeOK, QuietInv, FlushInv, [BusNext]_busVars PROVE FlushInv'
    OBVIOUS
  <1>0. /\ buffer \in [Partitions -> Seq(Events)]
        /\ records \in [Rebalances -> Seq(Events)]
        /\ at \in [Rebalances -> Nat]
        /\ phase \in [Rebalances -> Running \union {"idle", "done", "failed"}]
    BY DEF BusTypeOK
  <1>a. \A q \in Rebalances : phase[q] \in Running /\ Here(q) \in Calm => Here(q) \in paused
    BY HereIsMoved DEF QuietInv
  <1>b. \A q \in Rebalances : FlushOf(q)
    BY DEF FlushInv
  <1>1. ASSUME NEW f \in Flows, Publish(f) PROVE FlushInv'
    <2>1. /\ UNCHANGED <<at, phase, records, contended>> /\ PartitionFor[f] \notin paused
          /\ \A p \in Partitions \ {PartitionFor[f]} : buffer'[p] = buffer[p]
      BY <1>0, <1>1 DEF Publish
    <2>2. Calm' \subseteq Calm
      BY <2>1 DEF Calm
    <2>3. ASSUME NEW q \in Rebalances PROVE FlushOf(q)'
      <3>1. phase[q] \in Running /\ Here(q) \in Calm => buffer'[Here(q)] = buffer[Here(q)]
        BY <1>a, <2>1, HereIsMoved
      <3> QED
        BY <2>1, <2>2, <3>1, FlushOfKept
    <2> QED
      BY <2>3 DEF FlushInv
  <1>2. ASSUME NEW r \in Rebalances, Begin(r) PROVE FlushInv'
    <2>1. /\ UNCHANGED <<at, buffer, records>> /\ phase' = [phase EXCEPT ![r] = "fence"]
          /\ contended \subseteq contended'
      BY <1>2 DEF Begin
    <2>2. Calm' \subseteq Calm
      BY <2>1 DEF Calm
    <2>3. ASSUME NEW q \in Rebalances PROVE FlushOf(q)'
      <3>1. CASE q = r
        <4>1. phase'[q] = "fence"
          BY <1>0, <2>1, <3>1
        <4> QED
          BY <4>1 DEF FlushOf
      <3>2. CASE q # r
        <4>1. phase'[q] = phase[q]
          BY <1>0, <2>1, <3>2
        <4> QED
          BY <2>1, <2>2, <4>1, FlushOfKept
      <3> QED
        BY <3>1, <3>2
    <2> QED
      BY <2>3 DEF FlushInv
  <1>3. ASSUME NEW r \in Rebalances, FenceActivated(r) \/ Assumed(r) PROVE FlushInv'
    <2>1. /\ UNCHANGED <<buffer, records, contended>>
          /\ \E ph \in {"fence", "drain", "done"} : phase' = [phase EXCEPT ![r] = ph]
          /\ \E i : at' = [at EXCEPT ![r] = i]
      <3>1. CASE FenceActivated(r)
        BY <3>1 DEF FenceActivated
      <3>2. CASE Assumed(r)
        BY <3>2 DEF Assumed
      <3> QED
        BY <1>3, <3>1, <3>2
    <2>2. phase'[r] \notin {"append", "confirm", "assume"}
      BY <1>0, <2>1
    <2>3. FlushOf(r)'
      BY <2>2 DEF FlushOf
    <2>4. \A q \in Rebalances \ {r} :
              at'[q] = at[q] /\ phase'[q] = phase[q] /\ records'[q] = records[q]
      BY <1>0, <2>1
    <2> QED
      BY <2>1, <2>3, <2>4, FlushMovesOn
  <1>4. ASSUME NEW r \in Rebalances, Drained(r) PROVE FlushInv'
    <2>1. /\ UNCHANGED <<buffer, at, contended>>
          /\ phase' = [phase EXCEPT ![r] = "append"]
          /\ records' = [records EXCEPT ![r] = buffer[Here(r)]]
      BY <1>4 DEF Drained
    <2>2. phase'[r] = "append" /\ records'[r] = buffer[Here(r)] /\ Here(r)' = Here(r)
      BY <1>0, <2>1 DEF Here
    <2>3. FlushOf(r)'
      BY <2>1, <2>2 DEF FlushOf
    <2>4. \A q \in Rebalances \ {r} :
              at'[q] = at[q] /\ phase'[q] = phase[q] /\ records'[q] = records[q]
      BY <1>0, <2>1
    <2> QED
      BY <2>1, <2>3, <2>4, FlushMovesOn
  <1>5. ASSUME NEW r \in Rebalances, Appended(r) PROVE FlushInv'
    <2>1. /\ UNCHANGED <<at, contended>> /\ phase[r] = "append"
          /\ phase' = [phase EXCEPT ![r] = "confirm"]
          /\ records' = [records EXCEPT ![r] = <<>>]
          /\ buffer' = [buffer EXCEPT ![Here(r)] = <<>>]
      BY <1>5 DEF Appended
    <2>2. /\ Here(r) \in Partitions /\ Here(r)' = Here(r)
          /\ \A q \in Rebalances : Here(q) \in Partitions /\ Here(q) \in Moved(q)
      BY <2>1, HereIsMoved DEF Here
    <2>3. phase'[r] = "confirm" /\ buffer'[Here(r)] = <<>>
      BY <1>0, <2>1, <2>2
    <2>4. FlushOf(r)'
      BY <2>2, <2>3 DEF FlushOf
    <2>5. Calm' \subseteq Calm
      BY <2>1 DEF Calm
    <2>6. ASSUME NEW q \in Rebalances \ {r} PROVE FlushOf(q)'
      <3>1. at'[q] = at[q] /\ phase'[q] = phase[q] /\ records'[q] = records[q]
        BY <1>0, <2>1
      <3>2. phase[q] \in Running /\ Here(q) \in Calm => Here(q) # Here(r)
        BY <2>1, <2>2 DEF QuietInv, Running
      <3>3. phase[q] \in Running /\ Here(q) \in Calm => buffer'[Here(q)] = buffer[Here(q)]
        BY <1>0, <2>1, <2>2, <3>2
      <3> QED
        BY <2>5, <3>1, <3>3, FlushOfKept
    <2> QED
      BY <2>4, <2>6 DEF FlushInv
  <1>6. ASSUME NEW r \in Rebalances, FenceAnswered(r) PROVE FlushInv'
    <2>1. /\ UNCHANGED <<buffer, at, records, contended>> /\ phase[r] = "confirm"
          /\ \E ph \in {"assume", "failed"} : phase' = [phase EXCEPT ![r] = ph]
      BY <1>6 DEF FenceAnswered
    <2>2. phase'[r] # "append" /\ Here(r)' = Here(r)
      BY <1>0, <2>1 DEF Here
    <2>3. FlushOf(r)'
      BY <1>b, <2>1, <2>2 DEF FlushOf, Calm
    <2>4. \A q \in Rebalances \ {r} :
              at'[q] = at[q] /\ phase'[q] = phase[q] /\ records'[q] = records[q]
      BY <1>0, <2>1
    <2> QED
      BY <2>1, <2>3, <2>4, FlushMovesOn
  <1>7. ASSUME NEW r \in Rebalances, AppendFails(r) \/ CallFails(r) PROVE FlushInv'
    <2>1. /\ UNCHANGED <<buffer, at, contended>> /\ phase' = [phase EXCEPT ![r] = "failed"]
          /\ \E x : records' = [records EXCEPT ![r] = x]
      <3>1. CASE AppendFails(r)
        BY <3>1 DEF AppendFails
      <3>2. CASE CallFails(r)
        <4>1. records = [records EXCEPT ![r] = records[r]]
          BY <1>0
        <4> QED
          BY <3>2, <4>1 DEF CallFails
      <3> QED
        BY <1>7, <3>1, <3>2
    <2>2. phase'[r] = "failed"
      BY <1>0, <2>1
    <2>3. FlushOf(r)'
      BY <2>2 DEF FlushOf
    <2>4. \A q \in Rebalances \ {r} :
              at'[q] = at[q] /\ phase'[q] = phase[q] /\ records'[q] = records[q]
      BY <1>0, <2>1
    <2> QED
      BY <2>1, <2>3, <2>4, FlushMovesOn
  <1>8. CASE UNCHANGED <<buffer, at, phase, records, contended>>
    <2>1. Calm' \subseteq Calm
      BY <1>8 DEF Calm
    <2> QED
      BY <1>8, <2>1, FlushOfKept DEF FlushInv
  <1>9. ASSUME NEW p, NEW r, FenceLands(p, r)
        PROVE  UNCHANGED <<buffer, at, phase, records, contended>>
    BY <1>9 DEF FenceLands
  <1>10. CASE UNCHANGED busVars
    BY <1>8, <1>10 DEF busVars
  <1> QED
    BY <1>1, <1>2, <1>3, <1>4, <1>5, <1>6, <1>7, <1>8, <1>9, <1>10 DEF BusNext, Settles

-----------------------------------------------------------------------------
(* Buffers and logs *)

DataInv == EventsAreKept /\ LogKeepsOrder /\ BufferKeepsOrder

LEMMA InAppend ==
    ASSUME NEW S, NEW t \in Seq(S), NEW e \in S
    PROVE  /\ In(e, Append(t, e))
           /\ \A d : In(d, t) => In(d, Append(t, e))
  <1> DEFINE u == Append(t, e)
  <1>1. /\ DOMAIN u = 1..(Len(t) + 1) /\ DOMAIN t = 1..Len(t) /\ Len(t) \in Nat
        /\ u[Len(t) + 1] = e /\ \A i \in 1..Len(t) : u[i] = t[i]
    OBVIOUS
  <1> HIDE DEF u
  <1> QED
    BY <1>1 DEF In, u

LEMMA DataKept ==
    ASSUME DataInv, UNCHANGED <<assigned, buffer, log>>, contended \subseteq contended'
    PROVE  DataInv'
  <1>1. Calm' \subseteq Calm
    BY DEF Calm
  <1> QED
    BY <1>1 DEF DataInv, EventsAreKept, LogKeepsOrder, BufferKeepsOrder

\* The step of publish(): the event follows its predecessor.
LEMMA PublishedData ==
    ASSUME BusTypeOK, DataInv, NEW f \in Flows, Publish(f)
    PROVE  DataInv'
  <1> DEFINE p == PartitionFor[f]
             e == <<f, assigned[f] + 1>>
  <1>0. /\ buffer \in [Partitions -> Seq(Events)] /\ assigned \in [Flows -> 0..MaxEvents]
        /\ p \in Partitions /\ \A g \in Flows : PartitionFor[g] \in Partitions
    BY DEF BusTypeOK
  <1>1. /\ assigned[f] < MaxEvents /\ assigned' = [assigned EXCEPT ![f] = assigned[f] + 1]
        /\ buffer' = [buffer EXCEPT ![p] = Append(buffer[p], e)]
        /\ UNCHANGED <<log, contended>>
    BY <1>0 DEF Publish
  <1>2. e \in Events /\ buffer[p] \in Seq(Events)
    BY <1>0, <1>1 DEF Events
  <1>3. /\ buffer'[p] = Append(buffer[p], e)
        /\ \A q \in Partitions \ {p} : buffer'[q] = buffer[q]
        /\ assigned'[f] = assigned[f] + 1 /\ \A g \in Flows \ {f} : assigned'[g] = assigned[g]
    BY <1>0, <1>1
  <1>4. Calm' = Calm /\ log' = log
    BY <1>1 DEF Calm
  <1>5. In(e, buffer'[p])
    BY <1>2, <1>3, InAppend
  <1>6. ASSUME NEW q \in Partitions, NEW d, In(d, buffer[q]) PROVE In(d, buffer'[q])
    <2>1. In(d, Append(buffer[p], e)) \/ q # p
      BY <1>2, <1>6, InAppend
    <2> QED
      BY <1>3, <1>6, <2>1
  <1>7. EventsAreKept'
    <2>1. SUFFICES ASSUME NEW g \in Flows, PartitionFor[g] \in Calm, NEW k \in 1..assigned'[g]
                   PROVE  \/ In(<<g, k>>, buffer'[PartitionFor[g]])
                          \/ In(<<g, k>>, log[PartitionFor[g]])
      BY <1>4 DEF EventsAreKept
    <2>2. CASE k \in 1..assigned[g]
      <3>1. \/ In(<<g, k>>, buffer[PartitionFor[g]])
            \/ In(<<g, k>>, log[PartitionFor[g]])
        BY <2>1, <2>2 DEF DataInv, EventsAreKept
      <3> QED
        BY <1>0, <1>6, <3>1
    <2>3. CASE k \notin 1..assigned[g]
      <3>1. g = f /\ k = assigned[f] + 1
        BY <1>0, <1>3, <2>1, <2>3
      <3> QED
        BY <1>5, <3>1
    <2> QED
      BY <2>2, <2>3
  <1>8. BufferKeepsOrder'
    <2>1. SUFFICES ASSUME NEW q \in Calm PROVE Follows(buffer'[q], log[q])
      BY <1>4 DEF BufferKeepsOrder
    <2>2. Follows(buffer[q], log[q])
      BY DEF DataInv, BufferKeepsOrder
    <2>3. CASE q = p
      <3>1. ASSUME e[2] > 1
            PROVE  In(<<e[1], e[2] - 1>>, log[p]) \/ In(<<e[1], e[2] - 1>>, buffer[p])
        <4>1. e[1] = f /\ e[2] - 1 = assigned[f] /\ assigned[f] \in 1..assigned[f]
          <5>1. assigned[f] \in Nat /\ e[1] = f /\ e[2] = assigned[f] + 1
            BY <1>0
          <5>2. assigned[f] + 1 > 1
            BY <3>1, <5>1
          <5> QED
            BY <5>1, <5>2
        <4>2. In(<<f, assigned[f]>>, buffer[p]) \/ In(<<f, assigned[f]>>, log[p])
          BY <2>3, <4>1 DEF DataInv, EventsAreKept
        <4> QED
          BY <4>1, <4>2
      <3> HIDE DEF e
      <3>2. Follows(Append(buffer[p], e), log[p])
        BY <1>2, <2>2, <2>3, <3>1, FollowsAppend
      <3> QED
        BY <1>3, <2>3, <3>2
    <2>4. CASE q # p
      BY <1>3, <2>2, <2>4 DEF Calm
    <2> QED
      BY <2>3, <2>4
  <1> QED
    BY <1>4, <1>7, <1>8 DEF DataInv, LogKeepsOrder

\* An append that reached the file; the buffer is emptied only if the caller
\* learnt of it.
LEMMA AppendedData ==
    ASSUME BusTypeOK, FlushInv, DataInv, NEW r \in Rebalances, phase[r] = "append",
           log' = [log EXCEPT ![Here(r)] = @ \o records[r]],
           buffer' \in {buffer, [buffer EXCEPT ![Here(r)] = <<>>]},
           UNCHANGED <<assigned, contended>>
    PROVE  DataInv'
  <1> DEFINE h == Here(r)
  <1>0. /\ buffer \in [Partitions -> Seq(Events)] /\ log \in [Partitions -> Seq(Events)]
        /\ \A g \in Flows : PartitionFor[g] \in Partitions
    BY DEF BusTypeOK
  <1>1. h \in Partitions
    BY HereIsMoved
  <1>2. Calm' = Calm /\ Calm \subseteq Partitions /\ assigned' = assigned
    BY DEF Calm
  <1>3. h \in Calm => records[r] = buffer[h]
    BY DEF FlushInv, FlushOf
  <1> HIDE DEF h
  <1>4. \A q \in Partitions \ {h} : log'[q] = log[q] /\ buffer'[q] = buffer[q]
    BY <1>0 DEF h
  <1>5. h \in Calm => log'[h] = log[h] \o buffer[h]
    BY <1>0, <1>1, <1>3 DEF h
  <1>6. buffer'[h] = buffer[h] \/ buffer'[h] = <<>>
    BY <1>0, <1>1 DEF h
  <1>7. \A q \in Calm : Follows(log[q], <<>>) /\ Follows(buffer[q], log[q])
    BY LogOrderIsFollows DEF DataInv, BufferKeepsOrder
  <1>8. log[h] \in Seq(Events) /\ buffer[h] \in Seq(Events)
    BY <1>0, <1>1
  <1>9. ASSUME NEW q \in Calm, NEW e, In(e, log[q]) \/ In(e, buffer[q]) PROVE In(e, log'[q]) \/ q # h
    <2>1. In(e, log[h] \o buffer[h]) \/ q # h
      BY <1>8, <1>9, InConcat
    <2> QED
      BY <1>5, <2>1
  <1>10. EventsAreKept'
    <2>1. SUFFICES ASSUME NEW g \in Flows, PartitionFor[g] \in Calm, NEW k \in 1..assigned[g]
                   PROVE  \/ In(<<g, k>>, buffer'[PartitionFor[g]])
                          \/ In(<<g, k>>, log'[PartitionFor[g]])
      BY <1>2 DEF EventsAreKept
    <2>2. \/ In(<<g, k>>, buffer[PartitionFor[g]])
          \/ In(<<g, k>>, log[PartitionFor[g]])
      BY <2>1 DEF DataInv, EventsAreKept
    <2> QED
      BY <1>0, <1>4, <1>9, <2>1, <2>2
  <1>11. ASSUME NEW q \in Calm PROVE Follows(log'[q], <<>>)
    <2>1. Follows(log[h] \o buffer[h], <<>>) \/ h \notin Calm
      BY <1>7, <1>8, FollowsConcat
    <2> QED
      BY <1>2, <1>4, <1>5, <1>7, <2>1
  <1>12. ASSUME NEW q \in Calm PROVE Follows(buffer'[q], log'[q])
    <2>1. CASE q # h
      BY <1>2, <1>4, <1>7, <2>1
    <2>2. CASE q = h
      <3>1. Follows(<<>>, log'[h])
        BY DEF Follows
      <3>2. Follows(buffer[h], log'[h])
        <4>1. \A e : In(e, log[h]) => In(e, log'[h])
          BY <1>9, <2>2
        <4> QED
          BY <1>7, <2>2, <4>1, FollowsMore
      <3> QED
        BY <1>6, <2>2, <3>1, <3>2
    <2> QED
      BY <2>1, <2>2
  <1>13. LogKeepsOrder'
    <2>1. \A e : ~In(e, <<>>)
      BY DEF In
    <2> QED
      BY <1>2, <1>11, <2>1 DEF LogKeepsOrder, Follows
  <1>14. BufferKeepsOrder'
    BY <1>2, <1>12 DEF BufferKeepsOrder
  <1> QED
    BY <1>10, <1>13, <1>14 DEF DataInv

LEMMA DataStep == BusTypeOK /\ FlushInv /\ DataInv /\ [BusNext]_busVars => DataInv'
  <1> SUFFICES ASSUME BusTypeOK, FlushInv, DataInv, [BusNext]_busVars PROVE DataInv'
    OBVIOUS
  <1>1. ASSUME NEW f \in Flows, Publish(f) PROVE DataInv'
    BY <1>1, PublishedData
  <1>2. ASSUME NEW r \in Rebalances, Appended(r) PROVE DataInv'
    BY <1>2, AppendedData DEF Appended
  <1>3. ASSUME NEW r \in Rebalances, AppendFails(r) PROVE DataInv'
    <2>1. UNCHANGED <<assigned, buffer, contended>> /\ phase[r] = "append"
      BY <1>3 DEF AppendFails
    <2>2. CASE log' = log
      BY <2>1, <2>2, DataKept
    <2>3. CASE log' # log
      <3>1. log' = [log EXCEPT ![Here(r)] = @ \o records[r]]
        BY <1>3, <2>3 DEF AppendFails
      <3> QED
        BY <2>1, <3>1, AppendedData
    <2> QED
      BY <2>2, <2>3
  <1>4. ASSUME NEW r \in Rebalances, Begin(r) PROVE DataInv'
    <2>1. UNCHANGED <<assigned, buffer, log>> /\ contended \subseteq contended'
      BY <1>4 DEF Begin
    <2> QED
      BY <2>1, DataKept
  <1>5. CASE UNCHANGED <<assigned, buffer, log, contended>>
    BY <1>5, DataKept
  <1>6. ASSUME NEW r \in Rebalances,
               \/ FenceActivated(r) \/ Drained(r) \/ FenceAnswered(r)
               \/ Assumed(r) \/ CallFails(r)
        PROVE  UNCHANGED <<assigned, buffer, log, contended>>
    <2>1. CASE FenceActivated(r)
      BY <2>1 DEF FenceActivated
    <2>2. CASE Drained(r)
      BY <2>2 DEF Drained
    <2>3. CASE FenceAnswered(r)
      BY <2>3 DEF FenceAnswered
    <2>4. CASE Assumed(r)
      BY <2>4 DEF Assumed
    <2>5. CASE CallFails(r)
      BY <2>5 DEF CallFails
    <2> QED
      BY <1>6, <2>1, <2>2, <2>3, <2>4, <2>5
  <1>7. ASSUME NEW p, NEW r, FenceLands(p, r) PROVE UNCHANGED <<assigned, buffer, log, contended>>
    BY <1>7 DEF FenceLands
  <1>8. CASE UNCHANGED busVars
    BY <1>5, <1>8 DEF busVars
  <1> QED
    BY <1>1, <1>2, <1>3, <1>4, <1>5, <1>6, <1>7, <1>8 DEF BusNext, Settles

-----------------------------------------------------------------------------
(* The invariant and the theorems *)

LEMMA BusStart == BusInit => BusInv
  <1> SUFFICES ASSUME BusInit PROVE BusInv
    OBVIOUS
  <1>1. \A r \in Rebalances : 1 \in DOMAIN Plan[r]
    <2>1. ASSUME NEW r \in Rebalances PROVE 1 \in DOMAIN Plan[r]
      <3>1. Plan[r] \in Seq(Partitions) /\ Plan[r] # <<>>
        OBVIOUS
      <3> QED
        BY <3>1
    <2> QED
      BY <2>1
  <1>2. BusTypeOK
    BY <1>1, EmptyTyped DEF BusInit, BusTypeOK
  <1>3. QuietInv /\ FlushInv
    BY DEF BusInit, QuietInv, FlushInv, FlushOf, Running
  <1>4. EventsAreKept
    BY DEF BusInit, EventsAreKept
  <1>5. LogKeepsOrder /\ BufferKeepsOrder
    BY DEF BusInit, LogKeepsOrder, BufferKeepsOrder, Follows, Calm
  <1> QED
    BY <1>2, <1>3, <1>4, <1>5 DEF BusInv

LEMMA BusInvStep == BusInv /\ [BusNext]_busVars => BusInv'
  BY BusTypes, QuietStep, FlushStep, DataStep DEF BusInv, DataInv

LEMMA BusInvHolds == BusSpec => []BusInv
  <1> QED
    BY BusStart, BusInvStep, PTL DEF BusSpec

\* The variables have their types.
THEOREM BusTypesHold == BusSpec => []BusTypeOK
  <1>1. BusInv => BusTypeOK
    BY DEF BusInv
  <1> QED
    BY <1>1, BusInvHolds, PTL

\* No event of a partition that rebalances did not contend for is ever lost
\* (publish, flushMigrationLog).
THEOREM EventsNeverLost == BusSpec => []EventsAreKept
  <1>1. BusInv => EventsAreKept
    BY DEF BusInv
  <1> QED
    BY <1>1, BusInvHolds, PTL

\* A replay of its log meets the events of a flow in order and without a gap
\* (flushMigrationLog, replayMigrationLog).
THEOREM LogsKeepOrder == BusSpec => []LogKeepsOrder
  <1>1. BusInv => LogKeepsOrder
    BY DEF BusInv
  <1> QED
    BY <1>1, BusInvHolds, PTL

LEMMA OnlyPublishGrows ==
    ASSUME BusTypeOK, NEW r \in Rebalances, Begin(r) \/ Settles(r), NEW p \in Partitions
    PROVE  ~(Len(buffer'[p]) > Len(buffer[p]))
  <1>0. buffer \in [Partitions -> Seq(Events)]
    BY DEF BusTypeOK
  <1>1. Len(buffer[p]) \in Nat /\ Len(<<>>) = 0
    <2>1. buffer[p] \in Seq(Events)
      BY <1>0
    <2> QED
      BY <2>1
  <1>2. CASE buffer' = buffer
    BY <1>1, <1>2
  <1>3. CASE Appended(r)
    <2>1. buffer'[p] = buffer[p] \/ buffer'[p] = <<>>
      BY <1>0, <1>3 DEF Appended
    <2> QED
      BY <1>1, <2>1
  <1>4. CASE Begin(r) \/ FenceActivated(r) \/ Drained(r)
    BY <1>2, <1>4 DEF Begin, FenceActivated, Drained
  <1>5. CASE FenceAnswered(r) \/ Assumed(r)
    BY <1>2, <1>5 DEF FenceAnswered, Assumed
  <1>6. CASE AppendFails(r) \/ CallFails(r)
    BY <1>2, <1>6 DEF AppendFails, CallFails
  <1> QED
    BY <1>3, <1>4, <1>5, <1>6 DEF Settles

\* A calm partition takes no event while a rebalance moves it (publish,
\* pauseProduction, resumeProduction).
THEOREM MovesAreQuiet == BusSpec => MovingIsQuiet
  <1> DEFINE Quiet ==
          \A p \in Calm : Len(buffer'[p]) > Len(buffer[p]) =>
              \A r \in Rebalances : phase[r] \in Running => p \notin Moved(r)
  <1>1. ASSUME BusInv, BusNext PROVE Quiet
    <2>0. BusTypeOK /\ QuietInv
      BY <1>1 DEF BusInv
    <2>1. SUFFICES ASSUME NEW p \in Calm, Len(buffer'[p]) > Len(buffer[p]),
                          NEW r \in Rebalances, phase[r] \in Running, p \in Moved(r)
                   PROVE  FALSE
      OBVIOUS
    <2>2. p \in paused /\ p \in Partitions
      BY <2>0, <2>1 DEF QuietInv, Calm
    <2>3. ASSUME NEW f \in Flows, Publish(f) PROVE FALSE
      <3>1. PartitionFor[f] # p
        BY <2>2, <2>3 DEF Publish
      <3>2. buffer'[p] = buffer[p]
        BY <2>0, <2>2, <2>3, <3>1 DEF Publish, BusTypeOK
      <3>3. buffer[p] \in Seq(Events)
        BY <2>0, <2>2 DEF BusTypeOK
      <3>4. Len(buffer[p]) \in Nat
        BY <3>3
      <3> QED
        BY <2>1, <3>2, <3>4
    <2>4. ASSUME NEW s \in Rebalances, Begin(s) \/ Settles(s) PROVE FALSE
      BY <2>0, <2>1, <2>2, <2>4, OnlyPublishGrows
    <2>5. ASSUME NEW x, NEW y, FenceLands(x, y) PROVE FALSE
      <3>1. buffer' = buffer
        BY <2>5 DEF FenceLands
      <3>2. buffer[p] \in Seq(Events)
        BY <2>0, <2>2 DEF BusTypeOK
      <3>3. Len(buffer[p]) \in Nat
        BY <3>2
      <3> QED
        BY <2>1, <3>1, <3>3
    <2> QED
      BY <1>1, <2>3, <2>4, <2>5 DEF BusNext
  <1>2. BusInv /\ [BusNext]_busVars => [Quiet]_busVars
    BY <1>1
  <1> QED
    BY <1>2, BusInvHolds, PTL DEF BusSpec, MovingIsQuiet

\* A new owner finds every event of a calm partition in its log (rebalance:
\* flushMigrationLog before assumeOwnership).
THEOREM NewOwnersSeeAll == BusSpec => NewOwnerSeesAll
  <1> DEFINE Complete ==
          \A p \in Calm : owner'[p] # owner[p] =>
              \A f \in Flows : PartitionFor[f] = p =>
                  \A k \in 1..assigned[f] : In(<<f, k>>, log[p])
  <1>1. ASSUME BusInv, BusNext PROVE Complete
    <2>1. SUFFICES ASSUME NEW p \in Calm, owner'[p] # owner[p],
                          NEW f \in Flows, PartitionFor[f] = p, NEW k \in 1..assigned[f]
                   PROVE  In(<<f, k>>, log[p])
      OBVIOUS
    <2>2. owner \in [Partitions -> Rebalances \union {None}] /\ p \in Partitions
      BY <1>1 DEF BusInv, BusTypeOK, Calm
    <2>3. \E r \in Rebalances : phase[r] = "assume" /\ Here(r) = p
      <3>1. ASSUME NEW r \in Rebalances, Assumed(r) PROVE phase[r] = "assume" /\ Here(r) = p
        BY <2>1, <2>2, <3>1 DEF Assumed
      <3>2. ASSUME NEW r \in Rebalances, CallFails(r) PROVE phase[r] = "assume" /\ Here(r) = p
        BY <2>1, <2>2, <3>2 DEF CallFails
      <3>3. ASSUME NEW r \in Rebalances, Begin(r) \/ FenceActivated(r) \/ Drained(r) PROVE FALSE
        BY <2>1, <3>3 DEF Begin, FenceActivated, Drained
      <3>4. ASSUME NEW r \in Rebalances, Appended(r) \/ FenceAnswered(r) \/ AppendFails(r)
            PROVE  FALSE
        BY <2>1, <3>4 DEF Appended, FenceAnswered, AppendFails
      <3>5. ASSUME NEW g, Publish(g) PROVE FALSE
        BY <2>1, <3>5 DEF Publish
      <3>6. ASSUME NEW x, NEW y, FenceLands(x, y) PROVE FALSE
        BY <2>1, <3>6 DEF FenceLands
      <3> QED
        BY <1>1, <3>1, <3>2, <3>3, <3>4, <3>5, <3>6 DEF BusNext, Settles
    <2>4. buffer[p] = <<>>
      BY <1>1, <2>3 DEF BusInv, FlushInv, FlushOf
    <2>5. \A e : ~In(e, <<>>)
      BY DEF In
    <2> QED
      BY <1>1, <2>1, <2>4, <2>5 DEF BusInv, EventsAreKept
  <1>2. BusInv /\ [BusNext]_busVars => [Complete]_busVars
    BY <1>1
  <1> QED
    BY <1>2, BusInvHolds, PTL DEF BusSpec, NewOwnerSeesAll

-----------------------------------------------------------------------------
(* The consumer's side: FlowSequencer *)

HIDE BusAssumption

\* Only the event at the head of a handle() call's ready list has begun.
HeadStarted ==
    \A h \in Handlers, f \in Seqnos :
        f \in todo[h] => IF f = Min(todo[h]) THEN starts[f] > 0 ELSE starts[f] = 0

\* The expected number parts what waits from what was handed out, and no two
\* calls hold the same event.
ExpectedParts ==
    /\ \A f \in reorderBuffer : f > expected
    /\ \A f \in Seqnos : starts[f] > 0 => f < expected
    /\ \A h \in Handlers, f \in Seqnos : f \in todo[h] => f < expected
    /\ \A h, k \in Handlers : h # k => todo[h] \intersect todo[k] = {}

\* Nothing below the expected number is forgotten, and one call at a time works.
OneAfterTheOther ==
    /\ \A f \in Seqnos :
          f < expected => \/ starts[f] > 0 \/ f \in lost
                          \/ \E h \in Handlers : f \in todo[h]
    /\ \A h, k \in Handlers : todo[h] # {} /\ todo[k] # {} => h = k

SequencerInv ==
    /\ SequencerTypeOK
    /\ ~overflowed => HeadStarted /\ ExpectedParts /\ HandedOnce
    /\ ~overflowed /\ ~overlapped => OneAfterTheOther
    /\ StartsInOrder

\* A set of naturals has its Min, a bounded one its Max (FiniteSetsExt).
LEMMA MinOfNats ==
    ASSUME NEW S \in SUBSET Nat, S # {}
    PROVE  Min(S) \in S /\ \A y \in S : Min(S) <= y
<1>1. PICK x \in S : \A y \in S : ~ (<<y, x>> \in OpToRel(<, Nat))
  BY NatLessThanWellFounded, WFMin, Zenon
<1>2. \A y \in S : ~ (y < x)
  BY <1>1, Zenon DEF OpToRel
<1>3. \A y \in S : x <= y
  BY <1>2
<1> QED BY <1>3 DEF Min

LEMMA MaxOfBounded ==
    ASSUME NEW n \in Nat, NEW S \in SUBSET (0..n), S # {}
    PROVE  Max(S) \in S /\ \A y \in S : y <= Max(S)
<1> DEFINE T == {k \in 0..n : n - k \in S}
<1>1. T \in SUBSET Nat /\ T # {}
  <2>1. PICK x \in S : TRUE
    OBVIOUS
  <2>2. n - x \in 0..n /\ n - (n - x) = x
    BY <2>1
  <2>3. n - x \in T
    BY <2>2
  <2>4. T \subseteq Nat
    OBVIOUS
  <2> HIDE DEF T
  <2> QED BY <2>3, <2>4
<1>2. Min(T) \in T /\ \A y \in T : Min(T) <= y
  BY <1>1, MinOfNats
<1> DEFINE m == Min(T)
<1>3. m \in 0..n /\ n - m \in S
  BY <1>2
<1>4. \A y \in S : n - y \in T
  OBVIOUS
<1>5. \A y \in S : y <= n - m
  <2> HIDE DEF T
  <2> QED BY <1>2, <1>3, <1>4
<1> QED BY <1>3, <1>5 DEF Max

\* What accept() takes from the buffer is a run of numbers from e on, and whatever
\* it leaves lies beyond a gap.
LEMMA ReadyRun ==
    ASSUME NEW e \in Seqnos, reorderBuffer \subseteq Seqnos
    PROVE  /\ Ready(e) \subseteq e..MaxSeqno /\ e \in Ready(e)
           /\ Ready(e) \subseteq reorderBuffer \union {e}
           /\ Max(Ready(e)) \in Ready(e)
           /\ Ready(e) = e..Max(Ready(e))
           /\ \A b \in reorderBuffer : b > e => b \in Ready(e) \/ b > Max(Ready(e)) + 1
<1> DEFINE m == Max(Ready(e))
<1>1. MaxSeqno \in Nat /\ e \in Nat /\ e \in 1..MaxSeqno
  BY SequencerAssumption DEF Seqnos
<1>2. Ready(e) \subseteq e..MaxSeqno /\ e \in Ready(e)
  BY <1>1 DEF Ready
<1>3. Ready(e) \subseteq reorderBuffer \union {e}
  <2> SUFFICES ASSUME NEW f \in Ready(e), f # e PROVE f \in reorderBuffer
    OBVIOUS
  <2>1. f \in (e + 1)..f /\ (e + 1)..f \subseteq reorderBuffer
    BY <1>1 DEF Ready
  <2> QED BY <2>1
<1>4. Ready(e) \in SUBSET (0..MaxSeqno) /\ Ready(e) # {}
  BY <1>1, <1>2
<1>5. m \in Ready(e) /\ \A f \in Ready(e) : f <= m
  BY <1>1, <1>4, MaxOfBounded
<1>6. m \in e..MaxSeqno /\ (e + 1)..m \subseteq reorderBuffer
  BY <1>5 DEF Ready
<1> HIDE DEF m
<1>7. Ready(e) = e..m
  <2>1. ASSUME NEW f \in e..m PROVE f \in Ready(e)
    <3>1. f \in e..MaxSeqno /\ (e + 1)..f \subseteq (e + 1)..m
      BY <1>1, <1>6
    <3> QED BY <1>6, <3>1 DEF Ready
  <2>2. ASSUME NEW f \in Ready(e) PROVE f \in e..m
    BY <1>1, <1>2, <1>5, <1>6
  <2> QED BY <2>1, <2>2
<1>8. ASSUME NEW b \in reorderBuffer, b > e, b <= m + 1 PROVE b \in Ready(e)
  <2>1. b \in e..MaxSeqno
    BY <1>1, <1>8 DEF Seqnos
  <2>2. ASSUME NEW f \in (e + 1)..b PROVE f \in reorderBuffer
    <3>1. f = b \/ f \in (e + 1)..m
      BY <1>1, <1>6, <1>8, <2>1
    <3> QED BY <1>6, <3>1
  <2> QED BY <2>1, <2>2 DEF Ready
<1>9. \A b \in reorderBuffer : b > e => b \in Ready(e) \/ b > m + 1
  <2> SUFFICES ASSUME NEW b \in reorderBuffer, b > e, b \notin Ready(e) PROVE b > m + 1
    OBVIOUS
  <2>1. b \in Int /\ m \in Int
    BY <1>1, <1>6 DEF Seqnos
  <2> QED BY <1>8, <2>1
<1> QED BY <1>2, <1>3, <1>5, <1>7, <1>9 DEF m

\* A count that is raised becomes positive, and 1 if it was 0.
LEMMA StartedCounts ==
    ASSUME SequencerTypeOK, NEW e \in Seqnos
    PROVE  /\ Started(e) \in [Seqnos -> 0..2]
           /\ Started(e)[e] > 0
           /\ starts[e] = 0 => Started(e)[e] = 1
           /\ \A f \in Seqnos : f # e => Started(e)[f] = starts[f]
<1>1. starts[e] \in 0..2
  BY DEF SequencerTypeOK
<1> DEFINE pair == {starts[e] + 1, 2}
<1>2. pair \in SUBSET Nat /\ pair # {}
  BY <1>1
<1>3. Min(pair) \in pair /\ \A y \in pair : Min(pair) <= y
  BY <1>2, MinOfNats
<1>4. Min(pair) \in 1..2 /\ (starts[e] = 0 => Min(pair) = 1)
  BY <1>1, <1>3
<1>5. Started(e) = [starts EXCEPT ![e] = Min(pair)]
  BY DEF Started
<1> HIDE DEF pair
<1> QED BY <1>4, <1>5 DEF SequencerTypeOK

\* The head of a ready list.
LEMMA HeadOfTodo ==
    ASSUME SequencerTypeOK, NEW h \in Handlers, todo[h] # {}
    PROVE  /\ Min(todo[h]) \in todo[h] /\ Min(todo[h]) \in Seqnos
           /\ \A f \in todo[h] : Min(todo[h]) <= f
<1>1. todo[h] \in SUBSET Seqnos
  BY DEF SequencerTypeOK
<1>2. todo[h] \in SUBSET Nat
  BY <1>1, SequencerAssumption DEF Seqnos
<1> QED BY <1>1, <1>2, MinOfNats

\* handle() of the expected event: everything it takes lies at or above the
\* expected number, where nothing has begun and no other call holds anything.
LEMMA HandleExpectedStep ==
    ASSUME SequencerInv, NEW h \in Handlers, NEW e \in Seqnos, HandleExpected(h, e)
    PROVE  SequencerInv'
<1> DEFINE m == Max(Ready(e))
<1>1. /\ SequencerTypeOK /\ MaxSeqno \in Nat /\ e \in 1..MaxSeqno
      /\ e = expected /\ todo[h] = {}
  BY SequencerAssumption DEF SequencerInv, HandleExpected, IsExpected, Seqnos
<1>2. /\ Ready(e) = e..m /\ m \in e..MaxSeqno
      /\ \A b \in reorderBuffer : b > e => b \in Ready(e) \/ b > m + 1
  BY <1>1, ReadyRun DEF SequencerTypeOK
<1> HIDE DEF m
<1>3. /\ todo' = [todo EXCEPT ![h] = e..m]
      /\ reorderBuffer' = reorderBuffer \ ((e..m) \ {e})
      /\ expected' = m + 1
      /\ starts' = Started(e)
  BY <1>2 DEF HandleExpected, m
<1>4. UNCHANGED <<assignedSeqno, lost, overflowed>> /\ delivered' = delivered \union {e}
  BY DEF HandleExpected
<1>5. SequencerTypeOK'
  <2>1. overlapped' \in BOOLEAN
    BY <1>1 DEF HandleExpected, SequencerTypeOK
  <2>2. todo' \in [Handlers -> SUBSET Seqnos] /\ expected' \in 1..(MaxSeqno + 1)
    BY <1>1, <1>2, <1>3 DEF SequencerTypeOK, Seqnos
  <2> QED
    BY <1>1, <1>3, <1>4, <2>1, <2>2, StartedCounts DEF SequencerTypeOK
<1>6. Min(e..m) = e
  <2>0. MaxSeqno \in Nat /\ e \in 1..MaxSeqno /\ m \in e..MaxSeqno
    BY <1>1, <1>2, SequencerAssumption DEF Seqnos
  <2>1. e..m \in SUBSET Nat /\ e..m # {} /\ e \in e..m /\ m \in Int /\ e \in Nat
    BY <2>0
  <2>2. Min(e..m) \in e..m /\ Min(e..m) <= e
    BY <2>1, MinOfNats
  <2> QED BY <2>1, <2>2
<1>7. /\ \A k \in Handlers : k # h => todo'[k] = todo[k]
      /\ todo'[h] = e..m
  BY <1>1, <1>3 DEF SequencerTypeOK
<1>8. ASSUME ~overflowed
      PROVE  HeadStarted' /\ ExpectedParts' /\ HandedOnce'
  <2>1. HeadStarted /\ ExpectedParts /\ HandedOnce
    BY <1>8 DEF SequencerInv
  <2>2. \A f \in Seqnos : f >= e => starts[f] = 0
    <3>1. \A f \in Seqnos : starts[f] \in 0..2 /\ f \in Int
      BY <1>1 DEF SequencerTypeOK, Seqnos
    <3> QED BY <1>1, <2>1, <3>1 DEF ExpectedParts
  <2>3. \A k \in Handlers : \A f \in todo[k] : f < e /\ f \in Seqnos
    BY <1>1, <2>1 DEF ExpectedParts, SequencerTypeOK
  <2>4. \A f \in Seqnos : f # e => starts'[f] = starts[f]
    BY <1>1, <1>3, StartedCounts
  <2>5. starts'[e] = 1
    BY <1>1, <1>3, <2>2, StartedCounts
  <2>6. HeadStarted'
    <3> SUFFICES ASSUME NEW k \in Handlers, NEW f \in Seqnos, f \in todo'[k]
                 PROVE  IF f = Min(todo'[k]) THEN starts'[f] > 0 ELSE starts'[f] = 0
      BY DEF HeadStarted
    <3>1. CASE k = h
      BY <1>1, <1>2, <1>6, <1>7, <2>2, <2>4, <2>5, <3>1 DEF Seqnos
    <3>2. CASE k # h
      <4>1. todo'[k] = todo[k] /\ f \in todo[k] /\ f < e
        BY <1>7, <2>3, <3>2
      <4>2. starts'[f] = starts[f]
        BY <1>1, <2>4, <4>1
      <4> QED BY <2>1, <4>1, <4>2 DEF HeadStarted
    <3> QED BY <3>1, <3>2
  <2>7. ExpectedParts'
    <3>1. \A f \in reorderBuffer' : f > expected'
      <4> SUFFICES ASSUME NEW f \in reorderBuffer' PROVE f > m + 1
        BY <1>3
      <4>1. f \in reorderBuffer /\ f > e /\ f \notin e..m
        BY <1>1, <1>3, <2>1 DEF ExpectedParts
      <4> QED BY <1>2, <4>1
    <3>2. \A f \in Seqnos : starts'[f] > 0 => f < expected'
      <4> SUFFICES ASSUME NEW f \in Seqnos, starts'[f] > 0 PROVE f < m + 1
        BY <1>3
      <4>1. f = e \/ f < e
        BY <1>1, <2>1, <2>4 DEF ExpectedParts
      <4> QED BY <1>1, <1>2, <4>1 DEF Seqnos
    <3>3. \A k \in Handlers, f \in Seqnos : f \in todo'[k] => f < expected'
      <4> SUFFICES ASSUME NEW k \in Handlers, NEW f \in Seqnos, f \in todo'[k] PROVE f < m + 1
        BY <1>3
      <4>1. f \in e..m \/ f < e
        BY <1>7, <2>3
      <4> QED BY <1>1, <1>2, <4>1 DEF Seqnos
    <3>4. \A k, l \in Handlers : k # l => todo'[k] \intersect todo'[l] = {}
      <4>1. \A k \in Handlers : todo[k] \intersect (e..m) = {}
        BY <1>1, <1>2, <2>3
      <4> QED BY <1>7, <2>1, <4>1 DEF ExpectedParts
    <3> QED BY <3>1, <3>2, <3>3, <3>4 DEF ExpectedParts
  <2>8. HandedOnce'
    BY <1>8, <2>1, <2>4, <2>5 DEF HandedOnce
  <2> QED BY <2>6, <2>7, <2>8
<1>9. ASSUME ~overflowed, ~overlapped'
      PROVE  OneAfterTheOther' /\ StartsInOrder'
  <2>1. ~overlapped /\ \A k \in Handlers : todo[k] = {}
    BY <1>9 DEF HandleExpected
  <2>2. OneAfterTheOther /\ StartsInOrder
    BY <1>9, <2>1 DEF SequencerInv
  <2>3. \A f \in Seqnos : f < e => starts[f] > 0 \/ f \in lost
    BY <1>1, <2>1, <2>2 DEF OneAfterTheOther
  <2>4. \A f \in Seqnos : f # e => starts'[f] = starts[f]
    BY <1>1, <1>3, StartedCounts
  <2>5. starts'[e] > 0
    BY <1>1, <1>3, StartedCounts
  <2>6. OneAfterTheOther'
    <3>1. ASSUME NEW f \in Seqnos, f < expected'
          PROVE  starts'[f] > 0 \/ f \in lost' \/ \E k \in Handlers : f \in todo'[k]
      <4>1. f < e \/ f \in e..m
        BY <1>1, <1>2, <1>3, <3>1 DEF Seqnos
      <4>2. CASE f < e
        <5>1. f # e
          BY <1>1, <4>2
        <5>2. starts'[f] = starts[f] /\ lost' = lost
          BY <1>4, <2>4, <5>1
        <5> QED BY <2>3, <4>2, <5>2
      <4>3. CASE f \in e..m
        BY <1>7, <4>3
      <4> QED BY <4>1, <4>2, <4>3
    <3>2. \A k, l \in Handlers : todo'[k] # {} /\ todo'[l] # {} => k = l
      BY <1>7, <2>1
    <3> QED BY <3>1, <3>2 DEF OneAfterTheOther
  <2>7. ASSUME NEW f \in Seqnos, starts'[f] > 0, NEW g \in 1..(f - 1)
        PROVE  starts'[g] > 0 \/ g \in lost'
    <3>1. g \in Seqnos /\ g < f
      BY <1>1 DEF Seqnos
    <3>2. CASE f = e
      BY <1>1, <1>4, <2>3, <2>4, <3>1, <3>2
    <3>3. CASE f # e
      <4>1. starts[f] > 0
        BY <2>4, <2>7, <3>3
      <4>2. starts[g] > 0 \/ g \in lost
        BY <1>9, <2>1, <2>2, <4>1 DEF StartsInOrder
      <4> QED BY <1>4, <2>4, <2>5, <3>1, <4>2
    <3> QED BY <3>2, <3>3
  <2> QED BY <2>6, <2>7 DEF StartsInOrder
<1> QED BY <1>4, <1>5, <1>8, <1>9 DEF SequencerInv, StartsInOrder

\* The next ready event begins when the one before it is done.
LEMMA ProcessedStep ==
    ASSUME SequencerInv, NEW h \in Handlers, Processed(h)
    PROVE  SequencerInv'
<1> DEFINE head == Min(todo[h])
           rest == todo[h] \ {head}
           next == Min(rest)
<1>1. SequencerTypeOK /\ todo[h] # {} /\ todo[h] \subseteq Seqnos
  BY DEF SequencerInv, Processed, SequencerTypeOK
<1>2. head \in todo[h] /\ head \in Seqnos /\ \A f \in todo[h] : head <= f
  BY <1>1, HeadOfTodo
<1>3. /\ todo' = [todo EXCEPT ![h] = rest]
      /\ UNCHANGED <<assignedSeqno, expected, reorderBuffer, delivered, lost, overlapped, overflowed>>
      /\ starts' = IF rest = {} THEN starts ELSE Started(next)
  BY DEF Processed, NextReady
<1>4. rest # {} => next \in rest /\ next \in Seqnos /\ \A f \in rest : next <= f
  <2>1. rest \in SUBSET Nat
    BY <1>1, SequencerAssumption DEF Seqnos
  <2> QED BY <1>1, <2>1, MinOfNats
<1>5. /\ \A f \in rest : f \in todo[h] /\ f \in Seqnos /\ f # head
      /\ \A f \in todo[h] : f = head \/ f \in rest
  BY <1>1
<1> HIDE DEF head, rest, next
<1>6. /\ todo'[h] = rest
      /\ \A k \in Handlers : k # h => todo'[k] = todo[k]
      /\ \A k \in Handlers : todo'[k] \subseteq todo[k]
  BY <1>1, <1>3, <1>5 DEF SequencerTypeOK
<1>7. SequencerTypeOK'
  <2>1. starts' \in [Seqnos -> 0..2]
    BY <1>1, <1>3, <1>4, StartedCounts DEF SequencerTypeOK
  <2>2. todo' \in [Handlers -> SUBSET Seqnos]
    BY <1>1, <1>3, <1>5 DEF SequencerTypeOK
  <2> QED BY <1>1, <1>3, <2>1, <2>2 DEF SequencerTypeOK
<1>8. /\ rest # {} => starts'[next] > 0
      /\ \A f \in Seqnos : (rest = {} \/ f # next) => starts'[f] = starts[f]
  BY <1>1, <1>3, <1>4, StartedCounts
<1>9. \A f \in Seqnos : starts[f] > 0 => starts'[f] > 0
  BY <1>8
<1>10. ASSUME ~overflowed
       PROVE  HeadStarted' /\ ExpectedParts' /\ HandedOnce'
  <2>1. HeadStarted /\ ExpectedParts /\ HandedOnce
    BY <1>10 DEF SequencerInv
  <2>2. \A f \in rest : starts[f] = 0
    BY <1>5, <2>1 DEF HeadStarted, head
  <2>3. HeadStarted'
    <3> SUFFICES ASSUME NEW k \in Handlers, NEW f \in Seqnos, f \in todo'[k]
                 PROVE  IF f = Min(todo'[k]) THEN starts'[f] > 0 ELSE starts'[f] = 0
      BY DEF HeadStarted
    <3>1. CASE k = h
      <4>1. f \in rest /\ Min(todo'[k]) = next
        BY <1>6, <3>1 DEF next
      <4> QED BY <1>8, <2>2, <4>1
    <3>2. CASE k # h
      <4>1. todo'[k] = todo[k] /\ f \in todo[k]
        BY <1>6, <3>2
      <4>2. rest # {} => f # next
        BY <1>4, <1>5, <2>1, <3>2, <4>1 DEF ExpectedParts
      <4>3. starts'[f] = starts[f]
        BY <1>8, <4>2
      <4> QED BY <2>1, <4>1, <4>3 DEF HeadStarted
    <3> QED BY <3>1, <3>2
  <2>4. ExpectedParts'
    <3>1. \A f \in Seqnos : starts'[f] > 0 => f < expected'
      BY <1>3, <1>4, <1>5, <1>8, <2>1 DEF ExpectedParts
    <3>2. \A k \in Handlers, f \in Seqnos : f \in todo'[k] => f < expected'
      BY <1>3, <1>6, <2>1 DEF ExpectedParts
    <3>3. \A k, l \in Handlers : k # l => todo'[k] \intersect todo'[l] = {}
      BY <1>6, <2>1 DEF ExpectedParts
    <3>4. \A f \in reorderBuffer' : f > expected'
      BY <1>3, <2>1 DEF ExpectedParts
    <3> QED BY <3>1, <3>2, <3>3, <3>4 DEF ExpectedParts
  <2>5. rest # {} => starts'[next] = 1
    BY <1>1, <1>3, <1>4, <2>2, StartedCounts
  <2>6. HandedOnce'
    BY <1>8, <1>10, <2>1, <2>5 DEF HandedOnce
  <2> QED BY <2>3, <2>4, <2>6
<1>11. ASSUME ~overflowed, ~overlapped
       PROVE  OneAfterTheOther' /\ StartsInOrder'
  <2>1. OneAfterTheOther /\ StartsInOrder /\ HeadStarted /\ ExpectedParts
    BY <1>11 DEF SequencerInv
  <2>2. starts[head] > 0
    BY <1>2, <2>1 DEF HeadStarted, head
  <2>3. \A k \in Handlers : k # h => todo[k] = {}
    BY <1>1, <2>1 DEF OneAfterTheOther
  <2>4. ASSUME NEW f \in Seqnos, f < expected
        PROVE  starts[f] > 0 \/ f \in lost \/ f \in rest
    BY <1>5, <2>1, <2>2, <2>3, <2>4 DEF OneAfterTheOther
  <2>5. OneAfterTheOther'
    <3>1. ASSUME NEW f \in Seqnos, f < expected'
          PROVE  starts'[f] > 0 \/ f \in lost' \/ \E k \in Handlers : f \in todo'[k]
      BY <1>3, <1>6, <1>9, <2>4, <3>1
    <3>2. \A k, l \in Handlers : todo'[k] # {} /\ todo'[l] # {} => k = l
      BY <1>6, <2>1 DEF OneAfterTheOther
    <3> QED BY <3>1, <3>2 DEF OneAfterTheOther
  <2>6. ASSUME NEW f \in Seqnos, starts'[f] > 0, NEW g \in 1..(f - 1)
        PROVE  starts'[g] > 0 \/ g \in lost'
    <3>1. g \in Seqnos /\ g < f
      BY SequencerAssumption DEF Seqnos
    <3>2. CASE rest # {} /\ f = next
      <4>1. f < expected
        BY <1>4, <1>5, <2>1, <3>2 DEF ExpectedParts
      <4>2. g < expected
        BY <1>1, <3>1, <4>1 DEF Seqnos, SequencerTypeOK
      <4>3. g \notin rest
        BY <1>4, <3>1, <3>2 DEF Seqnos
      <4> QED BY <1>3, <1>9, <2>4, <3>1, <4>2, <4>3
    <3>3. CASE rest = {} \/ f # next
      <4>1. starts[f] > 0
        BY <1>8, <2>6, <3>3
      <4>2. starts[g] > 0 \/ g \in lost
        BY <1>11, <2>1, <4>1 DEF StartsInOrder
      <4> QED BY <1>3, <1>9, <3>1, <4>2
    <3> QED BY <3>2, <3>3
  <2> QED BY <2>5, <2>6 DEF StartsInOrder
<1> QED BY <1>3, <1>7, <1>10, <1>11 DEF SequencerInv, StartsInOrder

\* A rejected call gives up what it had not begun.
LEMMA RejectedStep ==
    ASSUME SequencerInv, NEW h \in Handlers, Rejected(h)
    PROVE  SequencerInv'
<1> DEFINE head == Min(todo[h])
<1>1. SequencerTypeOK /\ todo[h] # {} /\ todo[h] \subseteq Seqnos
  BY DEF SequencerInv, Rejected, SequencerTypeOK
<1>2. head \in todo[h]
  BY <1>1, HeadOfTodo
<1>3. /\ todo' = [todo EXCEPT ![h] = {}]
      /\ lost' = lost \union (todo[h] \ {head})
      /\ UNCHANGED <<assignedSeqno, expected, reorderBuffer, delivered, starts, overlapped, overflowed>>
  BY DEF Rejected
<1> HIDE DEF head
<1>4. /\ todo'[h] = {}
      /\ \A k \in Handlers : k # h => todo'[k] = todo[k]
      /\ \A k \in Handlers : todo'[k] \subseteq todo[k]
  BY <1>1, <1>3 DEF SequencerTypeOK
<1>5. SequencerTypeOK'
  BY <1>1, <1>3 DEF SequencerTypeOK
<1>6. ASSUME ~overflowed
      PROVE  HeadStarted' /\ ExpectedParts' /\ HandedOnce'
  <2>1. HeadStarted /\ ExpectedParts /\ HandedOnce
    BY <1>6 DEF SequencerInv
  <2>2. HeadStarted'
    BY <1>3, <1>4, <2>1 DEF HeadStarted
  <2>3. ExpectedParts' /\ HandedOnce'
    BY <1>3, <1>4, <2>1 DEF ExpectedParts, HandedOnce
  <2> QED BY <2>2, <2>3
<1>7. ASSUME ~overflowed, ~overlapped
      PROVE  OneAfterTheOther'
  <2>1. OneAfterTheOther /\ HeadStarted
    BY <1>7 DEF SequencerInv
  <2>2. starts[head] > 0
    BY <1>1, <1>2, <2>1 DEF HeadStarted, head
  <2>3. ASSUME NEW f \in Seqnos, f < expected'
        PROVE  starts'[f] > 0 \/ f \in lost' \/ \E k \in Handlers : f \in todo'[k]
    <3>1. starts[f] > 0 \/ f \in lost \/ \E k \in Handlers : f \in todo[k]
      BY <1>3, <2>1, <2>3 DEF OneAfterTheOther
    <3> QED BY <1>3, <1>4, <2>2, <3>1
  <2>4. \A k, l \in Handlers : todo'[k] # {} /\ todo'[l] # {} => k = l
    BY <1>4, <2>1 DEF OneAfterTheOther
  <2> QED BY <2>3, <2>4 DEF OneAfterTheOther
<1>8. StartsInOrder'
  BY <1>3 DEF SequencerInv, StartsInOrder
<1> QED BY <1>3, <1>5, <1>6, <1>7, <1>8 DEF SequencerInv

\* An event that is ahead waits in the buffer, or overflows it.
LEMMA HandleAheadStep ==
    ASSUME SequencerInv, NEW e \in Seqnos, HandleAhead(e)
    PROVE  SequencerInv'
<1> DEFINE held == reorderBuffer \union {e}
<1>1. /\ SequencerTypeOK /\ e > expected
      /\ UNCHANGED <<assignedSeqno, todo, starts, lost, overlapped>>
      /\ delivered' = delivered \union {e}
  BY DEF SequencerInv, HandleAhead
<1>2. CASE Cardinality(held) <= Limit
  <2>1. reorderBuffer' = held /\ UNCHANGED <<expected, overflowed>>
    <3>1. IsFiniteSet(Seqnos) /\ held \in SUBSET Seqnos
      BY <1>1, SequencerAssumption, FS_Interval DEF Seqnos, SequencerTypeOK
    <3>2. Cardinality(held) \in Nat
      BY <3>1, FS_Subset, FS_CardinalityType
    <3> QED BY <1>2, <3>2, SequencerAssumption DEF HandleAhead
  <2>2. SequencerTypeOK'
    BY <1>1, <2>1 DEF SequencerTypeOK
  <2>3. ExpectedParts => ExpectedParts'
    BY <1>1, <2>1 DEF ExpectedParts
  <2> QED
    BY <1>1, <2>1, <2>2, <2>3
    DEF SequencerInv, HeadStarted, HandedOnce, OneAfterTheOther, StartsInOrder
<1>3. CASE ~ (Cardinality(held) <= Limit)
  <2>1. /\ reorderBuffer' = held \ {Min(held)}
        /\ expected' = Min(held) + 1
        /\ overflowed' = TRUE
    BY <1>3 DEF HandleAhead
  <2>2. Min(held) \in Seqnos
    <3>1. held \subseteq Seqnos /\ held # {}
      BY <1>1 DEF SequencerTypeOK
    <3>2. held \in SUBSET Nat
      BY <3>1, SequencerAssumption DEF Seqnos
    <3> QED BY <3>1, <3>2, MinOfNats
  <2>3. expected' \in 1..(MaxSeqno + 1)
    BY <2>1, <2>2, SequencerAssumption DEF Seqnos
  <2>4. SequencerTypeOK'
    BY <1>1, <2>1, <2>3 DEF SequencerTypeOK
  <2> QED BY <2>1, <2>4 DEF SequencerInv, StartsInOrder
<1> QED BY <1>2, <1>3

\* Numbering an event and dropping an old one leave the sequencer alone.
LEMMA QuietSequencer ==
    ASSUME SequencerInv,
           Assign \/ (\E e \in Seqnos : HandleOlder(e)) \/ UNCHANGED sequencerVars
    PROVE  SequencerInv'
<1>1. UNCHANGED <<expected, reorderBuffer, todo, starts, lost, overlapped, overflowed>>
  BY DEF Assign, HandleOlder, sequencerVars
<1>2. assignedSeqno' \in 0..MaxSeqno /\ delivered' \subseteq Seqnos
  BY SequencerAssumption DEF Assign, HandleOlder, sequencerVars, SequencerInv, SequencerTypeOK
<1>3. SequencerTypeOK'
  BY <1>1, <1>2 DEF SequencerInv, SequencerTypeOK
<1> QED
  BY <1>1, <1>3
  DEF SequencerInv, HeadStarted, ExpectedParts, HandedOnce, OneAfterTheOther, StartsInOrder

\* The inductive invariant: HandedOnce needs to know that nothing at or above the
\* expected number has begun, and StartsInOrder that nothing below it is forgotten.
LEMMA SequencerInvariance == SequencerSpec => []SequencerInv
<1>1. SequencerInit => SequencerInv
  <2> SUFFICES ASSUME SequencerInit PROVE SequencerInv
    OBVIOUS
  <2>1. SequencerTypeOK
    <3>1. overlapped \in BOOLEAN /\ overflowed \in BOOLEAN
      BY DEF SequencerInit
    <3> QED BY <3>1, SequencerAssumption DEF SequencerInit, SequencerTypeOK
  <2>2. HeadStarted /\ ExpectedParts /\ HandedOnce
    BY DEF SequencerInit, HeadStarted, ExpectedParts, HandedOnce
  <2>3. OneAfterTheOther /\ StartsInOrder
    BY SequencerAssumption DEF SequencerInit, OneAfterTheOther, StartsInOrder, Seqnos
  <2> QED BY <2>1, <2>2, <2>3 DEF SequencerInv
<1>2. SequencerInv /\ [SequencerNext]_sequencerVars => SequencerInv'
  BY HandleExpectedStep, ProcessedStep, RejectedStep, HandleAheadStep, QuietSequencer
  DEF SequencerNext
<1> QED BY <1>1, <1>2, PTL DEF SequencerSpec

\* The sequencer's buffer, ready lists and counters keep their types
\* (MessageSequencer.accept, EventConsumer.handle).
THEOREM SequencerTypes == SequencerSpec => []SequencerTypeOK
BY SequencerInvariance, PTL DEF SequencerInv

\* However deliveries repeat and overtake and calls of handle() overlap, no event
\* is processed twice as long as the buffer never overflowed (accept, handle).
THEOREM EventsHandedOnce == SequencerSpec => []HandedOnce
<1>1. SequencerInv => HandedOnce
  BY DEF SequencerInv, HandedOnce
<1> QED BY <1>1, SequencerInvariance, PTL

\* When calls do not overlap and the buffer never overflowed, an event starts only
\* after every earlier one has started or was given up by a rejected call
\* (accept, handle).
THEOREM EventsStartInOrder == SequencerSpec => []StartsInOrder
BY SequencerInvariance, PTL DEF SequencerInv
=============================================================================
