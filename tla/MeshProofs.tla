------------------------------ MODULE MeshProofs ------------------------------
(***************************************************************************)
(* What TLAPS proves about the two guards of the service mesh.             *)
(*                                                                         *)
(* A member list is the join of the updates its node was handed, for any   *)
(* number of nodes and members, any fan-out and any delivery: late, twice, *)
(* out of order or never.  The argument is that updates about one member   *)
(* are linearly ordered by Beats, that addOrUpdateMember() replaces by     *)
(* what beats, and that a list never forgets a member.                     *)
(*                                                                         *)
(* The circuit breaker, for any number of overlapping calls and any        *)
(* threshold: two probes never overlap, and the breaker opens on nothing   *)
(* less than the threshold of failures in a row.  The window forgets       *)
(* failures that the streak keeps, and both are emptied together: the      *)
(* window never holds more than the streak.                                *)
(***************************************************************************)
EXTENDS MemberGossip, CircuitBreaker, FiniteSetTheorems, TLAPS

(* Member lists: MemberGossip *)

\* At most one update for each member.
Distinct(updates) == \A u, w \in updates : u.about = w.about => u = w

\* The updates of a history that no other of it beats.
Join(updates) == {u \in updates : \A w \in updates : ~Beats(w, u)}

\* Every member of the history is on the list.
Covers(list, updates) == \A u \in updates : \E w \in list : w.about = u.about

\* The inductive invariant: the join alone does not say that a member heard of is
\* listed, nor that a message holds each member once.
GossipInv ==
    /\ GossipTypeOK
    /\ ViewIsJoin
    /\ \A n \in Nodes : Covers(view[n], heard[n])
    /\ \A l \in letters : Distinct(l.members)

-----------------------------------------------------------------------------
(* The order of updates *)

\* What addOrUpdateMember() lets replace a record is what beats it.
LEMMA NewerBeats ==
    ASSUME NEW u \in Update, NEW w \in Update, u.about = w.about
    PROVE  Newer(u, w) <=> Beats(u, w)
BY DEF Update, Newer, Beats, Rank

LEMMA BeatsIrreflexive ==
    ASSUME NEW u \in Update
    PROVE  ~Beats(u, u)
BY DEF Update, Beats, Rank

LEMMA BeatsTransitive ==
    ASSUME NEW u \in Update, NEW v \in Update, NEW w \in Update, Beats(u, v), Beats(v, w)
    PROVE  Beats(u, w)
BY DEF Update, Beats, Rank

LEMMA BeatsTotal ==
    ASSUME NEW u \in Update, NEW w \in Update, u.about = w.about
    PROVE  u = w \/ Beats(u, w) \/ Beats(w, u)
BY DEF Update, Beats, Rank

\* A join has one update for each member.
LEMMA JoinDistinct ==
    ASSUME NEW H \in SUBSET Update
    PROVE  Distinct(Join(H))
BY BeatsTotal DEF Distinct, Join

-----------------------------------------------------------------------------
(* addOrUpdateMember() *)

\* It turns the join of a history into the join of the longer history.
LEMMA AddOrUpdateJoins ==
    ASSUME NEW H \in SUBSET Update, NEW U \in SUBSET Update, Distinct(U),
           Covers(Join(H), H)
    PROVE  /\ AddOrUpdate(Join(H), U) = Join(H \union U)
           /\ Covers(AddOrUpdate(Join(H), U), H \union U)
<1> DEFINE list == Join(H)
           taken == {u \in U : \A w \in list : w.about = u.about => Newer(u, w)}
           new == {w \in list : \A u \in taken : u.about # w.about} \union taken
<1>1. AddOrUpdate(Join(H), U) = new
  BY DEF AddOrUpdate
<1>2. list \subseteq H /\ taken \subseteq U /\ Distinct(list)
  BY JoinDistinct DEF Join
<1>3. \A u \in taken : \A w \in list : w.about = u.about => Beats(u, w)
  BY <1>2, NewerBeats
<1>4. \A u \in U : (\A w \in list : w.about = u.about => Beats(u, w)) => u \in taken
  BY <1>2, NewerBeats
<1>5. \A h \in H : \E w \in list : w.about = h.about /\ (w = h \/ Beats(w, h))
  <2> SUFFICES ASSUME NEW h \in H
               PROVE  \E w \in list : w.about = h.about /\ (w = h \/ Beats(w, h))
    OBVIOUS
  <2>1. PICK w \in list : w.about = h.about
    BY DEF Covers
  <2>2. ~Beats(h, w)
    BY DEF Join
  <2> QED BY <2>1, <2>2, <1>2, BeatsTotal
<1> HIDE DEF list, taken
<1>6. ASSUME NEW x \in new, NEW y \in H \union U, Beats(y, x)
      PROVE  FALSE
  <2>1. y.about = x.about
    BY <1>6 DEF Beats
  <2>2. CASE x \in taken /\ y \in U
    BY <2>1, <2>2, <1>2, <1>6, BeatsIrreflexive DEF Distinct
  <2>3. CASE x \in taken /\ y \in H
    <3>1. PICK w \in list : w.about = y.about /\ (w = y \/ Beats(w, y))
      BY <2>3, <1>5
    <3>2. Beats(x, w)
      BY <3>1, <2>1, <2>3, <1>3
    <3>3. x \in Update /\ y \in Update /\ w \in Update
      BY <1>2, <2>3
    <3>4. Beats(x, y)
      BY <3>1, <3>2, <3>3, BeatsTransitive
    <3> QED BY <3>3, <3>4, <1>6, BeatsTransitive, BeatsIrreflexive
  <2>4. CASE x \notin taken /\ y \in H
    BY <2>4, <1>6 DEF list, Join
  <2>5. CASE x \notin taken /\ y \in U
    <3>1. x \in list /\ \A u \in taken : u.about # x.about
      BY <2>5
    <3>2. \A w \in list : w.about = y.about => Beats(y, w)
      BY <3>1, <2>1, <1>2, <1>6 DEF Distinct
    <3> QED BY <3>1, <3>2, <2>1, <2>5, <1>4
  <2> QED BY <2>2, <2>3, <2>4, <2>5
<1>7. ASSUME NEW x \in H \union U, \A y \in H \union U : ~Beats(y, x)
      PROVE  x \in new
  <2>1. CASE x \in list
    <3>1. \A u \in taken : u.about # x.about
      BY <2>1, <1>2, <1>3, <1>7
    <3> QED BY <2>1, <3>1
  <2>2. CASE x \notin list
    <3>1. x \in U
      BY <2>2, <1>7 DEF list, Join
    <3>2. \A w \in list : w.about = x.about => Beats(x, w)
      BY <2>2, <3>1, <1>2, <1>7, BeatsTotal
    <3> QED BY <3>1, <3>2, <1>4
  <2> QED BY <2>1, <2>2
<1>8. new = Join(H \union U)
  BY <1>2, <1>6, <1>7 DEF Join
<1>9. ASSUME NEW x \in H \union U
      PROVE  \E w \in new : w.about = x.about
  <2>1. ASSUME NEW w \in list
        PROVE  \E v \in new : v.about = w.about
    OBVIOUS
  <2>2. CASE x \in H
    BY <2>1, <2>2, <1>5
  <2>3. CASE x \in U /\ x \in taken
    BY <2>3
  <2>4. CASE x \in U /\ x \notin taken
    BY <2>1, <2>4, <1>4
  <2> QED BY <2>2, <2>3, <2>4
<1> QED BY <1>1, <1>8, <1>9 DEF Covers

-----------------------------------------------------------------------------
(* The steps *)

\* What a list holds says which incarnation a caller passes on: a number.
LEMMA IncarnationIsNat ==
    ASSUME GossipInv, NEW n \in Nodes, NEW m \in Members
    PROVE  Incarnation(n, m) \in Nat
<1> DEFINE mine == {w.incarnation : w \in {v \in view[n] : v.about = m}}
<1>1. view[n] \subseteq Update /\ Distinct(view[n])
  BY JoinDistinct DEF GossipInv, GossipTypeOK, ViewIsJoin, Join
<1>2. mine \subseteq Nat /\ \A i, k \in mine : i = k
  BY <1>1 DEF Update, Distinct
<1>3. \E x \in {0} \union mine : \A y \in {0} \union mine : x >= y
  <2>1. CASE mine = {}
    BY <2>1
  <2>2. ASSUME NEW k \in mine
        PROVE  \A y \in {0} \union mine : k >= y
    BY <1>2
  <2> QED BY <2>1, <2>2
<1> HIDE DEF mine
<1>4. Max({0} \union mine) \in {0} \union mine
  BY <1>3 DEF Max
<1> QED BY <1>2, <1>4 DEF Incarnation, mine

\* A node that is handed updates about different members keeps its list the join of
\* its history (addOrUpdateMember).
LEMMA TakeKeepsLists ==
    ASSUME GossipInv, NEW n \in Nodes, NEW U \in SUBSET Update, Distinct(U), Take(n, U)
    PROVE  /\ view' \in [Nodes -> SUBSET Update]
           /\ heard' \in [Nodes -> SUBSET Update]
           /\ ViewIsJoin'
           /\ \A k \in Nodes : Covers(view'[k], heard'[k])
<1>1. /\ view \in [Nodes -> SUBSET Update] /\ heard \in [Nodes -> SUBSET Update]
      /\ \A k \in Nodes : view[k] = Join(heard[k]) /\ Covers(view[k], heard[k])
  BY DEF GossipInv, GossipTypeOK, ViewIsJoin, Join
<1>2. /\ view' = [view EXCEPT ![n] = AddOrUpdate(view[n], U)]
      /\ heard' = [heard EXCEPT ![n] = heard[n] \union U]
  BY DEF Take
<1>3. /\ AddOrUpdate(view[n], U) = Join(heard[n] \union U)
      /\ Covers(AddOrUpdate(view[n], U), heard[n] \union U)
  BY <1>1, AddOrUpdateJoins
<1>4. heard' \in [Nodes -> SUBSET Update]
  BY <1>1, <1>2
<1>5. Join(heard[n] \union U) \in SUBSET Update
  BY <1>1 DEF Join
<1>6. view' \in [Nodes -> SUBSET Update]
  BY <1>1, <1>2, <1>3, <1>5
<1>7. ASSUME NEW k \in Nodes
      PROVE  view'[k] = Join(heard'[k]) /\ Covers(view'[k], heard'[k])
  <2>1. CASE k = n
    BY <2>1, <1>1, <1>2, <1>3
  <2>2. CASE k # n
    BY <2>2, <1>1, <1>2
  <2> QED BY <2>1, <2>2
<1> QED BY <1>4, <1>6, <1>7 DEF ViewIsJoin, Join

\* A change of state or a suspicion: one update, listed and told (propagateStateChange).
LEMMA SpreadKeepsInv ==
    ASSUME GossipInv, NEW n \in Nodes, NEW u \in Update, Spread(n, u)
    PROVE  GossipInv'
<1>1. Distinct({u})
  BY DEF Distinct
<1>2. Take(n, {u}) /\ changes' = changes + 1 /\ UNCHANGED digests
  BY DEF Spread
<1>3. /\ view' \in [Nodes -> SUBSET Update] /\ heard' \in [Nodes -> SUBSET Update]
      /\ ViewIsJoin' /\ \A k \in Nodes : Covers(view'[k], heard'[k])
  BY <1>1, <1>2, TakeKeepsLists
<1>4. PICK peers \in Picks(Pool(view'[n], n)) :
          letters' = letters \union [to : peers \intersect Nodes, members : {{u}}]
  BY DEF Spread
<1>5. /\ letters' \subseteq [to : Nodes, members : SUBSET Update]
      /\ \A l \in letters' : Distinct(l.members)
  <2>1. ASSUME NEW l \in [to : peers \intersect Nodes, members : {{u}}]
        PROVE  l \in [to : Nodes, members : SUBSET Update] /\ Distinct(l.members)
    BY <1>1
  <2> QED BY <1>4, <2>1 DEF GossipInv, GossipTypeOK
<1>6. digests' \subseteq [from : Nodes, to : Nodes, filter : SUBSET Members] /\ changes' \in Nat
  BY <1>2 DEF GossipInv, GossipTypeOK
<1> QED BY <1>3, <1>5, <1>6 DEF GossipInv, GossipTypeOK

LEMMA PropagateKeepsInv ==
    ASSUME GossipInv, NEW n \in Nodes, NEW m \in Members, NEW status \in {"Alive", "Dead"},
           PropagateStateChange(n, m, status)
    PROVE  GossipInv'
<1>1. Incarnation(n, m) + (IF status = "Alive" THEN 1 ELSE 0) \in Nat
  BY IncarnationIsNat
<1> DEFINE u == [about |-> m, status |-> status,
                 incarnation |-> Incarnation(n, m) + IF status = "Alive" THEN 1 ELSE 0]
<1>2. u \in Update
  BY <1>1 DEF Update
<1>3. Spread(n, u)
  BY DEF PropagateStateChange
<1> QED BY <1>2, <1>3, SpreadKeepsInv

LEMMA SuspectKeepsInv ==
    ASSUME GossipInv, NEW n \in Nodes, NEW m \in Members, ReportSuspect(n, m)
    PROVE  GossipInv'
<1> DEFINE u == [about |-> m, status |-> "Suspect", incarnation |-> Incarnation(n, m)]
<1>1. u \in Update
  BY IncarnationIsNat DEF Update
<1>2. Spread(n, u)
  BY DEF ReportSuspect
<1> QED BY <1>1, <1>2, SpreadKeepsInv

\* A digest's answer holds listed updates, each member once (handleMessage).
LEMMA DigestKeepsInv ==
    ASSUME GossipInv, NEW d \in digests, HandleDigestSync(d)
    PROVE  GossipInv'
<1> DEFINE missing == {w \in view[d.to] : w.about \notin d.filter}
<1>1. d.to \in Nodes /\ d.from \in Nodes
  BY DEF GossipInv, GossipTypeOK
<1>2. view[d.to] \subseteq Update /\ Distinct(view[d.to])
  BY <1>1, JoinDistinct DEF GossipInv, GossipTypeOK, ViewIsJoin, Join
<1>3. missing \in SUBSET Update /\ Distinct(missing)
  BY <1>2 DEF Distinct
<1>4. letters' = letters \union {[to |-> d.from, members |-> missing]}
      /\ UNCHANGED <<view, digests, heard, changes>>
  BY DEF HandleDigestSync
<1> HIDE DEF missing
<1>5. [to |-> d.from, members |-> missing] \in [to : Nodes, members : SUBSET Update]
  BY <1>1, <1>3
<1>6. GossipTypeOK'
  BY <1>4, <1>5 DEF GossipInv, GossipTypeOK
<1>7. \A l \in letters' : Distinct(l.members)
  BY <1>3, <1>4 DEF GossipInv
<1>8. ViewIsJoin'
  BY <1>4 DEF GossipInv, ViewIsJoin
<1>9. \A n \in Nodes : Covers(view'[n], heard'[n])
  BY <1>4 DEF GossipInv
<1> QED BY <1>6, <1>7, <1>8, <1>9 DEF GossipInv

\* Nothing but the digests changes (sendDigestSync).
LEMMA SendDigestKeepsInv ==
    ASSUME GossipInv, NEW n \in Nodes, NEW peer \in Nodes, SendDigestSync(n, peer)
    PROVE  GossipInv'
<1>1. PICK filter \in SUBSET Members :
          digests' = digests \union {[from |-> n, to |-> peer, filter |-> filter]}
  BY DEF SendDigestSync
<1>2. UNCHANGED <<view, letters, heard, changes>>
  BY DEF SendDigestSync
<1>3. GossipTypeOK'
  BY <1>1, <1>2 DEF GossipInv, GossipTypeOK
<1> QED BY <1>2, <1>3 DEF GossipInv, ViewIsJoin

LEMMA HandleMembersKeepsInv ==
    ASSUME GossipInv, NEW l \in letters, HandleMembers(l)
    PROVE  GossipInv'
<1>1. l.to \in Nodes /\ l.members \in SUBSET Update /\ Distinct(l.members)
  BY DEF GossipInv, GossipTypeOK
<1>2. Take(l.to, l.members) /\ UNCHANGED <<letters, digests, changes>>
  BY DEF HandleMembers
<1>3. /\ view' \in [Nodes -> SUBSET Update] /\ heard' \in [Nodes -> SUBSET Update]
      /\ ViewIsJoin' /\ \A k \in Nodes : Covers(view'[k], heard'[k])
  BY <1>1, <1>2, TakeKeepsLists
<1> QED BY <1>2, <1>3 DEF GossipInv, GossipTypeOK

\* At the start every node lists the founders and has heard of them.
LEMMA InitEstablishesInv ==
    ASSUME GossipInit
    PROVE  GossipInv
<1> DEFINE founders == {Founder(m) : m \in Nodes}
<1>1. \A u \in founders : u \in Update /\ u.incarnation = 0 /\ u.status = "Alive"
  BY DEF Founder, Update, Members
<1>2. \A u, w \in founders : ~Beats(u, w)
  BY <1>1 DEF Beats, Rank
<1> HIDE DEF founders
<1>3. view = [n \in Nodes |-> founders] /\ heard = view
  BY DEF GossipInit, founders
<1>4. letters = {} /\ digests = {} /\ changes = 0
  BY DEF GossipInit
<1>5. GossipTypeOK
  BY <1>1, <1>3, <1>4 DEF GossipTypeOK
<1>6. ViewIsJoin
  BY <1>2, <1>3 DEF ViewIsJoin
<1>7. \A n \in Nodes : Covers(view[n], heard[n])
  BY <1>3 DEF Covers
<1> QED BY <1>4, <1>5, <1>6, <1>7 DEF GossipInv

LEMMA GossipStep ==
    ASSUME GossipInv, [GossipNext]_gossipVars
    PROVE  GossipInv'
<1>1. CASE \E n \in Nodes, m \in Members : \E status \in {"Alive", "Dead"} :
             PropagateStateChange(n, m, status)
  BY <1>1, PropagateKeepsInv
<1>2. CASE \E n \in Nodes, m \in Members : ReportSuspect(n, m)
  BY <1>2, SuspectKeepsInv
<1>3. CASE \E n, peer \in Nodes : SendDigestSync(n, peer)
  BY <1>3, SendDigestKeepsInv
<1>4. CASE \E d \in digests : HandleDigestSync(d)
  BY <1>4, DigestKeepsInv
<1>5. CASE \E l \in letters : HandleMembers(l)
  BY <1>5, HandleMembersKeepsInv
<1>6. CASE UNCHANGED gossipVars
  BY <1>6 DEF gossipVars, GossipInv, GossipTypeOK, ViewIsJoin
<1> QED BY <1>1, <1>2, <1>3, <1>4, <1>5, <1>6 DEF GossipNext

LEMMA GossipInvariant == GossipSpec => []GossipInv
BY InitEstablishesInv, GossipStep, PTL DEF GossipSpec

-----------------------------------------------------------------------------
(* Agreement *)

\* With room for everybody an update is told to every node, unless a node was called
\* dead: then it is passed over.
RoomForAll == Fanout >= Cardinality(Members) - 1
NobodyDead == \A n \in Nodes : \A u \in heard[n] : u.about \in Nodes => u.status # "Dead"
Told(k, u) == u \in heard[k] \/ \E l \in letters : l.to = k /\ u \in l.members

\* Every node knows the founders, what is in a message some node has heard, and every
\* update reaches each node or is in a message to it.
AgreeInv ==
    /\ \A n, m \in Nodes : Founder(m) \in heard[n]
    /\ \A l \in letters : \A u \in l.members : \E n \in Nodes : u \in heard[n]
    /\ RoomForAll /\ NobodyDead => \A n, k \in Nodes : \A u \in heard[n] : Told(k, u)

\* With room for everybody the only pick is the whole pool.
LEMMA PickIsPool ==
    ASSUME RoomForAll, NEW n \in Nodes, NEW pool \in SUBSET (Members \ {n}),
           NEW peers \in Picks(pool)
    PROVE  peers = pool
<1>1. IsFiniteSet(Members) /\ n \in Members
  BY GossipAssumption, FS_Union DEF Members
<1>2. /\ IsFiniteSet(Members \ {n}) /\ Cardinality(Members) \in Nat
      /\ Cardinality(Members \ {n}) = Cardinality(Members) - 1
  BY <1>1, FS_RemoveElement, FS_CardinalityType
<1>3. /\ IsFiniteSet(pool) /\ Cardinality(pool) \in Nat
      /\ Cardinality(pool) <= Cardinality(Members) - 1
  BY <1>2, FS_Subset, FS_CardinalityType
<1>4. Cardinality(pool) <= Fanout
  BY <1>2, <1>3, GossipAssumption DEF RoomForAll
<1>5. Min({Fanout, Cardinality(pool)}) = Cardinality(pool)
  BY <1>3, <1>4, GossipAssumption DEF Min
<1>6. peers \subseteq pool /\ Cardinality(peers) = Cardinality(pool)
  BY <1>5 DEF Picks
<1> QED BY <1>3, <1>6, FS_Subset

\* Histories and messages only grow, so what was told stays told.
LEMMA ToldStays ==
    ASSUME \A k \in Nodes : heard[k] \subseteq heard'[k], letters \subseteq letters'
    PROVE  \A k \in Nodes : \A u : Told(k, u) => Told(k, u)'
BY DEF Told

\* The update that is spread is told to every other node.
LEMMA SpreadTells ==
    ASSUME GossipInv, AgreeInv, NEW n \in Nodes, NEW u \in Update, Spread(n, u)
    PROVE  AgreeInv'
<1>0. GossipInv'
  BY SpreadKeepsInv
<1>1. heard \in [Nodes -> SUBSET Update] /\ heard' = [heard EXCEPT ![n] = heard[n] \union {u}]
  BY DEF Spread, Take, GossipInv, GossipTypeOK
<1>2. PICK peers \in Picks(Pool(view'[n], n)) :
          letters' = letters \union [to : peers \intersect Nodes, members : {{u}}]
  BY DEF Spread
<1>3. \A k \in Nodes : heard[k] \subseteq heard'[k]
  BY <1>1
<1>4. u \in heard'[n] /\ \A k \in Nodes : \A w \in heard'[k] : w \in heard[k] \/ (k = n /\ w = u)
  BY <1>1
<1>5. \A k, m \in Nodes : Founder(m) \in heard'[k]
  BY <1>3 DEF AgreeInv
<1>6. \A l \in letters' : \A w \in l.members : \E k \in Nodes : w \in heard'[k]
  <2>1. ASSUME NEW l \in [to : peers \intersect Nodes, members : {{u}}], NEW w \in l.members
        PROVE  w = u
    OBVIOUS
  <2> QED BY <1>2, <1>3, <1>4, <2>1 DEF AgreeInv
<1>7. ASSUME RoomForAll, NobodyDead', NEW k \in Nodes
      PROVE  Told(k, u)'
  <2>1. CASE k = n
    BY <2>1, <1>4 DEF Told
  <2>2. CASE k # n
    <3>1. Founder(k) \in heard'[n]
      BY <1>5
    <3>2. PICK w \in view'[n] : w.about = k
      BY <1>0, <3>1 DEF GossipInv, Covers, Founder
    <3>3. w \in heard'[n]
      BY <1>0, <3>2 DEF GossipInv, ViewIsJoin
    <3>4. k \in Pool(view'[n], n)
      BY <2>2, <3>2, <3>3, <1>7 DEF Pool, NobodyDead
    <3>5. Pool(view'[n], n) \in SUBSET (Members \ {n})
      <4>1. view'[n] \subseteq Update
        BY <1>0 DEF GossipInv, GossipTypeOK
      <4> QED BY <4>1 DEF Pool, Update
    <3>6. k \in peers
      BY <3>4, <3>5, <1>7, PickIsPool
    <3>7. [to |-> k, members |-> {u}] \in letters'
      BY <1>2, <3>6
    <3> QED BY <3>7 DEF Told
  <2> QED BY <2>1, <2>2
<1>8. ASSUME RoomForAll, NobodyDead', NEW i \in Nodes, NEW k \in Nodes, NEW w \in heard'[i]
      PROVE  Told(k, w)'
  <2>1. CASE w = u
    BY <2>1, <1>7, <1>8
  <2>2. CASE w # u
    <3>1. NobodyDead
      BY <1>3, <1>8 DEF NobodyDead
    <3>2. Told(k, w)
      BY <2>2, <3>1, <1>4, <1>8 DEF AgreeInv
    <3> QED BY <3>2, <1>2, <1>3, ToldStays
  <2> QED BY <2>1, <2>2
<1> QED BY <1>5, <1>6, <1>8 DEF AgreeInv, RoomForAll

\* A message hands on what some node has heard, and that was told to all.
LEMMA HandleMembersTells ==
    ASSUME GossipInv, AgreeInv, NEW l \in letters, HandleMembers(l)
    PROVE  AgreeInv'
<1>1. /\ heard \in [Nodes -> SUBSET Update] /\ l.to \in Nodes
      /\ heard' = [heard EXCEPT ![l.to] = heard[l.to] \union l.members]
      /\ letters' = letters
  BY DEF HandleMembers, Take, GossipInv, GossipTypeOK
<1>2. \A k \in Nodes : heard[k] \subseteq heard'[k]
  BY <1>1
<1>3. \A i \in Nodes : \A w \in heard'[i] : \E j \in Nodes : w \in heard[j]
  BY <1>1 DEF AgreeInv
<1>4. \A k, m \in Nodes : Founder(m) \in heard'[k]
  BY <1>2 DEF AgreeInv
<1>5. \A m \in letters' : \A w \in m.members : \E k \in Nodes : w \in heard'[k]
  BY <1>1, <1>2 DEF AgreeInv
<1>6. ASSUME RoomForAll, NobodyDead', NEW i \in Nodes, NEW k \in Nodes, NEW w \in heard'[i]
      PROVE  Told(k, w)'
  <2>1. NobodyDead
    BY <1>2, <1>6 DEF NobodyDead
  <2>2. Told(k, w)
    BY <2>1, <1>3, <1>6 DEF AgreeInv
  <2> QED BY <2>2, <1>1, <1>2, ToldStays
<1> QED BY <1>4, <1>5, <1>6 DEF AgreeInv, RoomForAll

\* A digest's answer holds what its sender has heard.
LEMMA DigestTells ==
    ASSUME GossipInv, AgreeInv, NEW d \in digests, HandleDigestSync(d)
    PROVE  AgreeInv'
<1> DEFINE missing == {w \in view[d.to] : w.about \notin d.filter}
<1>1. letters' = letters \union {[to |-> d.from, members |-> missing]} /\ heard' = heard
  BY DEF HandleDigestSync
<1>2. missing \subseteq heard[d.to] /\ d.to \in Nodes
  BY DEF GossipInv, GossipTypeOK, ViewIsJoin
<1> HIDE DEF missing
<1>3. \A l \in letters' : \A w \in l.members : \E k \in Nodes : w \in heard'[k]
  BY <1>1, <1>2 DEF AgreeInv
<1>4. \A k \in Nodes : \A u : Told(k, u) => Told(k, u)'
  BY <1>1, ToldStays
<1>5. NobodyDead' <=> NobodyDead
  BY <1>1 DEF NobodyDead
<1>6. ASSUME RoomForAll, NobodyDead', NEW i \in Nodes, NEW k \in Nodes, NEW w \in heard'[i]
      PROVE  Told(k, w)'
  BY <1>1, <1>4, <1>5, <1>6 DEF AgreeInv
<1> QED BY <1>1, <1>3, <1>6 DEF AgreeInv, RoomForAll

LEMMA AgreeInit ==
    ASSUME GossipInit
    PROVE  AgreeInv
<1>1. \A n \in Nodes : heard[n] = {Founder(m) : m \in Nodes}
  BY DEF GossipInit
<1>2. letters = {}
  BY DEF GossipInit
<1> QED BY <1>1, <1>2 DEF AgreeInv, Told

LEMMA AgreeStep ==
    ASSUME GossipInv, AgreeInv, [GossipNext]_gossipVars
    PROVE  AgreeInv'
<1>1. ASSUME NEW n \in Nodes, NEW m \in Members, NEW status \in {"Alive", "Dead"},
             PropagateStateChange(n, m, status)
      PROVE  AgreeInv'
  <2>1. Incarnation(n, m) + (IF status = "Alive" THEN 1 ELSE 0) \in Nat
    BY IncarnationIsNat
  <2> DEFINE u == [about |-> m, status |-> status,
                   incarnation |-> Incarnation(n, m) + IF status = "Alive" THEN 1 ELSE 0]
  <2>2. u \in Update /\ Spread(n, u)
    BY <1>1, <2>1 DEF Update, PropagateStateChange
  <2> QED BY <2>2, SpreadTells
<1>2. ASSUME NEW n \in Nodes, NEW m \in Members, ReportSuspect(n, m)
      PROVE  AgreeInv'
  <2> DEFINE u == [about |-> m, status |-> "Suspect", incarnation |-> Incarnation(n, m)]
  <2>1. u \in Update /\ Spread(n, u)
    BY <1>2, IncarnationIsNat DEF Update, ReportSuspect
  <2> QED BY <2>1, SpreadTells
<1>3. ASSUME NEW n \in Nodes, NEW peer \in Nodes, SendDigestSync(n, peer)
      PROVE  AgreeInv'
  BY <1>3 DEF SendDigestSync, AgreeInv, NobodyDead, Told, RoomForAll
<1>4. CASE \E d \in digests : HandleDigestSync(d)
  BY <1>4, DigestTells
<1>5. CASE \E l \in letters : HandleMembers(l)
  BY <1>5, HandleMembersTells
<1>6. CASE UNCHANGED gossipVars
  BY <1>6 DEF gossipVars, AgreeInv, NobodyDead, Told, RoomForAll
<1> QED BY <1>1, <1>2, <1>3, <1>4, <1>5, <1>6 DEF GossipNext

LEMMA AgreeInvariant == GossipSpec => []AgreeInv
<1>1. GossipInit => AgreeInv
  BY AgreeInit
<1>2. GossipInv /\ AgreeInv /\ [GossipNext]_gossipVars => AgreeInv'
  BY AgreeStep
<1> QED BY <1>1, <1>2, GossipInvariant, PTL DEF GossipSpec

-----------------------------------------------------------------------------
(* The theorems *)

\* Lists, messages and histories hold updates, for any nodes and members.
THEOREM GossipTypes == GossipSpec => []GossipTypeOK
<1>1. GossipInv => GossipTypeOK
  BY DEF GossipInv
<1> QED BY <1>1, GossipInvariant, PTL

\* A node's list is the join of what it was handed, whatever order, loss or repetition
\* the updates had (addOrUpdateMember, propagateStateChange).
THEOREM ListsAreJoins == GossipSpec => []ViewIsJoin
<1>1. GossipInv => ViewIsJoin
  BY DEF GossipInv
<1> QED BY <1>1, GossipInvariant, PTL

\* With room for everybody, nobody called dead and every message delivered, all lists
\* are equal (disseminateUpdate, getRandomPeers).
THEOREM ListsAgree == GossipSpec => []AgreeWhenDelivered
<1>1. GossipInv /\ AgreeInv => AgreeWhenDelivered
  <2> SUFFICES ASSUME GossipInv, AgreeInv, RoomForAll, NobodyDead,
                      \A l \in letters : l.members \subseteq heard[l.to],
                      NEW n \in Nodes, NEW k \in Nodes
               PROVE  view[n] = view[k]
    BY DEF AgreeWhenDelivered, RoomForAll, NobodyDead
  <2>1. \A i, j \in Nodes : heard[i] \subseteq heard[j]
    BY DEF AgreeInv, Told
  <2>2. heard[n] = heard[k]
    BY <2>1
  <2> QED BY <2>2 DEF GossipInv, ViewIsJoin
<1> QED BY <1>1, GossipInvariant, AgreeInvariant, PTL

-----------------------------------------------------------------------------
(* Circuit breaker: CircuitBreaker *)

\* The upstream is marked for as long as it is probed, and by one call.
Marked ==
    /\ \A c \in Calls : call[c] = "probe" => probing
    /\ OneProbe

WindowInStreak == failures <= streak

BreakerInv == BreakerTypeOK /\ Marked /\ WindowInStreak

-----------------------------------------------------------------------------

\* Counting one more keeps a number within the threshold and two numbers in order.
LEMMA OneMoreFacts ==
    ASSUME NEW m \in 0..Threshold, NEW n \in 0..Threshold, m <= n
    PROVE  /\ OneMore(m) \in 0..Threshold /\ OneMore(n) \in 0..Threshold
           /\ OneMore(m) <= OneMore(n)
           /\ OneMore(m) >= Threshold => OneMore(n) = Threshold
BY BreakerAssumption DEF OneMore

\* A failure counts in the window and in the streak.
LEMMA FailureCounts ==
    ASSUME BreakerTypeOK, WindowInStreak, NEW isTimeout \in BOOLEAN, RecordFailure(isTimeout)
    PROVE  /\ state' \in {"CLOSED", "OPEN", "HALF_OPEN"} /\ rested' \in BOOLEAN
           /\ failures' \in 0..Threshold /\ streak' \in 0..Threshold
           /\ WindowInStreak'
           /\ state = "CLOSED" /\ state' = "OPEN" => streak' = Threshold
<1>1. /\ failures \in 0..Threshold /\ streak \in 0..Threshold /\ failures <= streak
      /\ state \in {"CLOSED", "OPEN", "HALF_OPEN"} /\ rested \in BOOLEAN
  BY DEF BreakerTypeOK, WindowInStreak
<1>2. /\ OneMore(failures) \in 0..Threshold /\ OneMore(streak) \in 0..Threshold
      /\ OneMore(failures) <= OneMore(streak)
      /\ OneMore(failures) >= Threshold => OneMore(streak) = Threshold
  BY <1>1, OneMoreFacts
<1>3. failures' = OneMore(failures) /\ streak' = OneMore(streak)
  BY DEF RecordFailure
<1>4. /\ state' \in {"CLOSED", "OPEN", "HALF_OPEN"} /\ rested' \in BOOLEAN
      /\ state = "CLOSED" /\ state' = "OPEN" => OneMore(failures) >= Threshold
  BY <1>1 DEF RecordFailure
<1> QED BY <1>2, <1>3, <1>4 DEF WindowInStreak

\* A success empties both.
LEMMA SuccessEmpties ==
    ASSUME BreakerTypeOK, RecordSuccess
    PROVE  /\ state' \in {"CLOSED", "OPEN", "HALF_OPEN"} /\ rested' \in BOOLEAN
           /\ failures' \in 0..Threshold /\ streak' \in 0..Threshold
           /\ WindowInStreak'
           /\ ~(state = "CLOSED" /\ state' = "OPEN")
<1>1. failures' = 0 /\ streak' = 0
  BY DEF RecordSuccess
<1>2. /\ state' \in {"CLOSED", "OPEN", "HALF_OPEN"} /\ rested' \in BOOLEAN
      /\ ~(state = "CLOSED" /\ state' = "OPEN")
  BY Zenon DEF BreakerTypeOK, RecordSuccess
<1> QED BY <1>1, <1>2, BreakerAssumption DEF WindowInStreak

\* A call that leaves its step for one that is no probe takes no mark.
LEMMA LeavesProbe ==
    ASSUME BreakerTypeOK, Marked, NEW c \in Calls,
           NEW step \in {"idle", "refused", "request"}, Goto(c, step),
           probing' = probing \/ call[c] = "probe"
    PROVE  /\ call' \in [Calls -> {"idle", "probe", "refused", "request"}]
           /\ Marked'
BY DEF BreakerTypeOK, Marked, OneProbe, Goto

\* Calls that stay where they are keep the mark.
LEMMA StaysMarked ==
    ASSUME Marked, UNCHANGED <<probing, call>>
    PROVE  Marked'
BY DEF Marked, OneProbe

-----------------------------------------------------------------------------

LEMMA BreakerInitInv == BreakerInit => BreakerInv
<1> SUFFICES ASSUME BreakerInit PROVE BreakerInv
  OBVIOUS
<1>1. failures \in 0..Threshold /\ streak \in 0..Threshold /\ WindowInStreak
  BY BreakerAssumption DEF BreakerInit, WindowInStreak
<1>2. /\ state \in {"CLOSED", "OPEN", "HALF_OPEN"}
      /\ rested \in BOOLEAN /\ probing \in BOOLEAN /\ healthy \in BOOLEAN
  BY Zenon DEF BreakerInit
<1>3. call \in [Calls -> {"idle", "probe", "refused", "request"}] /\ Marked
  BY DEF BreakerInit, Marked, OneProbe
<1> QED BY <1>1, <1>2, <1>3 DEF BreakerInv, BreakerTypeOK

LEMMA ExecuteInv ==
    ASSUME BreakerInv, NEW c \in Calls, Execute(c)
    PROVE  BreakerInv' /\ (state = "CLOSED" /\ state' = "OPEN" => streak' = Threshold)
<1>1. /\ Checked \in {"CLOSED", "OPEN", "HALF_OPEN"} /\ state' = Checked
      /\ state = "CLOSED" => Checked = "CLOSED"
  BY DEF BreakerInv, BreakerTypeOK, Checked, Execute
<1>2. UNCHANGED <<failures, streak, rested, healthy>>
  BY DEF Execute, window
<1>3. /\ call' \in [Calls -> {"idle", "probe", "refused", "request"}]
      /\ probing' \in BOOLEAN /\ Marked'
  <2>1. CASE Goto(c, "request") /\ UNCHANGED probing
    BY <2>1, LeavesProbe DEF BreakerInv, BreakerTypeOK
  <2>2. CASE ~probing /\ Goto(c, "probe") /\ probing' = TRUE
    BY <2>2 DEF BreakerInv, BreakerTypeOK, Marked, OneProbe, Goto
  <2>3. CASE Goto(c, "refused") /\ UNCHANGED probing
    BY <2>3, LeavesProbe DEF BreakerInv, BreakerTypeOK
  <2>4. CASE UNCHANGED <<call, probing>>
    BY <2>4, StaysMarked DEF BreakerInv, BreakerTypeOK
  <2> QED BY <2>1, <2>2, <2>3, <2>4 DEF Execute
<1> QED BY <1>1, <1>2, <1>3 DEF BreakerInv, BreakerTypeOK, WindowInStreak

LEMMA CallEndsInv ==
    ASSUME BreakerInv, NEW c \in Calls, ProbeEnds(c) \/ Refused(c) \/ RequestEnds(c)
    PROVE  BreakerInv' /\ (state = "CLOSED" /\ state' = "OPEN" => streak' = Threshold)
<1>t. BreakerTypeOK /\ Marked /\ WindowInStreak
  BY DEF BreakerInv
<1>1. CASE ProbeEnds(c)
  <2>1. /\ call[c] = "probe" /\ probing' = FALSE
        /\ Goto(c, "request") \/ Goto(c, "refused")
        /\ UNCHANGED <<state, failures, streak, rested, healthy>>
    BY <1>1 DEF ProbeEnds, window
  <2>2. /\ call' \in [Calls -> {"idle", "probe", "refused", "request"}]
        /\ \A d \in Calls : call'[d] # "probe"
    BY <1>t, <2>1 DEF BreakerTypeOK, Marked, OneProbe, Goto
  <2> QED BY <1>t, <2>1, <2>2 DEF BreakerInv, BreakerTypeOK, Marked, OneProbe, WindowInStreak
<1>2. CASE Refused(c) \/ RequestEnds(c)
  <2>1. Goto(c, "idle") /\ UNCHANGED <<probing, healthy>>
    BY <1>2 DEF Refused, RequestEnds
  <2>2. RecordSuccess \/ \E isTimeout \in BOOLEAN : RecordFailure(isTimeout)
    BY <1>2 DEF Refused, RequestEnds
  <2>3. call' \in [Calls -> {"idle", "probe", "refused", "request"}] /\ Marked'
    BY <1>t, <2>1, LeavesProbe DEF BreakerTypeOK
  <2>4. /\ state' \in {"CLOSED", "OPEN", "HALF_OPEN"} /\ rested' \in BOOLEAN
        /\ failures' \in 0..Threshold /\ streak' \in 0..Threshold
        /\ WindowInStreak'
        /\ state = "CLOSED" /\ state' = "OPEN" => streak' = Threshold
    BY <1>t, <2>2, SuccessEmpties, FailureCounts
  <2> QED BY <1>t, <2>1, <2>3, <2>4 DEF BreakerInv, BreakerTypeOK
<1> QED BY <1>1, <1>2

LEMMA OthersInv ==
    ASSUME BreakerInv, Reset \/ GetState \/ FailureAges \/ Rest \/ UpstreamTurns
    PROVE  BreakerInv' /\ (state = "CLOSED" /\ state' = "OPEN" => streak' = Threshold)
<1>1. UNCHANGED <<probing, call>> /\ Marked'
  BY StaysMarked DEF BreakerInv, Reset, GetState, FailureAges, Rest, UpstreamTurns
<1>2. BreakerTypeOK' /\ WindowInStreak' /\ ~(state = "CLOSED" /\ state' = "OPEN")
  <2>1. CASE Reset
    <3>1. failures' = 0 /\ streak' = 0 /\ state' = "CLOSED" /\ UNCHANGED call
      BY <2>1 DEF Reset
    <3>2. rested' \in BOOLEAN /\ probing' \in BOOLEAN /\ healthy' \in BOOLEAN
      BY <2>1, Zenon DEF BreakerInv, BreakerTypeOK, Reset
    <3> QED BY <3>1, <3>2, BreakerAssumption DEF BreakerInv, BreakerTypeOK, WindowInStreak
  <2>2. CASE GetState
    BY <2>2 DEF BreakerInv, BreakerTypeOK, WindowInStreak, GetState, Checked, window
  <2>3. CASE FailureAges
    BY <2>3, BreakerAssumption DEF BreakerInv, BreakerTypeOK, WindowInStreak, FailureAges
  <2>4. CASE Rest \/ UpstreamTurns
    BY <2>4 DEF BreakerInv, BreakerTypeOK, WindowInStreak, Rest, UpstreamTurns, window
  <2> QED BY <2>1, <2>2, <2>3, <2>4
<1> QED BY <1>1, <1>2 DEF BreakerInv

\* Every step keeps the invariant and opens a closed breaker on the threshold only.
LEMMA BreakerStep ==
    BreakerInv /\ [BreakerNext]_breakerVars
        => BreakerInv' /\ [state = "CLOSED" /\ state' = "OPEN" => streak' = Threshold]_breakerVars
<1> SUFFICES ASSUME BreakerInv, [BreakerNext]_breakerVars
             PROVE  /\ BreakerInv'
                    /\ [state = "CLOSED" /\ state' = "OPEN" => streak' = Threshold]_breakerVars
  OBVIOUS
<1>1. CASE UNCHANGED breakerVars
  BY <1>1 DEF breakerVars, BreakerInv, BreakerTypeOK, Marked, OneProbe, WindowInStreak
<1>2. CASE BreakerNext
  BY <1>2, ExecuteInv, CallEndsInv, OthersInv DEF BreakerNext
<1> QED BY <1>1, <1>2

LEMMA BreakerAlwaysInv == BreakerSpec => []BreakerInv
BY BreakerInitInv, BreakerStep, PTL DEF BreakerSpec

-----------------------------------------------------------------------------

\* The breaker's fields keep their types and the counts stay within the threshold,
\* however the calls of execute() overlap.
THEOREM BreakerTypes == BreakerSpec => []BreakerTypeOK
BY BreakerAlwaysInv, PTL DEF BreakerInv

\* The check and the marking in activeProbes are not separated by an await: two calls
\* never probe the upstream together.
THEOREM ProbesDoNotOverlap == BreakerSpec => []OneProbe
BY BreakerAlwaysInv, PTL DEF BreakerInv, Marked

\* Whichever requests the failures belong to and whatever succeeds late, a closed
\* breaker opens only when the threshold of failures came without a success.
THEOREM OpeningNeedsFailures == BreakerSpec => OpensOnFailures
BY BreakerAlwaysInv, BreakerStep, PTL DEF BreakerSpec, OpensOnFailures
=============================================================================
