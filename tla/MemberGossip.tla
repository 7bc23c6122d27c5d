------------------------------ MODULE MemberGossip ------------------------------
(***************************************************************************)
(* The membership list (src/src/membership/member-list.ts) and the gossip  *)
(* that spreads it (src/src/membership/gossip-protocol.ts).                *)
(*                                                                         *)
(* The transport keeps no promise: a letter may arrive late, twice, out of *)
(* order or never, so what was once sent stays deliverable and nothing     *)
(* has to be delivered.                                                    *)
(***************************************************************************)
EXTENDS Integers, FiniteSets, FiniteSetsExt

CONSTANTS
    Nodes,          \* the processes that gossip; they know each other from the start
    Clients,        \* members that connect to a node and run no gossip
    Fanout,         \* peers an update is sent to
    MaxChanges,     \* bound: state changes and suspicions
    MaxDigests      \* bound

ASSUME GossipAssumption ==
    /\ IsFiniteSet(Nodes) /\ Nodes # {} /\ IsFiniteSet(Clients)
    /\ Nodes \intersect Clients = {}
    /\ Fanout \in Nat /\ MaxChanges \in Nat /\ MaxDigests \in Nat

Members == Nodes \union Clients
Update == [about : Members, incarnation : Nat, status : {"Alive", "Suspect", "Dead"}]

VARIABLES
    view,       \* each node's member list, one update for a member
    letters,    \* GossipUpdate and DiffResponse messages sent: addressee, members
    digests,    \* DigestSync messages sent: sender, addressee, members the filter holds
    heard,      \* history: the updates each node made or was handed
    changes

gossipVars == <<view, letters, digests, heard, changes>>

Founder(n) == [about |-> n, incarnation |-> 0, status |-> "Alive"]

GossipInit ==
    /\ view = [n \in Nodes |-> {Founder(m) : m \in Nodes}]
    /\ letters = {}
    /\ digests = {}
    /\ heard = view
    /\ changes = 0

-----------------------------------------------------------------------------
(* MemberList *)

\* Mutant: at the same incarnation the last word wins.
Newer_LastWins(u, w) == u.incarnation >= w.incarnation
\* What addOrUpdateMember() lets replace the record it has.
Newer(u, w) ==
    \/ u.incarnation > w.incarnation
    \/ u.incarnation = w.incarnation /\ w.status = "Alive" /\ u.status = "Suspect"
    \/ u.incarnation = w.incarnation /\ w.status # "Dead" /\ u.status = "Dead"

\* addOrUpdateMember() of updates about different members.
AddOrUpdate(list, updates) ==
    LET taken == {u \in updates : \A w \in list : w.about = u.about => Newer(u, w)}
    IN  {w \in list : \A u \in taken : u.about # w.about} \union taken

Known(n) == {w.about : w \in view[n]}
\* The incarnation a caller finds in the list, 0 for a stranger.
Incarnation(n, m) == Max({0} \union {w.incarnation : w \in {v \in view[n] : v.about = m}})

Take(n, updates) ==
    /\ view' = [view EXCEPT ![n] = AddOrUpdate(@, updates)]
    /\ heard' = [heard EXCEPT ![n] = @ \union updates]

-----------------------------------------------------------------------------
(* GossipProtocol *)

\* Mutant: the sender takes one of the places.
Pool_WithSelf(list, n) == {w.about : w \in {v \in list : v.status # "Dead"}}
\* Whom getRandomPeers() picks from: all but the sender and the dead.
Pool(list, n) == {w.about : w \in {v \in list : v.about # n /\ v.status # "Dead"}}
Picks(pool) == {S \in SUBSET pool : Cardinality(S) = Min({Fanout, Cardinality(pool)})}

\* The update is applied to the own list first; the new list says who is told.
Spread(n, u) ==
    /\ changes < MaxChanges
    /\ changes' = changes + 1
    /\ Take(n, {u})
    /\ \E peers \in Picks(Pool(view'[n], n)) :
          letters' = letters \union [to : peers \intersect Nodes, members : {{u}}]
    /\ UNCHANGED digests

\* propagateStateChange().  Its caller passes the incarnation of its own list.
PropagateStateChange(n, m, status) ==
    /\ m # n
    /\ Spread(n, [about |-> m, status |-> status,
                  incarnation |-> Incarnation(n, m) + IF status = "Alive" THEN 1 ELSE 0])

\* A caller that suspects a member it holds for alive, with addOrUpdateMember() and
\* disseminateUpdate().
ReportSuspect(n, m) ==
    /\ m # n
    /\ \E w \in view[n] : w.about = m /\ w.status = "Alive"
    /\ Spread(n, [about |-> m, status |-> "Suspect", incarnation |-> Incarnation(n, m)])

\* sendDigestSync(): a Bloom filter holds the known members, and maybe others.
SendDigestSync(n, peer) ==
    /\ n # peer /\ Cardinality(digests) < MaxDigests
    /\ \E filter \in SUBSET Members :
          /\ Known(n) \subseteq filter
          /\ digests' = digests \union {[from |-> n, to |-> peer, filter |-> filter]}
    /\ UNCHANGED <<view, letters, heard, changes>>

\* Members the filter lacks are sent back as they are listed; stale ones are not found.
HandleDigestSync(d) ==
    LET missing == {w \in view[d.to] : w.about \notin d.filter}
    IN  /\ missing # {}
        /\ letters' = letters \union {[to |-> d.from, members |-> missing]}
        /\ UNCHANGED <<view, digests, heard, changes>>

\* handleMessage() of a GossipUpdate or a DiffResponse.
HandleMembers(l) ==
    /\ Take(l.to, l.members)
    /\ UNCHANGED <<letters, digests, changes>>

GossipNext ==
    \/ \E n \in Nodes, m \in Members :
          \/ \E status \in {"Alive", "Dead"} : PropagateStateChange(n, m, status)
          \/ ReportSuspect(n, m)
    \/ \E n, peer \in Nodes : SendDigestSync(n, peer)
    \/ \E d \in digests : HandleDigestSync(d)
    \/ \E l \in letters : HandleMembers(l)

GossipSpec == GossipInit /\ [][GossipNext]_gossipVars

-----------------------------------------------------------------------------
(* Properties *)

\* Lists, messages and histories hold updates.
GossipTypeOK ==
    /\ view \in [Nodes -> SUBSET Update]
    /\ letters \subseteq [to : Nodes, members : SUBSET Update]
    /\ digests \subseteq [from : Nodes, to : Nodes, filter : SUBSET Members]
    /\ heard \in [Nodes -> SUBSET Update]
    /\ changes \in Nat

\* What the updates about one member say together: the highest incarnation counts, and
\* of that one the worst status.
Rank == [Alive |-> 0, Suspect |-> 1, Dead |-> 2]
Beats(u, w) ==
    /\ u.about = w.about
    /\ \/ u.incarnation > w.incarnation
       \/ u.incarnation = w.incarnation /\ Rank[u.status] > Rank[w.status]

\* A list is what the updates its node was handed say, in whatever order and however
\* often they came: for each member the one no other beats.  The comment of
\* propagateStateChange() is about this: out-of-order delivery splits nothing.
ViewIsJoin ==
    \A n \in Nodes : view[n] = {u \in heard[n] : \A w \in heard[n] : ~Beats(w, u)}

\* When each update has room for everybody, no node was called dead and all that was
\* sent has arrived, all lists are equal.
AgreeWhenDelivered ==
    (/\ Fanout >= Cardinality(Members) - 1
     /\ \A n \in Nodes : \A u \in heard[n] : u.about \in Nodes => u.status # "Dead"
     /\ \A l \in letters : l.members \subseteq heard[l.to])
        => \A n, k \in Nodes : view[n] = view[k]
=============================================================================
