----------------------- MODULE WebhookDeliveryProofs -----------------------
(***************************************************************************)
(* What the claim webhooks keep for any number of servers, events,         *)
(* endpoints and calls, any retry limit and any crashes: no server POSTs a *)
(* delivery twice, and a delivery reported successful stands for an event  *)
(* that some endpoint took.  The argument is that a key which has left     *)
(* `pending' never returns to it: the two properties are about different   *)
(* facts that the one key holds.                                           *)
(***************************************************************************)
EXTENDS WebhookDelivery, TLAPS

KeyStatus == {"none", "pending", "processing", "completed", "failed"}
RowStatus == {"absent", "pending", "retrying", "success", "failed", "skipped"}
Row == [status : RowStatus, attempts : Nat, due : BOOLEAN]
Attempt == [pc : {"idle", "check", "create", "mark", "completed", "failed", "rowOk", "rowFail"},
            attempt : Nat]
Visit == [state : {"not made", "running", "over"}, at : SUBSET Servers,
          todo : SUBSET Deliveries, missing : SUBSET Deliveries]

\* Only endpoints of the organization are visited, scheduled and attempted.
OnlyRegistered ==
    /\ \A d \in Deliveries : row[d].status # "absent" => d[2] \in registered
    /\ \A s \in Servers, d \in Deliveries :
          timers[s][d] > 0 \/ ~At(s, d, "idle") => d[2] \in registered
    /\ \A c \in Calls : \A d \in call[c].todo \union call[c].missing : d[2] \in registered

\* A server that has posted for a delivery finds the key settled from then on.
PostedOnce ==
    \A s \in Servers, d \in Deliveries :
        /\ posts[s][d] <= 1
        /\ posts[s][d] > 0 =>
              key[d[1]] \notin {"none", "pending"} /\ ~At(s, d, "create") /\ ~At(s, d, "mark")
        /\ At(s, d, "mark") => key[d[1]] # "none"

\* Some endpoint of the organization took the event.
Backed(e) == \E h \in registered : <<e, h>> \in accepted

\* What is about to become a success is backed.
SuccessComesBacked ==
    /\ \A e \in Events : key[e] = "completed" => Backed(e)
    /\ \A s \in Servers, d \in Deliveries :
          At(s, d, "completed") \/ At(s, d, "rowOk") => Backed(d[1])
    /\ SuccessIsBacked

WebhookInv == WebhookTypeOK /\ OnlyRegistered /\ PostedOnce /\ SuccessComesBacked

-----------------------------------------------------------------------------
(* The tables and the attempts *)

\* The type invariant with the record types named.
LEMMA WebhookTypes ==
    /\ WebhookTypeOK <=>
          /\ deployed \subseteq Servers /\ registered \subseteq Hooks
          /\ row \in [Deliveries -> Row]
          /\ key \in [Events -> KeyStatus]
          /\ timers \in [Servers -> [Deliveries -> Nat]]
          /\ work \in [Servers -> [Deliveries -> Attempt]]
          /\ call \in [Calls -> Visit]
          /\ up \in [Servers -> BOOLEAN] /\ crashes \in Nat
          /\ posts \in [Servers -> [Deliveries -> Nat]]
          /\ accepted \subseteq Deliveries
    /\ \A d \in Deliveries : d[1] \in Events /\ d[2] \in Hooks /\ d = <<d[1], d[2]>>
BY DEF WebhookTypeOK, Row, RowStatus, KeyStatus, Attempt, Visit, Deliveries

\* ... and the same for the state after a step.
LEMMA WebhookTypesNext ==
    ASSUME /\ deployed' \subseteq Servers /\ registered' \subseteq Hooks
           /\ row' \in [Deliveries -> Row]
           /\ key' \in [Events -> KeyStatus]
           /\ timers' \in [Servers -> [Deliveries -> Nat]]
           /\ work' \in [Servers -> [Deliveries -> Attempt]]
           /\ call' \in [Calls -> Visit]
           /\ up' \in [Servers -> BOOLEAN] /\ crashes' \in Nat
           /\ posts' \in [Servers -> [Deliveries -> Nat]]
           /\ accepted' \subseteq Deliveries
    PROVE  WebhookTypeOK'
BY DEF WebhookTypeOK, Row, RowStatus, KeyStatus, Attempt, Visit

\* The attempt at d on server s goes to w; every other attempt stays.
AttemptGoesTo(s, d, w) ==
    /\ work' \in [Servers -> [Deliveries -> Attempt]]
    /\ work'[s][d] = w
    /\ \A t \in Servers, f \in Deliveries : t # s \/ f # d => work'[t][f] = work[t][f]

LEMMA AttemptReplaced ==
    ASSUME WebhookTypeOK, NEW s \in Servers, NEW d \in Deliveries, NEW w \in Attempt,
           work' = [work EXCEPT ![s][d] = w]
    PROVE  AttemptGoesTo(s, d, w)
<1>1. work \in [Servers -> [Deliveries -> Attempt]]
  BY WebhookTypes
<1> QED BY <1>1 DEF AttemptGoesTo

LEMMA GotoMoves ==
    ASSUME WebhookTypeOK, NEW s \in Servers, NEW d \in Deliveries,
           NEW pc \in {"mark", "completed", "failed", "rowOk", "rowFail"}, Goto(s, d, pc)
    PROVE  AttemptGoesTo(s, d, [work[s][d] EXCEPT !.pc = pc])
<1>1. work \in [Servers -> [Deliveries -> Attempt]]
  BY WebhookTypes
<1>2. [work[s][d] EXCEPT !.pc = pc] \in Attempt
  BY <1>1 DEF Attempt
<1>3. work' = [work EXCEPT ![s][d] = [work[s][d] EXCEPT !.pc = pc]]
  BY <1>1 DEF Goto
<1> QED BY <1>2, <1>3, AttemptReplaced

\* One more timer for d on server s.
LEMMA ScheduleAdds ==
    ASSUME WebhookTypeOK, NEW s \in Servers, NEW d \in Deliveries, Schedule(s, d)
    PROVE  /\ timers' \in [Servers -> [Deliveries -> Nat]]
           /\ \A t \in Servers, f \in Deliveries : f # d => timers'[t][f] = timers[t][f]
<1>1. timers \in [Servers -> [Deliveries -> Nat]]
  BY WebhookTypes
<1> QED BY <1>1 DEF Schedule

-----------------------------------------------------------------------------
(* processDelivery() *)

\* The look at the key: only one that nobody has claimed leads to a POST, and only a
\* completed one to a success.
LEMMA CheckKeyStep ==
    ASSUME WebhookInv, NEW s \in Servers, NEW d \in Deliveries, CheckKey(s, d)
    PROVE  WebhookInv'
<1> DEFINE w == [work[s][d] EXCEPT !.pc = Verdict(d)]
<1>1. WebhookTypeOK /\ OnlyRegistered /\ PostedOnce /\ SuccessComesBacked
  BY DEF WebhookInv
<1>2. /\ work \in [Servers -> [Deliveries -> Attempt]]
      /\ key \in [Events -> KeyStatus]
      /\ d[1] \in Events
  BY <1>1, WebhookTypes
<1>3. /\ Verdict(d) \in {"rowOk", "rowFail", "create"}
      /\ Verdict(d) = "create" => key[d[1]] \in {"none", "pending"}
      /\ Verdict(d) = "rowOk" => key[d[1]] = "completed"
  BY <1>2 DEF Verdict, KeyStatus
<1>4. w \in Attempt /\ w.pc = Verdict(d)
  <2>1. work[s][d] \in Attempt /\ key[d[1]] \in KeyStatus
    BY <1>2
  <2> HIDE DEF KeyStatus
  <2> QED BY <1>3, <2>1 DEF Attempt
<1>5. work' = [work EXCEPT ![s][d] = w]
  BY <1>2 DEF CheckKey
<1> HIDE DEF w
<1>6. AttemptGoesTo(s, d, w)
  BY <1>1, <1>4, <1>5, AttemptReplaced
<1>7. UNCHANGED <<tables, timers, call, control, posts, accepted>> /\ At(s, d, "check")
  BY DEF CheckKey
<1>8. UNCHANGED <<row, key, timers, call, deployed, registered, up, crashes, posts, accepted>>
  BY <1>7 DEF tables, control
<1>9. WebhookTypeOK'
  BY <1>1, <1>6, <1>8, WebhookTypes, WebhookTypesNext DEF AttemptGoesTo
<1>10. OnlyRegistered'
  BY <1>1, <1>6, <1>7, <1>8 DEF OnlyRegistered, At, AttemptGoesTo
<1>11. PostedOnce'
  BY <1>1, <1>3, <1>4, <1>6, <1>8 DEF PostedOnce, At, AttemptGoesTo
<1>12. SuccessComesBacked'
  <2>1. \A t \in Servers, f \in Deliveries :
           work'[t][f].pc \in {"completed", "rowOk"} => Backed(f[1])
    BY <1>1, <1>2, <1>3, <1>4, <1>6 DEF SuccessComesBacked, At, AttemptGoesTo
  <2> QED
    BY <1>1, <1>8, <2>1 DEF SuccessComesBacked, SuccessIsBacked, Backed, At
<1> QED BY <1>9, <1>10, <1>11, <1>12 DEF WebhookInv

\* createIdempotencyKey(): whoever goes on to the mark has not posted, and the key exists.
LEMMA CreateKeyStep ==
    ASSUME WebhookInv, NEW s \in Servers, NEW d \in Deliveries, CreateKey(s, d)
    PROVE  WebhookInv'
<1>1. WebhookTypeOK /\ OnlyRegistered /\ PostedOnce /\ SuccessComesBacked
  BY DEF WebhookInv
<1>2. /\ work \in [Servers -> [Deliveries -> Attempt]]
      /\ key \in [Events -> KeyStatus]
      /\ d[1] \in Events
  BY <1>1, WebhookTypes
<1>3. UNCHANGED <<row, timers, call, deployed, registered, up, crashes, posts, accepted>>
  BY DEF CreateKey, control
<1>4. \/ key[d[1]] = "none" /\ key' = [key EXCEPT ![d[1]] = "pending"]
      \/ key[d[1]] # "none" /\ key' = key
  BY DEF CreateKey
<1>5. /\ key' \in [Events -> KeyStatus]
      /\ key'[d[1]] # "none"
      /\ \A e \in Events : key'[e] = key[e] \/ (key[e] = "none" /\ key'[e] = "pending")
  BY <1>2, <1>4 DEF KeyStatus
<1>6. PICK pc \in {"mark", "rowFail"} : Goto(s, d, pc)
  BY DEF CreateKey
<1> DEFINE w == [work[s][d] EXCEPT !.pc = pc]
<1>7. AttemptGoesTo(s, d, w) /\ w.pc \in {"mark", "rowFail"}
  <2>1. AttemptGoesTo(s, d, w)
    BY <1>1, <1>6, GotoMoves
  <2>2. work[s][d] \in Attempt
    BY <1>2
  <2> QED BY <2>1, <2>2 DEF Attempt
<1> HIDE DEF w
<1>8. At(s, d, "create") /\ ~At(s, d, "idle")
  BY DEF CreateKey, At
<1>9. WebhookTypeOK'
  BY <1>1, <1>3, <1>5, <1>7, WebhookTypes, WebhookTypesNext DEF AttemptGoesTo
<1>10. OnlyRegistered'
  BY <1>1, <1>3, <1>7, <1>8 DEF OnlyRegistered, At, AttemptGoesTo
<1>11. PostedOnce'
  <2> SUFFICES ASSUME NEW t \in Servers, NEW f \in Deliveries
               PROVE  /\ posts[t][f] <= 1
                      /\ posts[t][f] > 0 =>
                            /\ key'[f[1]] \notin {"none", "pending"}
                            /\ work'[t][f].pc # "create" /\ work'[t][f].pc # "mark"
                      /\ work'[t][f].pc = "mark" => key'[f[1]] # "none"
    BY <1>3 DEF PostedOnce, At
  <2>1. f[1] \in Events
    BY WebhookTypes
  <2>2. CASE t = s /\ f = d
    BY <1>1, <1>5, <1>7, <1>8, <2>2 DEF PostedOnce, AttemptGoesTo
  <2>3. CASE t # s \/ f # d
    BY <1>1, <1>5, <1>7, <2>1, <2>3 DEF PostedOnce, At, AttemptGoesTo
  <2> QED BY <2>2, <2>3
<1>12. SuccessComesBacked'
  <2>1. \A e \in Events : key'[e] = "completed" => Backed(e)
    BY <1>1, <1>5 DEF SuccessComesBacked
  <2>2. \A t \in Servers, f \in Deliveries :
           work'[t][f].pc \in {"completed", "rowOk"} => Backed(f[1])
    BY <1>1, <1>7 DEF SuccessComesBacked, At, AttemptGoesTo
  <2> QED
    BY <1>1, <1>3, <2>1, <2>2 DEF SuccessComesBacked, SuccessIsBacked, Backed, At
<1> QED BY <1>9, <1>10, <1>11, <1>12 DEF WebhookInv

\* The POST: it happens only where none has happened, and it leaves the key claimed.
LEMMA MarkAndPostStep ==
    ASSUME WebhookInv, NEW s \in Servers, NEW d \in Deliveries, MarkAndPost(s, d)
    PROVE  WebhookInv'
<1>1. WebhookTypeOK /\ OnlyRegistered /\ PostedOnce /\ SuccessComesBacked
  BY DEF WebhookInv
<1>2. /\ work \in [Servers -> [Deliveries -> Attempt]]
      /\ key \in [Events -> KeyStatus]
      /\ posts \in [Servers -> [Deliveries -> Nat]]
      /\ d[1] \in Events /\ d[2] \in Hooks /\ d = <<d[1], d[2]>>
  BY <1>1, WebhookTypes
<1>3. /\ UNCHANGED <<row, timers, call, deployed, registered, up, crashes>>
      /\ key' = [key EXCEPT ![d[1]] = Claimed(@)]
      /\ posts' = [posts EXCEPT ![s][d] = @ + 1]
      /\ accepted' \in {accepted, accepted \union {d}}
      /\ At(s, d, "mark")
  BY DEF MarkAndPost, control
<1>4. PICK pc \in {"completed", "failed"} :
         Goto(s, d, pc) /\ (pc = "completed" => accepted' = accepted \union {d})
  BY DEF MarkAndPost
<1> DEFINE w == [work[s][d] EXCEPT !.pc = pc]
<1>5. AttemptGoesTo(s, d, w) /\ w.pc = pc
  <2>1. AttemptGoesTo(s, d, w)
    BY <1>1, <1>4, GotoMoves
  <2>2. work[s][d] \in Attempt
    BY <1>2
  <2> QED BY <2>1, <2>2 DEF Attempt
<1> HIDE DEF w
<1>6. /\ key' \in [Events -> KeyStatus]
      /\ \A e \in Events : key[e] \notin {"none", "pending"} => key'[e] = key[e]
      /\ \A e \in Events : key[e] = "none" <=> key'[e] = "none"
      /\ \A e \in Events : key'[e] = "completed" => key[e] = "completed"
      /\ key'[d[1]] \notin {"none", "pending"}
  <2>1. key[d[1]] \in KeyStatus /\ key[d[1]] # "none"
    BY <1>1, <1>2, <1>3 DEF PostedOnce
  <2> QED BY <1>2, <1>3, <2>1 DEF Claimed, KeyStatus
<1>7. /\ posts' \in [Servers -> [Deliveries -> Nat]]
      /\ posts'[s][d] = 1
      /\ \A t \in Servers, f \in Deliveries : t # s \/ f # d => posts'[t][f] = posts[t][f]
  <2>1. posts[s][d] = 0
    <3>1. posts[s][d] \in Nat /\ ~(posts[s][d] > 0)
      BY <1>1, <1>2, <1>3 DEF PostedOnce
    <3> QED BY <3>1
  <2> QED BY <1>2, <1>3, <2>1
<1>8. WebhookTypeOK'
  BY <1>1, <1>3, <1>5, <1>6, <1>7, WebhookTypes, WebhookTypesNext DEF AttemptGoesTo
<1>9. d[2] \in registered
  BY <1>1, <1>3 DEF OnlyRegistered, At
<1>10. OnlyRegistered'
  BY <1>1, <1>3, <1>5, <1>9 DEF OnlyRegistered, At, AttemptGoesTo
<1>11. PostedOnce'
  <2> SUFFICES ASSUME NEW t \in Servers, NEW f \in Deliveries
               PROVE  /\ posts'[t][f] <= 1
                      /\ posts'[t][f] > 0 =>
                            /\ key'[f[1]] \notin {"none", "pending"}
                            /\ work'[t][f].pc # "create" /\ work'[t][f].pc # "mark"
                      /\ work'[t][f].pc = "mark" => key'[f[1]] # "none"
    BY DEF PostedOnce, At
  <2>1. f[1] \in Events
    BY WebhookTypes
  <2>2. CASE t = s /\ f = d
    BY <1>4, <1>5, <1>6, <1>7, <2>2 DEF AttemptGoesTo
  <2>3. CASE t # s \/ f # d
    <3>1. work'[t][f] = work[t][f] /\ posts'[t][f] = posts[t][f]
      BY <1>5, <1>7, <2>3 DEF AttemptGoesTo
    <3> QED BY <1>1, <1>6, <2>1, <3>1 DEF PostedOnce, At
  <2> QED BY <2>2, <2>3
<1>12. SuccessComesBacked'
  <2>1. \A e \in Events : Backed(e) => Backed(e)'
    BY <1>3 DEF Backed
  <2>2. pc = "completed" => Backed(d[1])'
    BY <1>2, <1>3, <1>4, <1>9 DEF Backed
  <2>3. \A e \in Events : key'[e] = "completed" => Backed(e)'
    BY <1>1, <1>6, <2>1 DEF SuccessComesBacked
  <2>4. ASSUME NEW t \in Servers, NEW f \in Deliveries, work'[t][f].pc \in {"completed", "rowOk"}
        PROVE  Backed(f[1])'
    <3>1. CASE t = s /\ f = d
      BY <1>4, <1>5, <2>2, <2>4, <3>1 DEF AttemptGoesTo
    <3>2. CASE t # s \/ f # d
      <4>1. work[t][f].pc \in {"completed", "rowOk"} /\ f[1] \in Events
        BY <1>5, <2>4, <3>2, WebhookTypes DEF AttemptGoesTo
      <4> QED BY <1>1, <2>1, <4>1 DEF SuccessComesBacked, At
    <3> QED BY <3>1, <3>2
  <2>5. SuccessIsBacked'
    <3>1. ASSUME NEW f \in Deliveries, row'[f].status = "success" PROVE Backed(f[1])'
      <4>1. Backed(f[1]) /\ f[1] \in Events
        BY <1>1, <1>3, <3>1, WebhookTypes DEF SuccessComesBacked, SuccessIsBacked, Backed
      <4> QED BY <2>1, <4>1
    <3> QED BY <3>1 DEF SuccessIsBacked, Backed
  <2> QED BY <2>3, <2>4, <2>5 DEF SuccessComesBacked, At
<1> QED BY <1>8, <1>10, <1>11, <1>12 DEF WebhookInv

\* markAsCompleted() and markAsFailed(): the key stays settled, and completed only
\* for an event that was taken.
LEMMA RecordVerdictStep ==
    ASSUME WebhookInv, NEW s \in Servers, NEW d \in Deliveries, RecordVerdict(s, d)
    PROVE  WebhookInv'
<1>1. WebhookTypeOK /\ OnlyRegistered /\ PostedOnce /\ SuccessComesBacked
  BY DEF WebhookInv
<1>2. /\ work \in [Servers -> [Deliveries -> Attempt]]
      /\ key \in [Events -> KeyStatus]
      /\ d[1] \in Events
  BY <1>1, WebhookTypes
<1> DEFINE was == work[s][d].pc
<1>3. /\ UNCHANGED <<row, timers, call, deployed, registered, up, crashes, posts, accepted>>
      /\ key' = [key EXCEPT ![d[1]] = was]
      /\ was \in {"completed", "failed"}
      /\ was = "completed" => Backed(d[1])
  BY <1>1 DEF RecordVerdict, control, At, SuccessComesBacked
<1>4. PICK pc \in {"rowOk", "rowFail"} : Goto(s, d, pc) /\ (pc = "rowOk" => was = "completed")
  BY DEF RecordVerdict, At
<1> DEFINE w == [work[s][d] EXCEPT !.pc = pc]
<1>5. AttemptGoesTo(s, d, w) /\ w.pc = pc
  <2>1. AttemptGoesTo(s, d, w)
    BY <1>1, <1>4, GotoMoves
  <2>2. work[s][d] \in Attempt
    BY <1>2
  <2> QED BY <2>1, <2>2 DEF Attempt
<1>6. ~At(s, d, "idle")
  BY <1>3 DEF At
<1> HIDE DEF w, was
<1>7. /\ key' \in [Events -> KeyStatus]
      /\ key'[d[1]] = was
      /\ \A e \in Events : e # d[1] => key'[e] = key[e]
  BY <1>2, <1>3 DEF KeyStatus
<1>8. WebhookTypeOK'
  BY <1>1, <1>3, <1>5, <1>7, WebhookTypes, WebhookTypesNext DEF AttemptGoesTo
<1>9. OnlyRegistered'
  BY <1>1, <1>3, <1>5, <1>6 DEF OnlyRegistered, At, AttemptGoesTo
<1>10. PostedOnce'
  <2> SUFFICES ASSUME NEW t \in Servers, NEW f \in Deliveries
               PROVE  /\ posts[t][f] <= 1
                      /\ posts[t][f] > 0 =>
                            /\ key'[f[1]] \notin {"none", "pending"}
                            /\ work'[t][f].pc # "create" /\ work'[t][f].pc # "mark"
                      /\ work'[t][f].pc = "mark" => key'[f[1]] # "none"
    BY <1>3 DEF PostedOnce, At
  <2>1. f[1] \in Events
    BY WebhookTypes
  <2>2. /\ key[f[1]] \notin {"none", "pending"} => key'[f[1]] \notin {"none", "pending"}
        /\ key[f[1]] # "none" => key'[f[1]] # "none"
    BY <1>3, <1>7, <2>1
  <2>3. CASE t = s /\ f = d
    <3>1. work'[t][f].pc = pc /\ key'[f[1]] \notin {"none", "pending"}
      BY <1>3, <1>5, <1>7, <2>3 DEF AttemptGoesTo
    <3> QED BY <1>1, <3>1 DEF PostedOnce
  <2>4. CASE t # s \/ f # d
    <3>1. work'[t][f] = work[t][f]
      BY <1>5, <2>4 DEF AttemptGoesTo
    <3> QED BY <1>1, <2>2, <3>1 DEF PostedOnce, At
  <2> QED BY <2>3, <2>4
<1>11. SuccessComesBacked'
  <2>1. \A e \in Events : key'[e] = "completed" => Backed(e)
    BY <1>1, <1>3, <1>7 DEF SuccessComesBacked
  <2>2. \A t \in Servers, f \in Deliveries :
           work'[t][f].pc \in {"completed", "rowOk"} => Backed(f[1])
    BY <1>1, <1>3, <1>4, <1>5 DEF SuccessComesBacked, At, AttemptGoesTo
  <2> QED
    BY <1>1, <1>3, <2>1, <2>2 DEF SuccessComesBacked, SuccessIsBacked, Backed, At
<1> QED BY <1>8, <1>9, <1>10, <1>11 DEF WebhookInv

\* The attempt ends: its row says what the attempt knows.
LEMMA RowStep ==
    ASSUME WebhookInv, NEW s \in Servers, NEW d \in Deliveries,
           RecordSuccess(s, d) \/ RecordFailure(s, d)
    PROVE  WebhookInv'
<1>1. WebhookTypeOK /\ OnlyRegistered /\ PostedOnce /\ SuccessComesBacked
  BY DEF WebhookInv
<1>2. /\ work \in [Servers -> [Deliveries -> Attempt]] /\ row \in [Deliveries -> Row]
      /\ work[s][d].attempt \in Nat
  BY <1>1, WebhookTypes DEF Attempt
<1>3. UNCHANGED <<key, call, deployed, registered, up, crashes, posts, accepted>>
  BY DEF RecordSuccess, RecordFailure, control
<1>4. PICK r \in Row : /\ row' = [row EXCEPT ![d] = r]
                       /\ r.status = "success" => At(s, d, "rowOk")
  <2>1. Succeeded(work[s][d].attempt) \in Row /\ Failed(work[s][d].attempt) \in Row
    BY <1>2, WebhookAssumption DEF Succeeded, Failed, Row, RowStatus
  <2>2. Failed(work[s][d].attempt).status # "success"
    BY DEF Failed
  <2> QED BY <2>1, <2>2 DEF RecordSuccess, RecordFailure
<1>5. timers' = timers \/ Schedule(s, d)
  BY DEF RecordSuccess, RecordFailure
<1>6. d[2] \in registered
  BY <1>1 DEF OnlyRegistered, RecordSuccess, RecordFailure, At
<1>7. /\ timers' \in [Servers -> [Deliveries -> Nat]]
      /\ \A t \in Servers, f \in Deliveries : f # d => timers'[t][f] = timers[t][f]
  BY <1>1, <1>5, ScheduleAdds, WebhookTypes
<1>8. AttemptGoesTo(s, d, Idle) /\ Idle.pc = "idle"
  <2>1. Idle \in Attempt
    BY DEF Idle, Attempt, KeyStatus
  <2> QED BY <1>1, <2>1, AttemptReplaced DEF RecordSuccess, RecordFailure, Idle
<1>9. /\ row' \in [Deliveries -> Row]
      /\ \A f \in Deliveries : f # d => row'[f] = row[f]
      /\ row'[d] = r
  BY <1>2, <1>4
<1>10. WebhookTypeOK'
  BY <1>1, <1>3, <1>7, <1>8, <1>9, WebhookTypes, WebhookTypesNext DEF AttemptGoesTo
<1>11. OnlyRegistered'
  <2>1. \A f \in Deliveries : row'[f].status # "absent" => f[2] \in registered
    BY <1>1, <1>6, <1>9 DEF OnlyRegistered
  <2>2. \A t \in Servers, f \in Deliveries :
           timers'[t][f] > 0 \/ work'[t][f].pc # "idle" => f[2] \in registered
    BY <1>1, <1>6, <1>7, <1>8 DEF OnlyRegistered, At, AttemptGoesTo
  <2> QED BY <1>1, <1>3, <2>1, <2>2 DEF OnlyRegistered, At
<1>12. PostedOnce'
  BY <1>1, <1>3, <1>8 DEF PostedOnce, At, AttemptGoesTo
<1>13. SuccessComesBacked'
  <2>1. \A f \in Deliveries : row'[f].status = "success" => Backed(f[1])
    BY <1>1, <1>4, <1>9 DEF SuccessComesBacked, SuccessIsBacked, Backed
  <2>2. \A t \in Servers, f \in Deliveries :
           work'[t][f].pc \in {"completed", "rowOk"} => Backed(f[1])
    BY <1>1, <1>8 DEF SuccessComesBacked, At, AttemptGoesTo
  <2> QED
    BY <1>1, <1>3, <2>1, <2>2 DEF SuccessComesBacked, SuccessIsBacked, Backed, At
<1> QED BY <1>10, <1>11, <1>12, <1>13 DEF WebhookInv

\* A timer fires: the attempt, if one starts, is for a delivery that was scheduled.
LEMMA StartAttemptStep ==
    ASSUME WebhookInv, NEW s \in Servers, NEW d \in Deliveries, StartAttempt(s, d)
    PROVE  WebhookInv'
<1>1. WebhookTypeOK /\ OnlyRegistered /\ PostedOnce /\ SuccessComesBacked
  BY DEF WebhookInv
<1>2. /\ work \in [Servers -> [Deliveries -> Attempt]]
      /\ row \in [Deliveries -> Row]
      /\ timers \in [Servers -> [Deliveries -> Nat]]
  BY <1>1, WebhookTypes
<1>3. UNCHANGED <<row, key, call, deployed, registered, up, crashes, posts, accepted>>
  BY DEF StartAttempt, tables, control
<1>4. d[2] \in registered
  BY <1>1 DEF StartAttempt, OnlyRegistered
<1>5. /\ timers' \in [Servers -> [Deliveries -> Nat]]
      /\ \A t \in Servers, f \in Deliveries : f # d => timers'[t][f] = timers[t][f]
  <2>1. timers[s][d] > 0 /\ timers' = [timers EXCEPT ![s][d] = @ - 1]
    BY DEF StartAttempt
  <2> QED BY <1>2, <2>1
<1>6. PICK w \in Attempt : AttemptGoesTo(s, d, w) /\ (w.pc = "check" \/ w = work[s][d])
  <2> DEFINE first == [pc |-> "check", attempt |-> row[d].attempts + 1]
  <2>1. first \in Attempt
    <3>1. row[d].attempts + 1 \in Nat
      BY <1>2 DEF Row
    <3> QED BY <3>1 DEF Attempt, KeyStatus
  <2>2. CASE work' = [work EXCEPT ![s][d] = first]
    <3>1. AttemptGoesTo(s, d, first)
      BY <1>1, <2>1, <2>2, AttemptReplaced
    <3> QED BY <2>1, <3>1
  <2>3. CASE UNCHANGED work
    BY <1>2, <2>3 DEF AttemptGoesTo
  <2> QED BY <2>2, <2>3 DEF StartAttempt
<1>7. WebhookTypeOK'
  BY <1>1, <1>3, <1>5, <1>6, WebhookTypes, WebhookTypesNext DEF AttemptGoesTo
<1>8. OnlyRegistered'
  <2>1. \A t \in Servers, f \in Deliveries :
           timers'[t][f] > 0 \/ work'[t][f].pc # "idle" => f[2] \in registered
    BY <1>1, <1>4, <1>5, <1>6 DEF OnlyRegistered, At, AttemptGoesTo
  <2> QED BY <1>1, <1>3, <2>1 DEF OnlyRegistered, At
<1>9. \A t \in Servers, f \in Deliveries :
         work'[t][f].pc = "check" \/ work'[t][f].pc = work[t][f].pc
  BY <1>6 DEF AttemptGoesTo
<1>10. PostedOnce'
  BY <1>1, <1>3, <1>9 DEF PostedOnce, At
<1>11. SuccessComesBacked'
  <2>1. \A t \in Servers, f \in Deliveries :
           work'[t][f].pc \in {"completed", "rowOk"} => Backed(f[1])
    BY <1>1, <1>9 DEF SuccessComesBacked, At
  <2> QED
    BY <1>1, <1>3, <2>1 DEF SuccessComesBacked, SuccessIsBacked, Backed, At
<1> QED BY <1>7, <1>8, <1>10, <1>11 DEF WebhookInv

-----------------------------------------------------------------------------
(* enqueueTokensClaimedEvent() *)

\* A step that leaves keys, attempts and posts alone, makes no row a success and
\* puts up only registered endpoints keeps the invariant.
LEMMA PutUpKeeps ==
    ASSUME WebhookInv,
           UNCHANGED <<key, work, deployed, registered, up, crashes, posts, accepted>>,
           row' \in [Deliveries -> Row],
           timers' \in [Servers -> [Deliveries -> Nat]],
           call' \in [Calls -> Visit],
           \A d \in Deliveries : d[2] \in registered \/ row'[d].status = row[d].status,
           \A d \in Deliveries : row'[d].status = "success" => row[d].status = "success",
           \A s \in Servers, d \in Deliveries :
               timers'[s][d] > 0 => timers[s][d] > 0 \/ d[2] \in registered,
           \A c \in Calls : \A d \in call'[c].todo \union call'[c].missing : d[2] \in registered
    PROVE  WebhookInv'
<1>1. WebhookTypeOK /\ OnlyRegistered /\ PostedOnce /\ SuccessComesBacked
  BY DEF WebhookInv
<1>2. WebhookTypeOK'
  BY <1>1, WebhookTypes, WebhookTypesNext
<1>3. OnlyRegistered'
  BY <1>1 DEF OnlyRegistered, At
<1>4. PostedOnce'
  BY <1>1 DEF PostedOnce, At
<1>5. SuccessComesBacked'
  BY <1>1 DEF SuccessComesBacked, SuccessIsBacked, Backed, At
<1> QED BY <1>2, <1>3, <1>4, <1>5 DEF WebhookInv

\* The endpoints a call visits are registered ones.
LEMMA CallEndpoints ==
    ASSUME WebhookInv, NEW c \in Calls
    PROVE  /\ call[c].at \subseteq Servers
           /\ \A d \in call[c].todo \union call[c].missing : d \in Deliveries /\ d[2] \in registered
BY WebhookTypes DEF WebhookInv, OnlyRegistered, Visit

\* Going on to the next endpoint adds none.
LEMMA GoOnKeeps ==
    ASSUME WebhookInv, NEW c \in Calls, NEW d, GoOn(c, d)
    PROVE  /\ call' \in [Calls -> Visit]
           /\ \A k \in Calls : \A f \in call'[k].todo \union call'[k].missing : f[2] \in registered
<1> DEFINE rest == call[c].todo \ {d}
           next == IF rest = {} THEN Over ELSE [call[c] EXCEPT !.todo = rest, !.missing = {}]
<1>1. call \in [Calls -> Visit]
  BY WebhookTypes DEF WebhookInv
<1>2. call' = [call EXCEPT ![c] = next]
  BY <1>1 DEF GoOn
<1>3. next \in Visit /\ next.todo \subseteq call[c].todo /\ next.missing = {}
  <2>1. Over \in Visit /\ Over.todo = {} /\ Over.missing = {}
    BY DEF Over, NotMade, Visit
  <2>2. call[c] \in Visit
    BY <1>1
  <2>3. /\ [call[c] EXCEPT !.todo = rest, !.missing = {}] \in Visit
        /\ [call[c] EXCEPT !.todo = rest, !.missing = {}].todo = rest
        /\ [call[c] EXCEPT !.todo = rest, !.missing = {}].missing = {}
    BY <2>2 DEF Visit
  <2> QED BY <2>1, <2>3
<1> HIDE DEF next
<1>4. call'[c] = next /\ \A k \in Calls : k # c => call'[k] = call[k]
  BY <1>1, <1>2
<1>5. call' \in [Calls -> Visit]
  BY <1>1, <1>2, <1>3
<1> QED BY <1>3, <1>4, <1>5, CallEndpoints

\* A delivery is put up or skipped; it does not become a success by that.
LEMMA PutUpRow ==
    ASSUME WebhookInv, NEW c \in Calls, NEW d \in Deliveries, d[2] \in registered, PutUp(c, d)
    PROVE  /\ row' \in [Deliveries -> Row]
           /\ timers' \in [Servers -> [Deliveries -> Nat]]
           /\ \A f \in Deliveries : f # d => row'[f] = row[f]
           /\ row'[d].status = "success" => row[d].status = "success"
           /\ \A s \in Servers, f \in Deliveries :
                 timers'[s][f] > 0 => timers[s][f] > 0 \/ f[2] \in registered
<1>1. row \in [Deliveries -> Row] /\ timers \in [Servers -> [Deliveries -> Nat]]
  BY WebhookTypes DEF WebhookInv
<1>2. row[d] \in Row
  BY <1>1
<1>3. CASE row' = [row EXCEPT ![d].status = "skipped"] /\ UNCHANGED timers
  <2>1. [row[d] EXCEPT !.status = "skipped"] \in Row
    BY <1>2 DEF Row, RowStatus
  <2>2. row' = [row EXCEPT ![d] = [row[d] EXCEPT !.status = "skipped"]]
    BY <1>1, <1>3
  <2>3. [row[d] EXCEPT !.status = "skipped"].status = "skipped"
    BY <1>2 DEF Row
  <2> QED BY <1>1, <1>3, <2>1, <2>2, <2>3
<1>4. CASE /\ row' = [row EXCEPT ![d].due = TRUE,
                                 ![d].status = IF @ = "absent" THEN "pending" ELSE @]
           /\ \E s \in call[c].at : Schedule(s, d)
  <2> DEFINE status == IF row[d].status = "absent" THEN "pending" ELSE row[d].status
             r == [row[d] EXCEPT !.due = TRUE, !.status = status]
  <2>1. r \in Row /\ r.status = status
    BY <1>2 DEF Row, RowStatus
  <2>2. row' = [row EXCEPT ![d] = r]
    BY <1>1, <1>4
  <2>3. PICK s \in Servers : Schedule(s, d)
    BY <1>4, CallEndpoints
  <2>4. /\ timers' \in [Servers -> [Deliveries -> Nat]]
        /\ \A t \in Servers, f \in Deliveries : f # d => timers'[t][f] = timers[t][f]
    BY <2>3, ScheduleAdds DEF WebhookInv
  <2> HIDE DEF r
  <2> QED BY <1>1, <2>1, <2>2, <2>4
<1> QED BY <1>3, <1>4 DEF PutUp

\* findOne() and create() of a delivery, with everything that follows them.
LEMMA VisitStep ==
    ASSUME WebhookInv, NEW c \in Calls, NEW d \in Deliveries,
           LookUpDelivery(c, d) \/ CreateDelivery(c, d)
    PROVE  WebhookInv'
<1>1. /\ row \in [Deliveries -> Row] /\ timers \in [Servers -> [Deliveries -> Nat]]
      /\ call \in [Calls -> Visit]
  BY WebhookTypes DEF WebhookInv
<1>2. UNCHANGED <<key, work, deployed, registered, up, crashes, posts, accepted>>
  BY DEF LookUpDelivery, CreateDelivery, control
<1>3. d[2] \in registered
  BY CallEndpoints DEF LookUpDelivery, CreateDelivery
<1>4. \/ GoOn(c, d) /\ PutUp(c, d)
      \/ GoOn(c, d) /\ UNCHANGED <<row, timers>>
      \/ call' = [call EXCEPT ![c].missing = {d}] /\ UNCHANGED <<row, timers>>
      \/ call' = [call EXCEPT ![c] = Over] /\ UNCHANGED <<row, timers>>
  BY DEF LookUpDelivery, CreateDelivery
<1>5. ASSUME GoOn(c, d), PutUp(c, d) PROVE WebhookInv'
  BY <1>2, <1>3, <1>5, PutUpRow, GoOnKeeps, PutUpKeeps
<1>6. ASSUME call' \in [Calls -> Visit], UNCHANGED <<row, timers>>,
             \A k \in Calls : \A f \in call'[k].todo \union call'[k].missing : f[2] \in registered
      PROVE  WebhookInv'
  BY <1>1, <1>2, <1>6, PutUpKeeps
<1>7. ASSUME call' = [call EXCEPT ![c].missing = {d}]
      PROVE  /\ call' \in [Calls -> Visit]
             /\ \A k \in Calls : \A f \in call'[k].todo \union call'[k].missing : f[2] \in registered
  <2>1. call[c] \in Visit
    BY <1>1
  <2> DEFINE v == [call[c] EXCEPT !.missing = {d}]
  <2>2. v \in Visit /\ v.todo = call[c].todo /\ v.missing = {d}
    BY <2>1 DEF Visit
  <2>3. call' = [call EXCEPT ![c] = v]
    BY <1>1, <1>7
  <2> HIDE DEF v
  <2> QED BY <1>1, <1>3, <2>2, <2>3, CallEndpoints
<1>8. ASSUME call' = [call EXCEPT ![c] = Over]
      PROVE  /\ call' \in [Calls -> Visit]
             /\ \A k \in Calls : \A f \in call'[k].todo \union call'[k].missing : f[2] \in registered
  <2>1. Over \in Visit /\ Over.todo = {} /\ Over.missing = {}
    BY DEF Over, NotMade, Visit
  <2> QED BY <1>1, <1>8, <2>1, CallEndpoints
<1> QED BY <1>4, <1>5, <1>6, <1>7, <1>8, GoOnKeeps

\* A call is made for registered endpoints only.
LEMMA AnnounceStep ==
    ASSUME WebhookInv, NEW c \in Calls, NEW s \in Servers, NEW e \in Events, Announce(c, s, e)
    PROVE  WebhookInv'
<1> DEFINE v == [state |-> "running", at |-> {s}, todo |-> {e} \X registered, missing |-> {}]
<1>1. /\ row \in [Deliveries -> Row] /\ timers \in [Servers -> [Deliveries -> Nat]]
      /\ call \in [Calls -> Visit] /\ registered \subseteq Hooks
  BY WebhookTypes DEF WebhookInv
<1>2. UNCHANGED <<row, key, timers, work, deployed, registered, up, crashes, posts, accepted>>
  BY DEF Announce, tables, control
<1>3. call' = [call EXCEPT ![c] = v]
  BY DEF Announce
<1>4. v \in Visit
  BY <1>1 DEF Visit, Deliveries
<1>5. v.missing = {} /\ \A d \in v.todo : d[2] \in registered
  OBVIOUS
<1> HIDE DEF v
<1> QED BY <1>1, <1>2, <1>3, <1>4, <1>5, CallEndpoints, PutUpKeeps

-----------------------------------------------------------------------------
(* Time, restarts *)

\* What is resumed has a row, so its endpoint is registered.
LEMMA ResumedTimers ==
    ASSUME WebhookInv, NEW s \in Servers, timers' = Resumed(s)
    PROVE  /\ timers' \in [Servers -> [Deliveries -> Nat]]
           /\ \A t \in Servers, d \in Deliveries :
                 timers'[t][d] > 0 => timers[t][d] > 0 \/ d[2] \in registered
<1>1. timers \in [Servers -> [Deliveries -> Nat]]
  BY WebhookTypes DEF WebhookInv
<1> DEFINE more == [d \in Deliveries |-> timers[s][d] + IF d \in Resumable THEN 1 ELSE 0]
<1>2. timers' = [timers EXCEPT ![s] = more]
  BY <1>1 DEF Resumed
<1>3. more \in [Deliveries -> Nat]
  BY <1>1
<1>4. \A d \in Deliveries : more[d] > 0 => timers[s][d] > 0 \/ d \in Resumable
  BY <1>1
<1>5. \A d \in Resumable : d[2] \in registered
  BY DEF WebhookInv, OnlyRegistered, Resumable
<1> HIDE DEF more
<1> QED BY <1>1, <1>2, <1>3, <1>4, <1>5

\* A server that dies loses attempts and timers; the tables stay.
LEMMA CrashKeeps ==
    ASSUME WebhookInv, NEW s \in Servers, Crash(s)
    PROVE  WebhookInv'
<1>1. WebhookTypeOK /\ OnlyRegistered /\ PostedOnce /\ SuccessComesBacked
  BY DEF WebhookInv
<1>2. /\ timers \in [Servers -> [Deliveries -> Nat]]
      /\ work \in [Servers -> [Deliveries -> Attempt]]
      /\ call \in [Calls -> Visit] /\ crashes \in Nat /\ up \in [Servers -> BOOLEAN]
  BY <1>1, WebhookTypes
<1>3. UNCHANGED <<deployed, registered, row, key, posts, accepted>>
  BY DEF Crash, tables
<1>4. /\ timers' \in [Servers -> [Deliveries -> Nat]]
      /\ \A t \in Servers, d \in Deliveries : timers'[t][d] > 0 => timers[t][d] > 0
  BY <1>2 DEF Crash
<1>5. /\ work' \in [Servers -> [Deliveries -> Attempt]]
      /\ \A t \in Servers, d \in Deliveries :
            work'[t][d].pc = "idle" \/ work'[t][d] = work[t][d]
  <2>1. Idle \in Attempt /\ Idle.pc = "idle"
    BY DEF Idle, Attempt, KeyStatus
  <2>2. work' = [work EXCEPT ![s] = [d \in Deliveries |-> Idle]]
    BY DEF Crash
  <2> QED BY <1>2, <2>1, <2>2
<1>6. /\ call' \in [Calls -> Visit]
      /\ \A c \in Calls : call'[c] = Over \/ call'[c] = call[c]
      /\ Over.todo = {} /\ Over.missing = {}
  <2>1. Over \in Visit /\ Over.todo = {} /\ Over.missing = {}
    BY DEF Over, NotMade, Visit
  <2>2. call' = [c \in Calls |-> IF s \in call[c].at THEN Over ELSE call[c]]
    BY DEF Crash
  <2> QED BY <1>2, <2>1, <2>2
<1>7. crashes' \in Nat /\ up' \in [Servers -> BOOLEAN]
  BY <1>2 DEF Crash
<1>8. WebhookTypeOK'
  BY <1>1, <1>3, <1>4, <1>5, <1>6, <1>7, WebhookTypes, WebhookTypesNext
<1>9. OnlyRegistered'
  BY <1>1, <1>3, <1>4, <1>5, <1>6 DEF OnlyRegistered, At
<1>10. PostedOnce'
  BY <1>1, <1>3, <1>5 DEF PostedOnce, At
<1>11. SuccessComesBacked'
  <2>1. \A t \in Servers, f \in Deliveries :
           work'[t][f].pc \in {"completed", "rowOk"} => Backed(f[1])
    BY <1>1, <1>5 DEF SuccessComesBacked, At
  <2> QED
    BY <1>1, <1>3, <2>1 DEF SuccessComesBacked, SuccessIsBacked, Backed, At
<1> QED BY <1>8, <1>9, <1>10, <1>11 DEF WebhookInv

\* The ticks of the interval, restarts and the end of a backoff.
LEMMA TimeStep ==
    ASSUME WebhookInv,
           \/ \E s \in Servers : ResumePendingDeliveries(s) \/ Restart(s)
           \/ \E d \in Deliveries : BackoffEnds(d)
           \/ UNCHANGED webhookVars
    PROVE  WebhookInv'
<1>1. /\ row \in [Deliveries -> Row] /\ timers \in [Servers -> [Deliveries -> Nat]]
      /\ call \in [Calls -> Visit] /\ up \in [Servers -> BOOLEAN]
  BY WebhookTypes DEF WebhookInv
<1>2. ASSUME NEW s \in Servers, ResumePendingDeliveries(s) PROVE WebhookInv'
  <2>1. /\ timers' = Resumed(s)
        /\ UNCHANGED <<row, key, work, call, deployed, registered, up, crashes, posts, accepted>>
    BY <1>2 DEF ResumePendingDeliveries, tables, control
  <2> QED BY <1>1, <2>1, ResumedTimers, CallEndpoints, PutUpKeeps
<1>3. ASSUME NEW s \in Servers, Restart(s) PROVE WebhookInv'
  <2>1. /\ timers' = Resumed(s) /\ up' = [up EXCEPT ![s] = TRUE]
        /\ UNCHANGED <<row, key, work, call, deployed, registered, crashes, posts, accepted>>
    BY <1>3 DEF Restart, tables
  <2>2. up' \in [Servers -> BOOLEAN]
    BY <1>1, <2>1
  <2>3. WebhookTypeOK'
    BY <2>1, <2>2, ResumedTimers, WebhookTypes, WebhookTypesNext DEF WebhookInv
  <2>4. OnlyRegistered'
    BY <2>1, ResumedTimers DEF WebhookInv, OnlyRegistered, At
  <2>5. PostedOnce' /\ SuccessComesBacked'
    BY <2>1 DEF WebhookInv, PostedOnce, SuccessComesBacked, SuccessIsBacked, Backed, At
  <2> QED BY <2>3, <2>4, <2>5 DEF WebhookInv
<1>4. ASSUME NEW d \in Deliveries, BackoffEnds(d) PROVE WebhookInv'
  <2> DEFINE r == [row[d] EXCEPT !.due = TRUE]
  <2>1. row[d] \in Row
    BY <1>1
  <2>2. r \in Row /\ r.status = row[d].status
    BY <2>1 DEF Row
  <2>3. /\ row' = [row EXCEPT ![d] = r]
        /\ UNCHANGED <<key, timers, work, call, deployed, registered, up, crashes, posts, accepted>>
    BY <1>1, <1>4 DEF BackoffEnds, control
  <2> HIDE DEF r
  <2> QED BY <1>1, <2>2, <2>3, CallEndpoints, PutUpKeeps
<1>5. ASSUME UNCHANGED webhookVars PROVE WebhookInv'
  <2>1. UNCHANGED <<row, key, timers, work, call, deployed, registered, up, crashes, posts, accepted>>
    BY <1>5 DEF webhookVars
  <2> QED BY <1>1, <2>1, CallEndpoints, PutUpKeeps
<1> QED BY <1>2, <1>3, <1>4, <1>5

-----------------------------------------------------------------------------
(* The theorems *)

\* Nothing announced, nothing attempted: the invariant holds at the start.
LEMMA WebhookInitInv == WebhookInit => WebhookInv
<1> SUFFICES ASSUME WebhookInit PROVE WebhookInv
  OBVIOUS
<1>1. /\ NoRow \in Row /\ NoRow.status = "absent"
      /\ Idle \in Attempt /\ Idle.pc = "idle"
      /\ NotMade \in Visit /\ NotMade.todo = {} /\ NotMade.missing = {}
  BY DEF NoRow, Row, RowStatus, Idle, Attempt, KeyStatus, NotMade, Visit
<1>2. /\ row = [d \in Deliveries |-> NoRow] /\ key = [e \in Events |-> "none"]
      /\ timers = [s \in Servers |-> [d \in Deliveries |-> 0]]
      /\ work = [s \in Servers |-> [d \in Deliveries |-> Idle]]
      /\ call = [c \in Calls |-> NotMade]
      /\ up = [s \in Servers |-> s \in deployed] /\ crashes = 0
      /\ posts = [s \in Servers |-> [d \in Deliveries |-> 0]] /\ accepted = {}
      /\ deployed \subseteq Servers /\ registered \subseteq Hooks
  BY DEF WebhookInit
<1>3. key \in [Events -> KeyStatus] /\ \A e \in Events : key[e] = "none"
  BY <1>2 DEF KeyStatus
<1>4. \A d \in Deliveries : d[1] \in Events
  BY WebhookTypes
<1>5. WebhookTypeOK
  <2>1. up \in [Servers -> BOOLEAN]
    <3>1. [s \in Servers |-> s \in deployed] \in [Servers -> BOOLEAN]
      OBVIOUS
    <3> QED BY <1>2, <3>1
  <2> QED BY <1>1, <1>2, <1>3, <2>1, WebhookTypes
<1>6. OnlyRegistered
  BY <1>1, <1>2 DEF OnlyRegistered, At
<1>7. PostedOnce
  BY <1>1, <1>2 DEF PostedOnce, At
<1>8. SuccessComesBacked
  BY <1>1, <1>2, <1>3 DEF SuccessComesBacked, SuccessIsBacked, At
<1> QED BY <1>5, <1>6, <1>7, <1>8 DEF WebhookInv

\* Every step of a server, an endpoint or the clock keeps the invariant.
LEMMA WebhookInvariance == WebhookSpec => []WebhookInv
<1>1. WebhookInv /\ [WebhookNext]_webhookVars => WebhookInv'
  BY CheckKeyStep, CreateKeyStep, MarkAndPostStep, RecordVerdictStep, RowStep,
     StartAttemptStep, VisitStep, AnnounceStep, CrashKeeps, TimeStep
  DEF WebhookNext, AttemptStep
<1> QED BY <1>1, WebhookInitInv, PTL DEF WebhookSpec

\* Deliveries, locks, attempts and their answers keep their types
\* (ClaimWebhookDispatcherService, executeWithIdempotency).
THEOREM WebhooksKeepTypes == WebhookSpec => []WebhookTypeOK
BY WebhookInvariance, PTL DEF WebhookInv

\* No timers, resumes, retries, duplicate announcements and crashes make a server
\* POST the same delivery twice (executeWithIdempotency, markAsProcessing).
THEOREM ServersPostOnce == WebhookSpec => []OnePostPerServer
<1>1. WebhookInv => OnePostPerServer
  BY DEF WebhookInv, PostedOnce, OnePostPerServer
<1> QED BY <1>1, WebhookInvariance, PTL

\* A delivery reported successful stands for an event that an endpoint of the
\* organization took (executeWithIdempotency, processDelivery).
THEOREM SuccessesAreBacked == WebhookSpec => []SuccessIsBacked
<1>1. WebhookInv => SuccessIsBacked
  BY DEF WebhookInv, SuccessComesBacked
<1> QED BY <1>1, WebhookInvariance, PTL
=============================================================================
