---------------------------- MODULE WebhookDelivery ----------------------------
(***************************************************************************)
(* Claim webhooks: the dispatcher of every server                          *)
(* (backend/src/services/claimWebhookDispatcherService.js) over the        *)
(* delivery table and the idempotency keys of                              *)
(* backend/src/services/idempotencyKeyService.js.                          *)
(*                                                                         *)
(* One claim event has one delivery per registered endpoint and ONE        *)
(* idempotency key, its event key.  Every await of a delivery is a step of *)
(* its own, so the attempts of different endpoints and servers interleave  *)
(* between the look at the key and the verdict that is written to it.      *)
(***************************************************************************)
EXTENDS Integers, FiniteSets

CONSTANTS
    Servers,
    Events,         \* claim events, by event_id
    Hooks,          \* webhook endpoints an organization may have
    Calls,          \* bound: calls of enqueueTokensClaimedEvent()
    MaxVisits,      \* bound: endpoints that the calls visit, taken together
    RetryLimit,
    MaxCrashes,     \* bound
    MaxTimers       \* bound: resumes of one delivery that wait at one server

ASSUME WebhookAssumption ==
    /\ RetryLimit \in Nat \ {0}
    /\ IsFiniteSet(Hooks) /\ IsFiniteSet(Calls)
    /\ MaxVisits \in Nat /\ MaxCrashes \in Nat /\ MaxTimers \in Nat \ {0}

Deliveries == Events \X Hooks

VARIABLES
    deployed,   \* the servers there are; never changes
    registered, \* OrganizationWebhook: the organization's endpoints; never changes
    row,        \* claim_webhook_deliveries: status, attempt_count, next_attempt_at reached
    key,        \* idempotency_keys: the status of each event's record
    timers,     \* setTimeout()s of each server, per delivery
    work,       \* processDelivery() of each server, per delivery
    call,       \* each call's server, the deliveries ahead of it and the one it creates
    up, crashes,
    posts,      \* POSTs each server sent for each delivery
    accepted    \* deliveries whose endpoint has answered 2xx

webhookVars == <<deployed, registered, row, key, timers, work, call, up, crashes, posts, accepted>>
tables == <<row, key>>
control == <<deployed, registered, up, crashes>>

NoRow == [status |-> "absent", attempts |-> 0, due |-> FALSE]
Idle == [pc |-> "idle", attempt |-> 0]
NotMade == [state |-> "not made", at |-> {}, todo |-> {}, missing |-> {}]
Over == [NotMade EXCEPT !.state = "over"]

WebhookInit ==
    /\ deployed \in SUBSET Servers \ {{}}
    /\ registered \in SUBSET Hooks \ {{}}
    /\ row = [d \in Deliveries |-> NoRow]
    /\ key = [e \in Events |-> "none"]
    /\ timers = [s \in Servers |-> [d \in Deliveries |-> 0]]
    /\ work = [s \in Servers |-> [d \in Deliveries |-> Idle]]
    /\ call = [c \in Calls |-> NotMade]
    /\ up = [s \in Servers |-> s \in deployed]
    /\ crashes = 0
    /\ posts = [s \in Servers |-> [d \in Deliveries |-> 0]]
    /\ accepted = {}

\* scheduleDelivery(): one more timer.  When it fires is left open.
Schedule(s, d) == timers' = [timers EXCEPT ![s][d] = @ + 1]
At(s, d, pc) == work[s][d].pc = pc
Goto(s, d, pc) == work' = [work EXCEPT ![s][d].pc = pc]

-----------------------------------------------------------------------------
(* enqueueTokensClaimedEvent() *)

\* The endpoints are read once; then they are visited one after the other.
Announce(c, s, e) ==
    /\ up[s] /\ call[c].state = "not made"
    /\ (1 + Cardinality({k \in Calls : call[k].state # "not made"})) * Cardinality(registered)
          <= MaxVisits
    /\ call' = [call EXCEPT ![c] = [state |-> "running", at |-> {s},
                                    todo |-> {e} \X registered, missing |-> {}]]
    /\ UNCHANGED <<tables, timers, work, control, posts, accepted>>

\* The call goes on to its next endpoint, or returns.
GoOn(c, d) ==
    LET rest == call[c].todo \ {d}
    IN  call' = [call EXCEPT ![c] = IF rest = {} THEN Over ELSE [@ EXCEPT !.todo = rest, !.missing = {}]]

\* The delivery is put up for an attempt, or skipped: the endpoint's URL of the
\* moment is no https URL.
PutUp(c, d) ==
    \/ /\ row' = [row EXCEPT ![d].status = "skipped"]
       /\ UNCHANGED timers
    \/ /\ row' = [row EXCEPT ![d].due = TRUE, ![d].status = IF @ = "absent" THEN "pending" ELSE @]
       /\ \E s \in call[c].at : Schedule(s, d)

\* findOne() of the next endpoint's delivery.  A settled one, or one whose key has
\* left `pending', is passed over.
LookUpDelivery(c, d) ==
    /\ d \in call[c].todo /\ call[c].missing = {}
    /\ \/ /\ row[d].status = "absent"
          /\ call' = [call EXCEPT ![c].missing = {d}]
          /\ UNCHANGED <<row, timers>>
       \/ /\ row[d].status # "absent"
          /\ row[d].status \in {"success", "skipped"} \/ key[d[1]] \notin {"none", "pending"}
          /\ GoOn(c, d)
          /\ UNCHANGED <<row, timers>>
       \/ /\ row[d].status \in {"pending", "retrying", "failed"} /\ key[d[1]] \in {"none", "pending"}
          /\ GoOn(c, d)
          /\ PutUp(c, d)
    /\ UNCHANGED <<key, work, control, posts, accepted>>

\* create().  If another call created the row meanwhile the unique index refuses this
\* one: the call throws and gives up the endpoints ahead of it.
CreateDelivery(c, d) ==
    /\ call[c].missing = {d}
    /\ \/ /\ row[d].status # "absent"
          /\ call' = [call EXCEPT ![c] = Over]
          /\ UNCHANGED <<row, timers>>
       \/ /\ row[d].status = "absent"
          /\ GoOn(c, d)
          /\ PutUp(c, d)
    /\ UNCHANGED <<key, work, control, posts, accepted>>

-----------------------------------------------------------------------------
(* processDelivery() and executeWithIdempotency() *)

\* A timer fires.  One attempt at a time per delivery and server; a settled row ends it.
StartAttempt(s, d) ==
    /\ timers[s][d] > 0
    /\ timers' = [timers EXCEPT ![s][d] = @ - 1]
    /\ IF At(s, d, "idle") /\ row[d].status \notin {"absent", "success", "skipped"}
       THEN work' = [work EXCEPT ![s][d] =
                         [pc |-> "check", attempt |-> row[d].attempts + 1]]
       ELSE UNCHANGED work
    /\ UNCHANGED <<tables, call, control, posts, accepted>>

\* Mutants: a key that failed is tried again; one in progress counts as done.
Verdict_RetriesFailed(d) ==
    CASE key[d[1]] = "completed" -> "rowOk"
      [] key[d[1]] = "processing" -> "rowFail"
      [] OTHER -> "create"
Verdict_InProgressIsDone(d) ==
    CASE key[d[1]] \in {"completed", "processing"} -> "rowOk"
      [] key[d[1]] = "failed" -> "rowFail"
      [] OTHER -> "create"

\* Where the key's status sends the attempt: a completed key is a success from the
\* cache; one in progress or failed is an error.
Verdict(d) ==
    CASE key[d[1]] = "completed" -> "rowOk"
      [] key[d[1]] \in {"processing", "failed"} -> "rowFail"
      [] OTHER -> "create"

CheckKey(s, d) ==
    /\ At(s, d, "check")
    /\ work' = [work EXCEPT ![s][d].pc = Verdict(d)]
    /\ UNCHANGED <<tables, timers, call, control, posts, accepted>>

\* createIdempotencyKey().  A key that is there is taken as it is, or the call throws:
\* its findOne() ran before the insert of another attempt, or the payload differs from
\* the one the key was made for (an event without a time is announced with the present).
CreateKey(s, d) ==
    /\ At(s, d, "create")
    /\ \/ /\ key[d[1]] = "none"
          /\ key' = [key EXCEPT ![d[1]] = "pending"]
          /\ Goto(s, d, "mark")
       \/ /\ key[d[1]] # "none"
          /\ Goto(s, d, "mark") \/ Goto(s, d, "rowFail")
          /\ UNCHANGED key
    /\ UNCHANGED <<row, timers, call, control, posts, accepted>>

\* markAsProcessing() only updates a pending record, and nobody reads its answer.
Claimed(status) == IF status = "pending" THEN "processing" ELSE status

\* ... and the operation it guards, axios.post(): answered 2xx; refused or timed out
\* before the endpoint took it; or taken by the endpoint with the answer lost.  No
\* step of another attempt reads what the POST changes, so it is joined to the mark.
MarkAndPost(s, d) ==
    /\ At(s, d, "mark")
    /\ key' = [key EXCEPT ![d[1]] = Claimed(@)]
    /\ posts' = [posts EXCEPT ![s][d] = @ + 1]
    /\ \/ accepted' = accepted \union {d} /\ Goto(s, d, "completed")
       \/ accepted' \in {accepted, accepted \union {d}} /\ Goto(s, d, "failed")
    /\ UNCHANGED <<row, timers, call, control>>

\* markAsCompleted() and markAsFailed() overwrite whatever the record says.
RecordVerdict(s, d) ==
    /\ At(s, d, "completed") \/ At(s, d, "failed")
    /\ key' = [key EXCEPT ![d[1]] = work[s][d].pc]
    /\ Goto(s, d, IF At(s, d, "completed") THEN "rowOk" ELSE "rowFail")
    /\ UNCHANGED <<row, timers, call, control, posts, accepted>>

\* Mutant: a failure is not counted.
Failed_NotCounted(attempt) ==
    IF attempt < RetryLimit
    THEN [status |-> "retrying", attempts |-> 0, due |-> FALSE]
    ELSE [status |-> "failed", attempts |-> attempt, due |-> TRUE]

\* The row's updates name only its id: they overwrite what other servers wrote.
Succeeded(attempt) == [status |-> "success", attempts |-> attempt, due |-> TRUE]
Failed(attempt) ==
    IF attempt < RetryLimit
    THEN [status |-> "retrying", attempts |-> attempt, due |-> FALSE]
    ELSE [status |-> "failed", attempts |-> attempt, due |-> TRUE]

RecordSuccess(s, d) ==
    /\ At(s, d, "rowOk")
    /\ row' = [row EXCEPT ![d] = Succeeded(work[s][d].attempt)]
    /\ work' = [work EXCEPT ![s][d] = Idle]
    /\ UNCHANGED <<key, timers, call, control, posts, accepted>>

\* A delivery that is tried again gets its timer.
RecordFailure(s, d) ==
    /\ At(s, d, "rowFail")
    /\ row' = [row EXCEPT ![d] = Failed(work[s][d].attempt)]
    /\ IF row'[d].status = "retrying" THEN Schedule(s, d) ELSE UNCHANGED timers
    /\ work' = [work EXCEPT ![s][d] = Idle]
    /\ UNCHANGED <<key, call, control, posts, accepted>>

-----------------------------------------------------------------------------
(* Time, restarts *)

\* next_attempt_at is reached.
BackoffEnds(d) ==
    /\ ~row[d].due /\ row[d].status = "retrying"
    /\ row' = [row EXCEPT ![d].due = TRUE]
    /\ UNCHANGED <<key, timers, work, call, control, posts, accepted>>

\* resumePendingDeliveries() schedules every delivery that is due, its own running ones too.
Resumable == {d \in Deliveries : row[d].status \in {"pending", "retrying"} /\ row[d].due}
Resumed(s) == [timers EXCEPT ![s] = [d \in Deliveries |-> @[d] + IF d \in Resumable THEN 1 ELSE 0]]

\* The 60 s interval of start().
ResumePendingDeliveries(s) ==
    /\ up[s] /\ Resumable # {}
    /\ \A d \in Resumable : timers[s][d] < MaxTimers
    /\ timers' = Resumed(s)
    /\ UNCHANGED <<tables, work, call, control, posts, accepted>>

\* A server dies at any await and loses its timers, attempts and loop.
Crash(s) ==
    /\ up[s] /\ crashes < MaxCrashes
    /\ crashes' = crashes + 1
    /\ up' = [up EXCEPT ![s] = FALSE]
    /\ timers' = [timers EXCEPT ![s] = [d \in Deliveries |-> 0]]
    /\ work' = [work EXCEPT ![s] = [d \in Deliveries |-> Idle]]
    /\ call' = [c \in Calls |-> IF s \in call[c].at THEN Over ELSE call[c]]
    /\ UNCHANGED <<deployed, registered, tables, posts, accepted>>

\* start() resumes at once.
Restart(s) ==
    /\ s \in deployed /\ ~up[s]
    /\ up' = [up EXCEPT ![s] = TRUE]
    /\ timers' = Resumed(s)
    /\ UNCHANGED <<deployed, registered, tables, work, call, crashes, posts, accepted>>

-----------------------------------------------------------------------------

AttemptStep(s, d) ==
    \/ CheckKey(s, d) \/ CreateKey(s, d) \/ MarkAndPost(s, d)
    \/ RecordVerdict(s, d) \/ RecordSuccess(s, d) \/ RecordFailure(s, d)

WebhookNext ==
    \/ \E s \in Servers : ResumePendingDeliveries(s) \/ Crash(s) \/ Restart(s)
    \/ \E c \in Calls, s \in Servers, e \in Events : Announce(c, s, e)
    \/ \E c \in Calls, d \in Deliveries : LookUpDelivery(c, d) \/ CreateDelivery(c, d)
    \/ \E s \in Servers, d \in Deliveries : StartAttempt(s, d) \/ AttemptStep(s, d)
    \/ \E d \in Deliveries : BackoffEnds(d)

\* Timers fire, axios has a timeout, the interval ticks and a container that died
\* is restarted.
WebhookFairness ==
    /\ \A s \in Servers : WF_webhookVars(ResumePendingDeliveries(s)) /\ WF_webhookVars(Restart(s))
    /\ \A s \in Servers, d \in Deliveries :
          WF_webhookVars(StartAttempt(s, d)) /\ WF_webhookVars(AttemptStep(s, d))
    /\ \A d \in Deliveries : WF_webhookVars(BackoffEnds(d))

WebhookSpec == WebhookInit /\ [][WebhookNext]_webhookVars /\ WebhookFairness

-----------------------------------------------------------------------------
(* Properties *)

\* Rows, keys and attempts have the shape their tables and locals give them.
WebhookTypeOK ==
    /\ deployed \subseteq Servers /\ registered \subseteq Hooks
    /\ row \in [Deliveries -> [status : {"absent", "pending", "retrying", "success", "failed", "skipped"},
                               attempts : Nat, due : BOOLEAN]]
    /\ key \in [Events -> {"none", "pending", "processing", "completed", "failed"}]
    /\ timers \in [Servers -> [Deliveries -> Nat]]
    /\ work \in [Servers -> [Deliveries ->
           [pc : {"idle", "check", "create", "mark", "completed", "failed", "rowOk", "rowFail"},
            attempt : Nat]]]
    /\ call \in [Calls -> [state : {"not made", "running", "over"}, at : SUBSET Servers,
                            todo : SUBSET Deliveries, missing : SUBSET Deliveries]]
    /\ up \in [Servers -> BOOLEAN]
    /\ crashes \in Nat
    /\ posts \in [Servers -> [Deliveries -> Nat]]
    /\ accepted \subseteq Deliveries

\* A delivery is reported successful only if some endpoint took the same event:
\* all that the shared key lets the code promise, whatever attempts overlap, crash
\* or time out.
SuccessIsBacked ==
    \A d \in Deliveries : row[d].status = "success" => \E h \in registered : <<d[1], h>> \in accepted

\* No server sends an endpoint the same claim twice,
\* whatever timers, resumes, retries, duplicate announcements and crashes do.
OnePostPerServer ==
    \A s \in Servers, d \in Deliveries : posts[s][d] <= 1

\* Every delivery that was taken up is settled in the end.
DeliveriesSettle ==
    \A d \in Deliveries :
        row[d].status \in {"pending", "retrying"} ~> row[d].status \in {"success", "failed", "skipped"}

\* Refuted: a delivery reported successful was taken by its own endpoint.
SuccessMeansDelivered ==
    \A d \in Deliveries : row[d].status = "success" => d \in accepted
=============================================================================
