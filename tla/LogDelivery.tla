---------------------------- MODULE LogDelivery ----------------------------
(***************************************************************************)
(* Log events on their way from a target to Core's log.  In the target,    *)
(* bootstrap.js keeps a bounded queue, sends batches from its head through *)
(* a transport that renews the launch token, and retries what was not      *)
(* accepted.  Core (daemon.rs, ipc/src/lib.rs) checks the token, the plan  *)
(* and the rate before it appends.  Answers may be lost or late, appends   *)
(* may fail half way, Core may die at any time and be started again.       *)
(***************************************************************************)
EXTENDS LogStore

CONSTANTS Plugins,
          Forms,          \* of messages: "good", "unparsable", "invalid"
          QueueSize,      \* MAX_QUEUED_LOGS
          BatchSize,      \* MAX_LOG_BATCH
          Rate,           \* RATE_MAX_EVENTS
          MaxEvents,      \* bound: events logged by Runtime and plugins
          MaxTroubles     \* bound: faults, jumps of the clock, changes of the plan,
                          \* messages that Core does not take

ASSUME DeliveryAssumption ==
    /\ QueueSize \in Nat \ {0} /\ BatchSize \in Nat \ {0}
    /\ Rate \in Nat /\ Rate >= BatchSize
    /\ "good" \in Forms
    /\ MaxEvents \in Nat /\ MaxTroubles \in Nat

VARIABLES
    queue, dropped,     \* logQueue, droppedLogs
    timer,              \* logRetryTimer is set
    call,               \* the delivery under way (deliveringLogs)
    token, backoff, warned,   \* age of currentSecret; renewalRetryAt; renewalWarned
    wire,               \* requests that Core has not handled
    up, plan, used,     \* Core runs; plugins in the plan; the rate budget
    log,                \* the log store
    emitted, warnings, troubles, illFormed,   \* counters, for the bounds
    stored, lost, broken \* history: events written, events dropped, failed writes

clientVars == <<queue, dropped, timer, call, token, backoff, warned, emitted, warnings, lost>>
coreVars == <<up, plan, used, log, stored>>
bounds == <<troubles, illFormed, broken>>
vars == <<clientVars, coreVars, wire, bounds>>

(* Ages of a launch token: to 540 s, to 600 s, to 24 hours, and beyond.    *)
Fresh == 0
DueAge == 1
Expired == 2
Dead == 3
Older(age, by) == IF age + by > Dead THEN Dead ELSE age + by

Sources == Plugins \cup {"runtime"}
Awaited(r) == r.late = 0      \* a late request has nobody waiting for its answer
Trouble ==
    /\ troubles + illFormed < MaxTroubles
    /\ troubles' = troubles + 1 /\ UNCHANGED illFormed
Stream(event) == IF event.from = "runtime" THEN "runtime" ELSE "plugin"
Ids == 0..MaxEvents + MaxTroubles + 1
Events == [id : Ids, from : Sources, form : Forms]
Notice == [id |-> 0, from |-> "runtime", form |-> "good"]
Warning(n) == [id |-> MaxEvents + n, from |-> "runtime", form |-> "good"]

(* What is no record is a value of its own.                                *)
ASSUME LineAssumption ==
    Partial # Glued /\ {Partial, Glued} \cap [seq : Nat, event : Events] = {}

Waiting == {"renewing", "sent", "forcing", "resent"}
Calls == {"idle", "ensure", "send", "force", "resend"} \cup Waiting

(* Type invariant.  Every delivery that overlapped with a drop puts a       *)
(* notice in front, whatever the length, so the queue outgrows QueueSize.   *)
TypeOK ==
    /\ Len(queue) <= QueueSize + emitted + warnings /\ ToSet(queue) \subseteq Events
    /\ dropped \in Nat /\ timer \in BOOLEAN /\ backoff \in BOOLEAN /\ warned \in BOOLEAN
    /\ call.at \in Calls /\ Len(call.items) <= BatchSize /\ ToSet(call.items) \subseteq Events
    /\ (call.at = "idle") = (call.items = <<>>)
    /\ token \in Fresh..Dead
    /\ \A r \in wire : /\ r.method \in {"append", "renew"} /\ r.token \in Fresh..Dead
                       /\ Awaited(r) => call.at \in Waiting
    /\ up \in BOOLEAN /\ plan \subseteq Plugins /\ used \in 0..Rate
    /\ \A i \in Numbers : Len(log.files[i]) <= FileSize

Init ==
    /\ queue = <<>> /\ dropped = 0 /\ timer = FALSE
    /\ call = [at |-> "idle", items |-> <<>>]
    /\ token = Fresh /\ backoff = FALSE /\ warned = FALSE
    /\ wire = {} /\ up = TRUE /\ plan = Plugins /\ used = 0
    /\ log = [files |-> NoFiles, next |-> 1]
    /\ emitted = 0 /\ warnings = 0 /\ troubles = 0 /\ illFormed = 0
    /\ stored = <<>> /\ lost = {} /\ broken = {}

-----------------------------------------------------------------------------
(* The queue.                                                              *)

Pushed(q, event) == Append(IF Len(q) >= QueueSize THEN Tail(q) ELSE q, event)

(* enqueueLog; scheduleDelivery does nothing during a delivery.            *)
Enqueue(event) ==
    /\ queue' = Pushed(queue, event)
    /\ dropped' = dropped + IF Len(queue) >= QueueSize THEN 1 ELSE 0
    /\ lost' = lost \cup IF Len(queue) >= QueueSize THEN {Head(queue).id} ELSE {}
    /\ timer' = (timer \/ call.at = "idle")

(* runtimeLog, pluginLog.  boundedMessage may cut a surrogate pair in two,  *)
(* and what JSON.stringify writes for the half is no JSON to serde_json.   *)
Emit(source, form) ==
    /\ emitted < MaxEvents
    /\ emitted' = emitted + 1
    /\ Enqueue([id |-> emitted + 1, from |-> source, form |-> form])
    /\ IF form = "good" THEN UNCHANGED illFormed
       ELSE troubles + illFormed < MaxTroubles /\ illFormed' = illFormed + 1
    /\ UNCHANGED <<call, token, backoff, warned, warnings, wire, coreVars, troubles, broken>>

(* deliverLogs: the first events of the stream that is at the head.        *)
Selected ==
    LET same == Kept(queue, {e \in Events : Stream(e) = Stream(Head(queue))})
    IN SubSeq(same, 1, IF Len(same) < BatchSize THEN Len(same) ELSE BatchSize)

TimerFires ==
    /\ timer
    /\ timer' = FALSE
    /\ IF queue = <<>> THEN UNCHANGED call
       ELSE call' = [at |-> "ensure", items |-> Selected]
    /\ UNCHANGED <<queue, dropped, token, backoff, warned, emitted, warnings, lost, wire,
                   coreVars, bounds>>

(* Faulty variant: the timer is set when a delivery succeeds only.         *)
FailedWithoutTimer ==
    /\ call' = [at |-> "idle", items |-> <<>>]
    /\ UNCHANGED <<queue, dropped, timer, lost>>

(* What becomes of a delivery.  A failure changes nothing; a success takes  *)
(* the batch out of the queue and may put a notice of what was dropped in  *)
(* front.                                                                  *)
Failed ==
    /\ call' = [at |-> "idle", items |-> <<>>]
    /\ timer' = (queue # <<>>)
    /\ UNCHANGED <<queue, dropped, lost>>

(* Faulty variant: as many events as the batch had are taken from the head. *)
AcceptedByCount ==
    LET left == SubSeq(queue, Len(call.items) + 1, Len(queue)) IN
    /\ call' = [at |-> "idle", items |-> <<>>]
    /\ queue' = IF dropped > 0 THEN <<Notice>> \o left ELSE left
    /\ dropped' = 0
    /\ timer' = (queue' # <<>>)
    /\ UNCHANGED lost

Accepted ==
    LET left == Kept(queue, Events \ ToSet(call.items)) IN
    /\ call' = [at |-> "idle", items |-> <<>>]
    /\ queue' = IF dropped > 0 THEN <<Notice>> \o left ELSE left
    /\ dropped' = 0
    /\ timer' = (queue' # <<>>)
    /\ UNCHANGED lost

-----------------------------------------------------------------------------
(* The transport (buildTransport).  Renewals go through one chain, so no   *)
(* other caller renews while this one does.                                *)
Due == token # Fresh /\ ~backoff
At(place) == call' = [call EXCEPT !.at = place]
Request(method) ==
    [method |-> method, items |-> call.items, token |-> token, late |-> 0]

(* noteRenewalFailure: no more attempts for a while, and one warning.      *)
RenewalFails ==
    /\ backoff' = TRUE /\ warned' = TRUE
    /\ IF warned THEN UNCHANGED <<queue, dropped, lost, warnings>>
       ELSE /\ warnings' = warnings + 1
            /\ queue' = Pushed(queue, Warning(warnings'))
            /\ dropped' = dropped + IF Len(queue) >= QueueSize THEN 1 ELSE 0
            /\ lost' = lost \cup IF Len(queue) >= QueueSize THEN {Head(queue).id} ELSE {}

RenewalSucceeds ==
    /\ token' = Fresh /\ backoff' = FALSE /\ warned' = FALSE
    /\ UNCHANGED <<queue, dropped, lost, warnings>>

(* After a renewal: the request is sent in any case, or, in the recovery   *)
(* from -32001, only with a new token.                                     *)
AfterRenewal(renewed) ==
    IF call.at = "renewing" THEN At("send") /\ UNCHANGED timer
    ELSE IF renewed THEN At("resend") /\ UNCHANGED timer
    ELSE call' = [at |-> "idle", items |-> <<>>] /\ timer' = TRUE

(* ensureFreshSecret(false): renews when due.                              *)
Ensure ==
    /\ call.at = "ensure" /\ Due /\ up
    /\ At("renewing")
    /\ wire' = wire \cup {Request("renew")}
    /\ UNCHANGED <<queue, dropped, timer, token, backoff, warned, emitted, warnings, lost,
                   coreVars, bounds>>

(* ensureFreshSecret(true), after an answer -32001.                        *)
ForceRenewal ==
    /\ call.at = "force"
    /\ IF backoff THEN Failed /\ UNCHANGED wire
       ELSE /\ up /\ At("forcing") /\ wire' = wire \cup {Request("renew")}
            /\ UNCHANGED <<queue, dropped, timer, lost>>
    /\ UNCHANGED <<token, backoff, warned, emitted, warnings, coreVars, bounds>>

(* A renewal finds no Core: the connection is refused.                     *)
RenewalRefused ==
    /\ ~up
    /\ \/ call.at = "ensure" /\ Due /\ At("send") /\ UNCHANGED timer
       \/ call.at = "force" /\ ~backoff /\ AfterRenewal(FALSE)
    /\ RenewalFails
    /\ UNCHANGED <<token, emitted, wire, coreVars, bounds>>

(* attempt: one request with the current token.                            *)
Send ==
    /\ \/ call.at \in {"send", "resend"}
       \/ call.at = "ensure" /\ ~Due
    /\ IF up THEN /\ At(IF call.at = "resend" THEN "resent" ELSE "sent")
                  /\ wire' = wire \cup {Request("append")}
                  /\ UNCHANGED <<queue, dropped, timer, lost>>
             ELSE Failed /\ UNCHANGED wire
    /\ UNCHANGED <<token, backoff, warned, emitted, warnings, coreVars, bounds>>

(* The plan poll and the host APIs use the same transport.                 *)
OtherRenewal ==
    /\ Due /\ call.at \notin {"renewing", "forcing"}
    /\ IF up /\ token # Dead THEN RenewalSucceeds /\ UNCHANGED timer
       ELSE RenewalFails /\ UNCHANGED token /\ timer' = (timer \/ call.at = "idle")
    /\ UNCHANGED <<call, emitted, wire, coreVars, bounds>>

BackoffEnds ==
    /\ backoff
    /\ backoff' = FALSE
    /\ UNCHANGED <<queue, dropped, timer, call, token, warned, emitted, warnings, lost, wire,
                   coreVars, bounds>>

(* Time passes for every token, or the target was suspended.              *)
Age ==
    /\ token # Dead
    /\ Trouble
    /\ \E by \in 1..Dead :
          /\ token' = Older(token, by)
          /\ wire' = {[r EXCEPT !.token = Older(@, by)] : r \in wire}
    /\ UNCHANGED <<queue, dropped, timer, call, backoff, warned, emitted, warnings, lost,
                   coreVars, broken>>

-----------------------------------------------------------------------------
(* Core's answers as the client sees them.                                 *)
Awaiting == {r \in wire : Awaited(r)}

(* An error other than -32001 is left to the retry.                        *)
Answer(r, what) ==
    IF ~Awaited(r) THEN UNCHANGED clientVars
    ELSE /\ UNCHANGED emitted
         /\ IF r.method = "renew"
              THEN /\ IF what = "ok" THEN RenewalSucceeds
                      ELSE RenewalFails /\ UNCHANGED token
                   /\ AfterRenewal(what = "ok")
              ELSE /\ UNCHANGED <<token, backoff, warned, warnings>>
                   /\ CASE what = "ok" -> Accepted
                        [] what = "unauthorized" /\ call.at = "sent" ->
                             At("force") /\ UNCHANGED <<queue, dropped, timer, lost>>
                        [] OTHER -> Failed

Handled(r) == wire' = wire \ {r}

(* handle_request, renewSession: signed by us and less than 24 hours old.  *)
Renew(r) ==
    /\ up /\ r \in wire /\ r.method = "renew"
    /\ Answer(r, IF r.token # Dead THEN "ok" ELSE "unauthorized")
    /\ Handled(r)
    /\ UNCHANGED <<coreVars, bounds>>

Authorized(r) == r.token \in Fresh..DueAge

(* append_plugin_logs: every event's plugin must be in the current plan.   *)
InPlan(r) == \A e \in ToSet(r.items) : e.from \in plan \cup {"runtime"}

(* log_rate_available. *)
WithinRate(r) == used + Len(r.items) <= Rate

(* One message is enough for the whole frame not to be parsed (-32700,     *)
(* before anything else), or for the batch to have invalid parameters      *)
(* (-32602: more than 16 events or 1024 bytes, an unknown level).          *)
Parsed(r) == \A e \in ToSet(r.items) : e.form # "unparsable"
Valid(r) == \A e \in ToSet(r.items) : e.form # "invalid"

Acceptable(r) == Parsed(r) /\ Authorized(r) /\ Valid(r) /\ InPlan(r) /\ WithinRate(r)

Reject(r) ==
    /\ up /\ r \in wire /\ r.method = "append" /\ ~Acceptable(r)
    /\ Answer(r, IF Parsed(r) /\ ~Authorized(r) THEN "unauthorized" ELSE "error")
    /\ Handled(r)
    /\ UNCHANGED <<coreVars, bounds>>

(* append_runtime_logs, append_plugin_logs: the whole batch is written.    *)
AppendBatch(r) ==
    /\ up /\ r \in wire /\ r.method = "append" /\ Acceptable(r)
    /\ log' = AppendedAll(log, r.items)
    /\ stored' = stored \o r.items
    /\ used' = used + Len(r.items)
    /\ Handled(r)
    /\ Answer(r, "ok")
    /\ UNCHANGED <<up, plan, bounds>>

(* An append fails: what precedes it stays, the budget is not charged.     *)
AppendBreaks(r) ==
    /\ up /\ r \in wire /\ r.method = "append" /\ Acceptable(r)
    /\ \E n \in 0..Len(r.items) - 1, failure \in Failures, steps \in 0..Archives + 1 :
          LET before == SubSeq(r.items, 1, n)
              event == r.items[n + 1]
              whole == AppendedAll(log, before)
          IN /\ IF failure = "rotation" THEN MustRotate(whole.files) ELSE steps = 0
             /\ log' = AppendFailed(whole, event, failure, steps)
             /\ stored' = stored \o before
                          \o IF failure = "unsynced" THEN <<event>> ELSE <<>>
             /\ Trouble /\ broken' = broken \cup {failure}
    /\ Handled(r)
    /\ Answer(r, "error")
    /\ UNCHANGED <<up, plan, used>>

(* The request is handled, but the client does not hear of it in time: the *)
(* answer is lost, or the client stopped waiting (sock.setTimeout).        *)
GivesUp(r) ==
    /\ r \in Awaiting
    /\ Trouble
    /\ Answer(r, "error")
    /\ wire' = (wire \ {r}) \cup {[r EXCEPT !.late = troubles']}
    /\ UNCHANGED <<coreVars, broken>>

(* Core dies, in the middle of a batch if there is one, with its last line *)
(* written or not.  A connection that is reset is an error; one that is    *)
(* closed without an answer is not listened for: the call hangs.           *)
Crash ==
    /\ up /\ up' = FALSE
    /\ Trouble
    /\ \/ UNCHANGED <<log, stored>>
       \/ \E r \in wire :
             /\ r.method = "append" /\ Acceptable(r)
             /\ \E n \in 0..Len(r.items), line \in BOOLEAN :
                   LET before == SubSeq(r.items, 1, n)
                       whole == AppendedAll(log, before)
                   IN /\ log' = IF line /\ n < Len(r.items)
                                THEN Writes([whole EXCEPT !.files = Room(@)], Partial)
                                ELSE whole
                      /\ stored' = stored \o before
    /\ wire' = {}
    /\ \/ \E r \in Awaiting : Answer(r, "error")
       \/ UNCHANGED clientVars
    /\ UNCHANGED <<plan, used, broken>>

(* LogStore::new; the rate budget was in memory.                           *)
Restart ==
    /\ ~up /\ up' = TRUE
    /\ used' = 0
    /\ \E kept \in SUBSET {i \in Numbers \ {0} : ~Sound(log.files[i])} : log' = Recovered(log, kept)
    /\ UNCHANGED <<plan, stored, clientVars, wire, bounds>>

(* The window of the rate limit passes. *)
WindowPasses ==
    /\ used > 0
    /\ used' = 0
    /\ UNCHANGED <<up, plan, log, stored, clientVars, wire, bounds>>

PlanChanges ==
    /\ Trouble
    /\ plan' \in SUBSET Plugins \ {plan}
    /\ UNCHANGED <<up, used, log, stored, clientVars, wire, broken>>

Next ==
    \/ \E source \in Sources, form \in Forms : Emit(source, form)
    \/ TimerFires \/ Ensure \/ ForceRenewal \/ RenewalRefused \/ Send
    \/ OtherRenewal \/ BackoffEnds \/ Age
    \/ \E r \in wire : \/ Renew(r) \/ Reject(r) \/ AppendBatch(r) \/ AppendBreaks(r)
                       \/ GivesUp(r)
    \/ Crash \/ Restart \/ WindowPasses \/ PlanChanges

Spec == Init /\ [][Next]_vars

(* Timers fire, the client takes its next step, Core handles a request     *)
(* that someone waits for, and the window of the rate limit passes.        *)
HandleAwaited == \E r \in Awaiting : Renew(r) \/ Reject(r) \/ AppendBatch(r)

FairSpec ==
    /\ Spec
    /\ WF_vars(TimerFires)
    /\ WF_vars(Ensure \/ ForceRenewal \/ RenewalRefused \/ Send)
    /\ WF_vars(BackoffEnds) /\ WF_vars(HandleAwaited) /\ SF_vars(WindowPasses)

-----------------------------------------------------------------------------
(* The second was logged earlier, to the same stream. *)
Overtaken(x, y) ==
    Stream(x) = Stream(y) /\ 0 < y.id /\ y.id < x.id /\ x.id <= emitted

Queued(id) == \E i \in DOMAIN queue : queue[i].id = id
Written(id) == {i \in DOMAIN stored : stored[i].id = id}

(* An event leaves the queue only by being written to Core's log or by     *)
(* being counted as dropped; an event that is not dropped is first written *)
(* before the later ones of its stream; and it is written again only after *)
(* something went wrong: the retry after -32001 "cannot double-append"     *)
(* (bootstrap.js:229).                                                     *)
DeliveredInOrder ==
    /\ \A id \in 1..emitted : Queued(id) \/ id \in lost \/ Written(id) # {}
    /\ \A i, k \in DOMAIN stored :
          i < k /\ Overtaken(stored[i], stored[k]) =>
             \/ stored[k].id \in lost
             \/ \E first \in Written(stored[k].id) : first < i
    /\ \A id \in 1..emitted : Cardinality(Written(id)) <= 1 + troubles

(* What was written stays, in the order in which it was written, until     *)
(* rotation removes it from the old end, and sequences increase; a line    *)
(* cut short by a failed write (not by a crash) may take others with it,   *)
(* and a failed sync leaves a number to be used twice.                     *)
LogKept ==
    /\ "partial" \notin broken =>
          /\ IsSuffix([i \in DOMAIN Records(log) |-> Records(log)[i].event], stored)
          /\ Queryable(log)
    /\ broken \cap {"partial", "unsynced"} = {} =>
          \A i, k \in DOMAIN Records(log) : i < k => Records(log)[i].seq < Records(log)[k].seq

(* Core refuses the event, and the batch it is in, each time.              *)
Refused(e) == e.form # "good" \/ e.from \notin plan \cup {"runtime"}
Blocked == \E e \in ToSet(Selected) : Refused(e)
Hung == call.at \in Waiting /\ Awaiting = {}

(* Once the logging has stopped the queue is emptied, or it is blocked by  *)
(* an event at its head that Core does not take (there is no way past it), *)
(* provided that from some time on Core runs, the plan stays as it is, the *)
(* token can be renewed and no request hangs.                              *)
QueueDrains ==
    <>[](up /\ token # Dead /\ ~Hung) /\ <>[][UNCHANGED plan]_vars
        => <>[](queue = <<>> \/ Blocked)

=============================================================================
