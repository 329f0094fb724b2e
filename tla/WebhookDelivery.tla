-------------------------- MODULE WebhookDelivery --------------------------
(***************************************************************************)
(* Outbound webhooks: internal/webhook over database/webhook.go.  A worker *)
(* runs two loops.  The fan-out reads the audit log past a durable cursor  *)
(* and enqueues one delivery per (subscription, event).  The delivery loop *)
(* lists what is due, POSTs it and records the outcome.                    *)
(*                                                                         *)
(* A worker is a leader-elected job; at a handover the old and the new one *)
(* may overlap, so there may be several of each loop.  The loops share     *)
(* nothing but the tables, so they are separate processes here.  A         *)
(* backed-off delivery is due at any later time: the clock is abstracted.  *)
(***************************************************************************)
EXTENDS Naturals, FiniteSets

CONSTANTS FanOuts,      \* the goroutines running runFanOut
          Deliverers,   \* the goroutines running runDelivery
          Subs,
          MaxSeq,       \* bound on the length of the audit log
          Scenarios     \* the configurations conf ranges over

\* A scenario: the loops that run; the subscriptions an operator may send a test
\* delivery to; whether the fan-out has ever run before; the bound on the log;
\* BatchSize and MaxAttempts; the bound on failed statements and worker deaths.
ASSUME WebhookConstants ==
    /\ MaxSeq \in Nat /\ IsFiniteSet(Deliverers)
    /\ \A c \in Scenarios :
          /\ c.fanouts \subseteq FanOuts /\ c.deliverers \subseteq Deliverers
          /\ c.testable \subseteq Subs /\ c.seeded \in BOOLEAN
          /\ c.seq \in 0 .. MaxSeq /\ c.errors \in Nat
          /\ c.batch \in Nat \ {0} /\ c.attempts \in Nat \ {0}

\* A delivery is identified by UNIQUE(subscription_id, event_seq).  Sequence 0
\* stands for the negative sequence number of a test delivery.
Keys == Subs \X (0 .. MaxSeq)

VARIABLES conf,
          head,      \* MaxEventSeq; every event matches every subscription
          cursor,    \* webhook_fanout_cursor: its row, {} before it is seeded
          sub,       \* webhook_subscriptions
          canceling, \* subscriptions whose disabling has yet to cancel
          row,       \* status column of webhook_deliveries, "none" without a row
          attempts,  \* its attempts column
          fpc, cur, last, todo,  \* the fan-out loop of each worker
          dpc, due, item, ok,    \* the delivery loop of each worker
          posts,     \* POSTs made, counted up to the budget
          acked,     \* the endpoint answered 2xx
          owed,      \* committed to the log since the subscription was enabled
          errors

log == <<head, cursor>>
subs == <<sub, canceling>>
queue == <<row, attempts>>
fan == <<fpc, cur, last, todo>>
dlv == <<dpc, due, item, ok>>
sent == <<posts, acked>>
vars == <<conf, log, subs, queue, fan, dlv, sent, owed, errors>>

Init ==
    /\ conf \in Scenarios
    /\ head = 0
    /\ cursor = IF conf.seeded THEN {0} ELSE {}
    /\ sub = [s \in Subs |-> "enabled"]
    /\ canceling = {}
    /\ row = [k \in Keys |-> "none"]
    /\ attempts = [k \in Keys |-> 0]
    /\ fpc = [w \in FanOuts |-> "off"]
    /\ cur = [w \in FanOuts |-> 0]
    /\ last = [w \in FanOuts |-> 0]
    /\ todo = [w \in FanOuts |-> {}]
    /\ dpc = [w \in Deliverers |-> "off"]
    /\ due = [w \in Deliverers |-> {}]
    /\ item = [w \in Deliverers |-> {}]
    /\ ok = [w \in Deliverers |-> FALSE]
    /\ posts = [k \in Keys |-> 0]
    /\ acked = [k \in Keys |-> FALSE]
    /\ owed = {}
    /\ errors = 0

-----------------------------------------------------------------------------
(* The audit log and the operators.                                        *)

\* AppendEvent.  Once the fan-out is initialized, every enabled subscription
\* is owed the event.
CommitEvent ==
    /\ head < conf.seq
    /\ head' = head + 1
    /\ owed' = owed \union {k \in Keys : /\ cursor # {}
                                         /\ sub[k[1]] = "enabled" /\ k[2] = head + 1}
    /\ UNCHANGED <<conf, cursor, subs, queue, fan, dlv, sent, errors>>

NothingOwed(s) == owed' = {k \in owed : k[1] # s}

\* setWebhookEnabled(false): the flag first, the pending deliveries after it.
Disable(s) ==
    /\ sub[s] # "deleted"
    /\ sub' = [sub EXCEPT ![s] = "disabled"]
    /\ canceling' = canceling \union {s}
    /\ NothingOwed(s)
    /\ UNCHANGED <<conf, log, queue, fan, dlv, sent, errors>>

CancelPendingWebhookDeliveries(s) ==
    row' = [k \in Keys |-> IF k[1] = s /\ row[k] = "pending" THEN "canceled" ELSE row[k]]

CancelAfterDisable(s) ==
    /\ s \in canceling
    /\ canceling' = canceling \ {s}
    /\ CancelPendingWebhookDeliveries(s)
    /\ UNCHANGED <<conf, log, sub, attempts, fan, dlv, sent, owed, errors>>

\* A failed cancellation is not fatal: the worker cancels too.
CancelError(s) ==
    /\ s \in canceling
    /\ errors < conf.errors /\ errors' = errors + 1
    /\ canceling' = canceling \ {s}
    /\ UNCHANGED <<conf, log, sub, queue, fan, dlv, sent, owed>>

\* setWebhookEnabled(true).
Enable(s) ==
    /\ sub[s] = "disabled"
    /\ sub' = [sub EXCEPT ![s] = "enabled"]
    /\ UNCHANGED <<conf, log, canceling, queue, fan, dlv, sent, owed, errors>>

\* DeleteWebhook: one transaction removes the deliveries and the subscription.
Delete(s) ==
    /\ sub[s] # "deleted"
    /\ sub' = [sub EXCEPT ![s] = "deleted"]
    /\ row' = [k \in Keys |-> IF k[1] = s THEN "none" ELSE row[k]]
    /\ NothingOwed(s)
    /\ UNCHANGED <<conf, log, canceling, attempts, fan, dlv, sent, errors>>

\* TestWebhook, enabled or not.
Test(s) ==
    /\ s \in conf.testable /\ sub[s] # "deleted"
    /\ row[<<s, 0>>] = "none"
    /\ row' = [row EXCEPT ![<<s, 0>>] = "pending"]
    /\ UNCHANGED <<conf, log, subs, attempts, fan, dlv, sent, owed, errors>>

-----------------------------------------------------------------------------
(* The fan-out loop.                                                       *)

\* initCursor, on a cursor that exists ...
LoadCursor(w) ==
    /\ fpc[w] = "init"
    /\ \E c \in cursor : cur' = [cur EXCEPT ![w] = c]
    /\ fpc' = [fpc EXCEPT ![w] = "sweep"]
    /\ UNCHANGED <<conf, log, subs, queue, last, todo, dlv, sent, owed, errors>>

\* ... and on one that does not: see that it is missing, read the head, and
\* write the head, in three statements.
FindNoCursor(w) ==
    /\ fpc[w] = "init"
    /\ cursor = {}
    /\ fpc' = [fpc EXCEPT ![w] = "head"]
    /\ UNCHANGED <<conf, log, subs, queue, cur, last, todo, dlv, sent, owed, errors>>

ReadHead(w) ==
    /\ fpc[w] = "head"
    /\ cur' = [cur EXCEPT ![w] = head]
    /\ fpc' = [fpc EXCEPT ![w] = "seed"]
    /\ UNCHANGED <<conf, log, subs, queue, last, todo, dlv, sent, owed, errors>>

SeedCursor(w) ==
    /\ fpc[w] = "seed"
    /\ cursor' = {cur[w]}
    /\ fpc' = [fpc EXCEPT ![w] = "sweep"]
    /\ UNCHANGED <<conf, head, subs, queue, cur, last, todo, dlv, sent, owed, errors>>

\* fanOutOnce: the batch past the in-memory cursor ...
ReadBatch(w) ==
    /\ fpc[w] = "sweep"
    /\ cur[w] < head
    /\ last' = [last EXCEPT ![w] = IF cur[w] + conf.batch < head THEN cur[w] + conf.batch ELSE head]
    /\ fpc' = [fpc EXCEPT ![w] = "subs"]
    /\ UNCHANGED <<conf, log, subs, queue, cur, todo, dlv, sent, owed, errors>>

\* ... the subscriptions its events go to ...
ListSubs(w) ==
    /\ fpc[w] = "subs"
    /\ todo' = [todo EXCEPT ![w] = {k \in Keys : /\ sub[k[1]] = "enabled"
                                                 /\ cur[w] < k[2] /\ k[2] <= last[w]}]
    /\ fpc' = [fpc EXCEPT ![w] = "enqueue"]
    /\ UNCHANGED <<conf, log, subs, queue, cur, last, dlv, sent, owed, errors>>

\* ... an insert-or-ignore for each pair, in the order of the events; the
\* foreign key refuses a subscription deleted since, which ends the sweep ...
Enqueue(w) ==
    /\ fpc[w] = "enqueue"
    /\ \E k \in todo[w] :
          /\ \A j \in todo[w] : k[2] <= j[2]
          /\ \/ /\ sub[k[1]] = "deleted"
                /\ fpc' = [fpc EXCEPT ![w] = "sweep"]
                /\ todo' = [todo EXCEPT ![w] = {}]
                /\ UNCHANGED row
             \/ /\ sub[k[1]] # "deleted"
                /\ todo' = [todo EXCEPT ![w] = @ \ {k}]
                /\ row' = [row EXCEPT ![k] = IF @ = "none" THEN "pending" ELSE @]
                /\ UNCHANGED fpc
    /\ UNCHANGED <<conf, log, subs, attempts, cur, last, dlv, sent, owed, errors>>

\* ... and the cursor moves past the batch.
SetCursor(w) ==
    /\ fpc[w] = "enqueue" /\ todo[w] = {}
    /\ cursor' = {last[w]}
    /\ cur' = [cur EXCEPT ![w] = last[w]]
    /\ fpc' = [fpc EXCEPT ![w] = "sweep"]
    /\ UNCHANGED <<conf, head, subs, queue, last, todo, dlv, sent, owed, errors>>

\* Mutant of FanError: a sweep that fails moves the cursor on.
FanErrorAdvances(w) ==
    /\ fpc[w] \notin {"off", "init", "sweep"}
    /\ errors < conf.errors /\ errors' = errors + 1
    /\ cursor' = IF fpc[w] \in {"head", "seed"} THEN cursor ELSE {last[w]}
    /\ fpc' = [fpc EXCEPT ![w] = IF @ \in {"head", "seed"} THEN "init" ELSE "sweep"]
    /\ todo' = [todo EXCEPT ![w] = {}]
    /\ UNCHANGED <<conf, head, subs, queue, cur, last, dlv, sent, owed>>

\* A failed statement: initCursor is tried again from its start, a sweep from
\* the unmoved in-memory cursor.
FanError(w) ==
    /\ fpc[w] \notin {"off", "init", "sweep"}
    /\ errors < conf.errors /\ errors' = errors + 1
    /\ fpc' = [fpc EXCEPT ![w] = IF @ \in {"head", "seed"} THEN "init" ELSE "sweep"]
    /\ todo' = [todo EXCEPT ![w] = {}]
    /\ UNCHANGED <<conf, log, subs, queue, cur, last, dlv, sent, owed>>

-----------------------------------------------------------------------------
(* The delivery loop.                                                      *)

\* Mutant of ListDue: a row on its last attempt is taken to be out of budget.
ListDueWithinBudget(w) ==
    /\ dpc[w] = "idle"
    /\ \E D \in SUBSET {k \in Keys : row[k] = "pending" /\ attempts[k] + 1 < conf.attempts} :
          /\ D # {} /\ Cardinality(D) <= conf.batch
          /\ due' = [due EXCEPT ![w] = {<<k, attempts[k]>> : k \in D}]
    /\ dpc' = [dpc EXCEPT ![w] = "next"]
    /\ UNCHANGED <<conf, log, subs, queue, fan, item, ok, sent, owed, errors>>

\* ListDueWebhookDeliveries: a batch of rows, each with the attempts it had.
ListDue(w) ==
    /\ dpc[w] = "idle"
    /\ \E D \in SUBSET {k \in Keys : row[k] = "pending"} :
          /\ D # {} /\ Cardinality(D) <= conf.batch
          /\ due' = [due EXCEPT ![w] = {<<k, attempts[k]>> : k \in D}]
    /\ dpc' = [dpc EXCEPT ![w] = "next"]
    /\ UNCHANGED <<conf, log, subs, queue, fan, item, ok, sent, owed, errors>>

BatchDone(w) ==
    /\ dpc[w] = "next" /\ due[w] = {}
    /\ dpc' = [dpc EXCEPT ![w] = "idle"]
    /\ UNCHANGED <<conf, log, subs, queue, fan, due, item, ok, sent, owed, errors>>

\* attemptDelivery: the subscription decides between POST and cancel.
LoadSub(w) ==
    /\ dpc[w] = "next"
    /\ \E d \in due[w] :
          /\ item' = [item EXCEPT ![w] = {d}]
          /\ due' = [due EXCEPT ![w] = @ \ {d}]
          /\ dpc' = [dpc EXCEPT ![w] = IF sub[d[1][1]] = "enabled" THEN "post" ELSE "cancel"]
    /\ UNCHANGED <<conf, log, subs, queue, fan, ok, sent, owed, errors>>

CancelItem(w) ==
    /\ dpc[w] = "cancel"
    /\ \E d \in item[w] : CancelPendingWebhookDeliveries(d[1][1])
    /\ dpc' = [dpc EXCEPT ![w] = "next"]
    /\ item' = [item EXCEPT ![w] = {}]
    /\ UNCHANGED <<conf, log, subs, attempts, fan, due, ok, sent, owed, errors>>

Post(w) ==
    /\ dpc[w] = "post"
    /\ \E d \in item[w], answer \in BOOLEAN :
          /\ posts' = [posts EXCEPT ![d[1]] = IF @ < conf.attempts THEN @ + 1 ELSE @]
          /\ acked' = [acked EXCEPT ![d[1]] = @ \/ answer]
          /\ ok' = [ok EXCEPT ![w] = answer]
    /\ dpc' = [dpc EXCEPT ![w] = "mark"]
    /\ UNCHANGED <<conf, log, subs, queue, fan, due, item, owed, errors>>

\* Mutant of Mark: this attempt is counted twice against the budget.
MarkCountsTwice(w) ==
    /\ dpc[w] = "mark"
    /\ \E d \in item[w] :
          IF row[d[1]] = "none" THEN UNCHANGED queue
          ELSE /\ row' = [row EXCEPT ![d[1]] = IF ok[w] THEN "delivered"
                                               ELSE IF d[2] + 2 >= conf.attempts THEN "dead"
                                               ELSE @]
               /\ attempts' = [attempts EXCEPT ![d[1]] = @ + 1]
    /\ dpc' = [dpc EXCEPT ![w] = "next"]
    /\ item' = [item EXCEPT ![w] = {}]
    /\ ok' = [ok EXCEPT ![w] = FALSE]
    /\ UNCHANGED <<conf, log, subs, fan, due, sent, owed, errors>>

\* MarkWebhookDelivery{Succeeded, Dead, Retry}, chosen by the answer and by the
\* attempts the listing saw.  The updates name the id alone; a retry leaves the
\* status as it finds it, and a deleted row takes no update.
Mark(w) ==
    /\ dpc[w] = "mark"
    /\ \E d \in item[w] :
          IF row[d[1]] = "none" THEN UNCHANGED queue
          ELSE /\ row' = [row EXCEPT ![d[1]] = IF ok[w] THEN "delivered"
                                               ELSE IF d[2] + 1 >= conf.attempts THEN "dead"
                                               ELSE @]
               /\ attempts' = [attempts EXCEPT ![d[1]] = @ + 1]
    /\ dpc' = [dpc EXCEPT ![w] = "next"]
    /\ item' = [item EXCEPT ![w] = {}]
    /\ ok' = [ok EXCEPT ![w] = FALSE]
    /\ UNCHANGED <<conf, log, subs, fan, due, sent, owed, errors>>

\* The subscription cannot be loaded, or the outcome cannot be stored: the row
\* is left for the next sweep.
DeliverError(w) ==
    /\ dpc[w] \in {"post", "cancel", "mark"}
    /\ errors < conf.errors /\ errors' = errors + 1
    /\ dpc' = [dpc EXCEPT ![w] = "next"]
    /\ item' = [item EXCEPT ![w] = {}]
    /\ ok' = [ok EXCEPT ![w] = FALSE]
    /\ UNCHANGED <<conf, log, subs, queue, fan, due, sent, owed>>

-----------------------------------------------------------------------------
(* The worker as a leader-elected job: it starts when its replica leads,   *)
(* and leadership lost, shutdown or a crash ends it, variables and all.    *)

StartFanOut(w) ==
    /\ w \in conf.fanouts
    /\ fpc[w] = "off"
    /\ fpc' = [fpc EXCEPT ![w] = "init"]
    /\ UNCHANGED <<conf, log, subs, queue, cur, last, todo, dlv, sent, owed, errors>>

StopFanOut(w) ==
    /\ fpc[w] # "off"
    /\ errors < conf.errors /\ errors' = errors + 1
    /\ fpc' = [fpc EXCEPT ![w] = "off"]
    /\ cur' = [cur EXCEPT ![w] = 0]
    /\ last' = [last EXCEPT ![w] = 0]
    /\ todo' = [todo EXCEPT ![w] = {}]
    /\ UNCHANGED <<conf, log, subs, queue, dlv, sent, owed>>

StartDeliver(w) ==
    /\ w \in conf.deliverers
    /\ dpc[w] = "off"
    /\ dpc' = [dpc EXCEPT ![w] = "idle"]
    /\ UNCHANGED <<conf, log, subs, queue, fan, due, item, ok, sent, owed, errors>>

StopDeliver(w) ==
    /\ dpc[w] # "off"
    /\ errors < conf.errors /\ errors' = errors + 1
    /\ dpc' = [dpc EXCEPT ![w] = "off"]
    /\ due' = [due EXCEPT ![w] = {}]
    /\ item' = [item EXCEPT ![w] = {}]
    /\ ok' = [ok EXCEPT ![w] = FALSE]
    /\ UNCHANGED <<conf, log, subs, queue, fan, sent, owed>>

FanOut(w) ==
    \/ StartFanOut(w)
    \/ LoadCursor(w) \/ FindNoCursor(w) \/ ReadHead(w) \/ SeedCursor(w)
    \/ ReadBatch(w) \/ ListSubs(w) \/ Enqueue(w) \/ SetCursor(w)

Deliver(w) ==
    \/ StartDeliver(w)
    \/ ListDue(w) \/ BatchDone(w) \/ LoadSub(w) \/ CancelItem(w) \/ Post(w) \/ Mark(w)

Operate(s) ==
    \/ Disable(s) \/ CancelAfterDisable(s) \/ CancelError(s)
    \/ Enable(s) \/ Delete(s) \/ Test(s)

Next ==
    \/ CommitEvent
    \/ \E s \in Subs : Operate(s)
    \/ \E w \in FanOuts : FanOut(w) \/ FanError(w) \/ StopFanOut(w)
    \/ \E w \in Deliverers : Deliver(w) \/ DeliverError(w) \/ StopDeliver(w)

Spec == Init /\ [][Next]_vars

\* A leader is elected again, and its two goroutines keep running.
FairSpec == /\ Spec
            /\ \A w \in FanOuts : WF_vars(FanOut(w))
            /\ \A w \in Deliverers : WF_vars(Deliver(w))

-----------------------------------------------------------------------------
\* Every variable keeps the shape of the rows and locals it stands for.
TypeOK ==
    /\ conf \in Scenarios
    /\ head \in 0 .. MaxSeq
    /\ cursor \in SUBSET (0 .. MaxSeq)
    /\ sub \in [Subs -> {"enabled", "disabled", "deleted"}]
    /\ canceling \in SUBSET Subs
    /\ row \in [Keys -> {"none", "pending", "delivered", "dead", "canceled"}]
    /\ attempts \in [Keys -> Nat]
    /\ fpc \in [FanOuts -> {"off", "init", "head", "seed", "sweep", "subs", "enqueue"}]
    /\ cur \in [FanOuts -> 0 .. MaxSeq]
    /\ last \in [FanOuts -> 0 .. MaxSeq]
    /\ todo \in [FanOuts -> SUBSET Keys]
    /\ dpc \in [Deliverers -> {"off", "idle", "next", "cancel", "post", "mark"}]
    /\ due \in [Deliverers -> SUBSET (Keys \X Nat)]
    /\ item \in [Deliverers -> SUBSET (Keys \X Nat)]
    /\ ok \in [Deliverers -> BOOLEAN]
    /\ posts \in [Keys -> 0 .. conf.attempts]
    /\ acked \in [Keys -> BOOLEAN]
    /\ owed \in SUBSET Keys
    /\ errors \in 0 .. conf.errors

\* At least once, first half: the durable cursor never passes an event that a
\* subscription is owed without a delivery of it on the queue, whatever failed,
\* died or ran twice in between.
NoEventSkipped ==
    \A k \in owed : (\E c \in cursor : k[2] <= c) => row[k] # "none"

\* The queue tells the truth: a delivery marked delivered was acknowledged, and
\* one is dead only after the whole budget of POSTs, although the count that
\* decides it was read before the POST and another worker may have counted too.
OutcomeIsTrue ==
    \A k \in Keys :
        /\ row[k] = "delivered" => acked[k]
        /\ row[k] = "dead" => posts[k] = conf.attempts

\* At least once, second half: an event that a subscription is owed is in the
\* end enqueued, and where a delivery loop runs it is delivered, dead-lettered
\* or canceled, across errors and restarts.
Settled(k) ==
    row[k] \in {"delivered", "dead", "canceled"}
                  \union (IF conf.deliverers = {} THEN {"pending"} ELSE {})
OwedIsSettled == \A k \in Keys : k \in owed ~> (k \notin owed \/ Settled(k))

\* "terminal": a delivery that was delivered, dead-lettered or canceled keeps
\* that status until its subscription is deleted.
TerminalStays ==
    [][\A k \in Keys : row[k] \in {"delivered", "dead", "canceled"}
                          => row'[k] \in {row[k], "none"}]_vars

\* An event committed after the subscription was last enabled is not canceled.
ResumedKeepsEvents == \A k \in owed : row[k] # "canceled"
=============================================================================
