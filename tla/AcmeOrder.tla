----------------------------- MODULE AcmeOrder -----------------------------
(***************************************************************************)
(* The ACME server's order, authorization and challenge lifecycles         *)
(* (server/internal/acme: order.go, issue.go, preauth.go, star.go,         *)
(* email.go, over database/acme.go).  Every handler loads rows, works on   *)
(* its local copy and writes statuses back with separate, mostly           *)
(* unconditional UPDATE statements, so each statement is a step here and   *)
(* what a request read may be stale by the time it writes.                 *)
(*                                                                         *)
(* One account.  An identifier is a model value; AsyncIds are the email    *)
(* identifiers, validated by email-reply-00, which answers through the     *)
(* inbound-mail poller instead of inside the challenge request.  Each      *)
(* authorization has one challenge per type in Types.                      *)
(***************************************************************************)
EXTENDS Naturals, Sequences, FiniteSets

CONSTANTS
    Procs,       \* requests and background sweeps in flight
    Orders,      \* order rows that can be created
    Ids,         \* identifiers that clients ask for
    AsyncIds,    \* the email identifiers among them
    Types,       \* challenge types offered on an authorization
    NoOrder,     \* order_id NULL: a standalone pre-authorization
    MaxAuthzs,   \* bound: authorization rows
    MaxCerts,    \* bound: certificates issued
    Scenarios    \* the configurations conf ranges over

\* A scenario: the identifiers in use and how many an order may name; whether
\* STAR orders and pre-authorization (newAuthz) are enabled; whether clients
\* deactivate authorizations; whether the store may fail on writes whose error is
\* dropped; bounds on orders, authorizations, certificates, and expiries and
\* end-dates that pass.
ASSUME AcmeAssumption ==
    /\ NoOrder \notin Orders /\ AsyncIds \subseteq Ids /\ Types # {}
    /\ MaxAuthzs \in Nat /\ MaxCerts \in Nat
    /\ \A c \in Scenarios :
          /\ c.ids \subseteq Ids /\ c.names \in Nat /\ c.orders \in Nat
          /\ {c.star, c.preauth, c.deactivate, c.drops} \subseteq BOOLEAN
          /\ c.authzs \in 0..MaxAuthzs /\ c.certs \in 0..MaxCerts /\ c.lapses \in Nat

VARIABLES
    conf,
    status,   \* acme_orders.status, "none" before the row exists
    star,     \* acme_orders.star_auto_renewal is present
    cert,     \* acme_orders.serial, 0 when there is none
    csr,      \* names in acme_orders.star_csr
    renew,    \* acme_orders.star_next_renewal is set
    lapsed,   \* orders past expires
    ended,    \* STAR orders past their end-date
    aid,      \* acme_authorizations.identifier_value of each row created
    aorder,   \* acme_authorizations.order_id
    astatus,  \* acme_authorizations.status
    alapsed,  \* authorizations past expires
    chall,    \* acme_challenges.status per authorization and type
    mailed,   \* authorizations whose email_message_id is recorded
    pc,       \* where each request stands
    op,       \* whether it runs handleFinalize or another handler
    ord,      \* the order it works on (NoOrder: none)
    seen,     \* order.Status in its local copy
    new,      \* newStatus computed by refreshOrderStatus
    todo,     \* identifiers to authorize, or authorizations to expire
    az,       \* the authorization it works on
    ty,       \* the challenge type it works on
    names,    \* names in the CSR it matched
    serial,   \* serial of the certificate it was issued
    issued,   \* history: certificates the CA signed
    proved,   \* history: authorizations with a passed control check
    hasty     \* history: orders found ready while newOrder was adding to them

rows  == <<status, star, cert, csr, renew>>
clock == <<lapsed, ended, alapsed>>
authz == <<aid, aorder, astatus, chall, mailed>>
local == <<pc, op, ord, seen, new, todo, az, ty, names, serial>>
hist  == <<issued, proved, hasty>>
vars  == <<conf, rows, clock, authz, local, hist>>

Authzs == 1..MaxAuthzs
made   == Len(aid)
OrderStatus == {"pending", "ready", "processing", "valid", "invalid", "canceled"}
AuthzStatus == {"pending", "valid", "invalid", "expired", "deactivated"}
ChallStatus == {"pending", "processing", "valid", "invalid"}
DeadAuthz   == {"invalid", "expired", "deactivated"}

\* ListACMEAuthorizationsByOrder
AuthzsOf(o) == {a \in 1..made : aorder[a] = o}

\* expireAuthzIfNeeded's condition on a row as read
Overdue(a) == astatus[a] = "pending" /\ a \in alapsed

\* handleNewOrder between the insertion of its order and of the last authorization
Building == {"authorize", "claim", "create"}

DefaultType == CHOOSE t \in Types : TRUE

Init ==
    /\ conf \in Scenarios
    /\ status = [o \in Orders |-> "none"]
    /\ star = [o \in Orders |-> FALSE]
    /\ cert = [o \in Orders |-> 0]
    /\ csr = [o \in Orders |-> {}]
    /\ renew = [o \in Orders |-> FALSE]
    /\ lapsed = {} /\ ended = {} /\ alapsed = {}
    /\ aid = <<>>
    /\ aorder = [a \in Authzs |-> NoOrder]
    /\ astatus = [a \in Authzs |-> "pending"]
    /\ chall = [a \in Authzs |-> [t \in Types |-> "pending"]]
    /\ mailed = {}
    /\ pc = [p \in Procs |-> "idle"]
    /\ op = [p \in Procs |-> "other"]
    /\ ord = [p \in Procs |-> NoOrder]
    /\ seen = [p \in Procs |-> "pending"]
    /\ new = [p \in Procs |-> "pending"]
    /\ todo = [p \in Procs |-> {}]
    /\ az = [p \in Procs |-> 0]
    /\ ty = [p \in Procs |-> DefaultType]
    /\ names = [p \in Procs |-> {}]
    /\ serial = [p \in Procs |-> 0]
    /\ issued = {} /\ proved = {} /\ hasty = {}

Goto(p, l) == pc' = [pc EXCEPT ![p] = l]

\* An UPDATE of row x whose error the handler drops ("_ = s.db.Update..."): it
\* goes on whether the row was written or, where the store fails, not.
Written(column, x, v) ==
    {[column EXCEPT ![x] = v]} \cup (IF conf.drops THEN {column} ELSE {})

\* Answering a request drops its locals.
Answer(p) ==
    /\ Goto(p, "idle")
    /\ op' = [op EXCEPT ![p] = "other"]
    /\ ord' = [ord EXCEPT ![p] = NoOrder]
    /\ seen' = [seen EXCEPT ![p] = "pending"]
    /\ new' = [new EXCEPT ![p] = "pending"]
    /\ todo' = [todo EXCEPT ![p] = {}]
    /\ az' = [az EXCEPT ![p] = 0]
    /\ ty' = [ty EXCEPT ![p] = DefaultType]
    /\ names' = [names EXCEPT ![p] = {}]
    /\ serial' = [serial EXCEPT ![p] = 0]

-----------------------------------------------------------------------------
\* Order creation: handleNewOrder, handleNewAuthz, claimPreAuthorization

\* handleNewOrder up to CreateACMEOrder: email and other identifiers are not
\* mixed, and an email order is never a STAR order.
NewOrder(p, o, I, s) ==
    /\ pc[p] = "idle" /\ status[o] = "none"
    /\ Cardinality({x \in Orders : status[x] # "none"}) < conf.orders
    /\ I \subseteq conf.ids /\ Cardinality(I) <= conf.names
    /\ I \subseteq AsyncIds \/ I \cap AsyncIds = {}
    /\ s => conf.star /\ I \cap AsyncIds = {}
    /\ status' = [status EXCEPT ![o] = "pending"]
    /\ star' = [star EXCEPT ![o] = s]
    /\ ord' = [ord EXCEPT ![p] = o]
    /\ todo' = [todo EXCEPT ![p] = I]
    /\ Goto(p, "authorize")
    /\ UNCHANGED <<conf, cert, csr, renew, clock, authz, op, seen, new, az, ty, names, serial, hist>>

\* FindReusableACMEPreAuthorization: unclaimed, same identifier, not expired,
\* valid or pending; a valid one first, then the newest.
Reusable(i) == {a \in 1..made : /\ aorder[a] = NoOrder /\ aid[a] = i
                                /\ astatus[a] \in {"valid", "pending"} /\ a \notin alapsed}
BestReusable(i) ==
    {a \in Reusable(i) : \A b \in Reusable(i) :
        IF astatus[a] = astatus[b] THEN b <= a ELSE astatus[a] = "valid"}

FindPreAuthorization(p, i) ==
    /\ pc[p] = "authorize" /\ i \in todo[p]
    /\ conf.preauth
    /\ \E a \in BestReusable(i) : az' = [az EXCEPT ![p] = a]
    /\ Goto(p, "claim")
    /\ UNCHANGED <<conf, rows, clock, authz, op, ord, seen, new, todo, ty, names, serial, hist>>

\* handleNewOrder's loop after identifier i: the next one, or the refresh.
Remaining(p, i) == IF todo[p] = {i} THEN "refresh" ELSE "authorize"

\* Mutant of Claim: the UPDATE without its "order_id IS NULL" condition.
ClaimUnguarded(p) ==
    /\ pc[p] = "claim"
    /\ aorder' = [aorder EXCEPT ![az[p]] = ord[p]]
    /\ todo' = [todo EXCEPT ![p] = @ \ {aid[az[p]]}]
    /\ az' = [az EXCEPT ![p] = 0]
    /\ Goto(p, Remaining(p, aid[az[p]]))
    /\ UNCHANGED <<conf, rows, clock, aid, astatus, chall, mailed,
                   op, ord, seen, new, ty, names, serial, hist>>

\* ClaimACMEPreAuthorization: a conditional UPDATE; losing it means a fresh
\* authorization is created for the identifier.
Claim(p) ==
    /\ pc[p] = "claim"
    /\ IF aorder[az[p]] = NoOrder
         THEN /\ aorder' = [aorder EXCEPT ![az[p]] = ord[p]]
              /\ todo' = [todo EXCEPT ![p] = @ \ {aid[az[p]]}]
              /\ az' = [az EXCEPT ![p] = 0]
              /\ Goto(p, Remaining(p, aid[az[p]]))
         ELSE /\ Goto(p, "create")
              /\ UNCHANGED <<aorder, todo, az>>
    /\ UNCHANGED <<conf, rows, clock, aid, astatus, chall, mailed,
                   op, ord, seen, new, ty, names, serial, hist>>

\* CreateACMEAuthorization and its challenges for an identifier, owned by o.
CreateAuthorization(i, o) ==
    /\ made < conf.authzs
    /\ aid' = Append(aid, i)
    /\ aorder' = [aorder EXCEPT ![made + 1] = o]
    /\ UNCHANGED <<astatus, chall, mailed>>

\* handleNewOrder's loop body when nothing was claimed: there is nothing to
\* reuse, the lookup failed, or the claim was lost.
Create(p, i) ==
    /\ \/ pc[p] = "authorize" /\ i \in todo[p]
       \/ pc[p] = "create" /\ i = aid[az[p]]
    /\ CreateAuthorization(i, ord[p])
    /\ todo' = [todo EXCEPT ![p] = @ \ {i}]
    /\ az' = [az EXCEPT ![p] = 0]
    /\ Goto(p, Remaining(p, i))
    /\ UNCHANGED <<conf, rows, clock, op, ord, seen, new, ty, names, serial, hist>>

\* handleNewAuthz: a standalone authorization.
NewAuthz(i) ==
    /\ conf.preauth /\ i \in conf.ids
    /\ CreateAuthorization(i, NoOrder)
    /\ UNCHANGED <<conf, rows, clock, local, hist>>

-----------------------------------------------------------------------------
\* refreshOrderStatus, the tail of most handlers, on the local copy

\* Its early return: these orders are left alone, and a finalize of one of
\* them answers without effect.
Settled == {"valid", "invalid", "processing"}

\* handleOrder (POST-as-GET), and handleFinalize up to its refresh.
Load(p, o, f) ==
    /\ pc[p] = "idle"
    /\ status[o] \notin Settled \cup {"none"}
    /\ ord' = [ord EXCEPT ![p] = o]
    /\ seen' = [seen EXCEPT ![p] = status[o]]
    /\ op' = [op EXCEPT ![p] = f]
    /\ Goto(p, "refresh")
    /\ UNCHANGED <<conf, rows, clock, authz, new, todo, az, ty, names, serial, hist>>

\* What runs after the refresh: a finalize of a ready order goes on, everything
\* else answers.
Refreshed(p, st) ==
    IF op[p] = "finalize" /\ st = "ready"
      THEN /\ Goto(p, "match")
           /\ seen' = [seen EXCEPT ![p] = "pending"]
           /\ new' = [new EXCEPT ![p] = "pending"]
           /\ UNCHANGED <<op, ord, todo, az, ty, names, serial>>
      ELSE Answer(p)

\* Past order.Expires.
RefreshLapsed(p) ==
    /\ pc[p] = "refresh"
    /\ ord[p] \in lapsed
    /\ status' = [status EXCEPT ![ord[p]] = "invalid"]
    /\ Refreshed(p, "invalid")
    /\ UNCHANGED <<conf, star, cert, csr, renew, clock, authz, hist>>

\* Mutant of StatusFrom: one valid authorization makes the order ready.
StatusFromAny(as) ==
    IF \E a \in as : astatus[a] \in DeadAuthz \/ Overdue(a) THEN "invalid"
    ELSE IF \E a \in as : astatus[a] = "valid" THEN "ready"
    ELSE "pending"

\* newStatus from an order's authorizations, overdue ones counted as expired.
StatusFrom(as) ==
    IF \E a \in as : astatus[a] \in DeadAuthz \/ Overdue(a) THEN "invalid"
    ELSE IF \A a \in as : astatus[a] = "valid" THEN "ready"
    ELSE "pending"

\* newOrder has inserted the row of o and not yet all of its authorizations.
BeingBuilt(o) == \E q \in Procs : pc[q] \in Building /\ ord[q] = o

\* ListACMEAuthorizationsByOrder and the recomputation, whoever else is at work
\* on the order: newOrder holds no lock on the rows it inserts.
RefreshRead(p) ==
    /\ pc[p] = "refresh"
    /\ ord[p] \notin lapsed
    /\ hasty' = IF StatusFrom(AuthzsOf(ord[p])) = "ready" /\ BeingBuilt(ord[p])
                  THEN hasty \cup {ord[p]} ELSE hasty
    /\ new' = [new EXCEPT ![p] = StatusFrom(AuthzsOf(ord[p]))]
    /\ todo' = [todo EXCEPT ![p] = {a \in AuthzsOf(ord[p]) : Overdue(a)}]
    /\ Goto(p, "store")
    /\ UNCHANGED <<conf, rows, clock, authz, op, ord, seen, az, ty, names, serial, issued, proved>>

\* The listing failed: the local status stands.
RefreshError(p) ==
    /\ pc[p] = "refresh"
    /\ ord[p] \notin lapsed
    /\ Refreshed(p, seen[p])
    /\ UNCHANGED <<conf, rows, clock, authz, hist>>

\* expireAuthzIfNeeded's write for an authorization read as overdue.
StoreExpired(p, a) ==
    /\ pc[p] = "store" /\ a \in todo[p]
    /\ astatus' \in Written(astatus, a, "expired")
    /\ todo' = [todo EXCEPT ![p] = @ \ {a}]
    /\ UNCHANGED <<conf, rows, clock, aid, aorder, chall, mailed,
                   pc, op, ord, seen, new, az, ty, names, serial, hist>>

\* UpdateACMEOrderStatus with the new status, if it differs from the local one.
StoreStatus(p) ==
    /\ pc[p] = "store" /\ todo[p] = {}
    /\ IF new[p] # seen[p] THEN status' \in Written(status, ord[p], new[p]) ELSE UNCHANGED status
    /\ Refreshed(p, new[p])
    /\ UNCHANGED <<conf, star, cert, csr, renew, clock, authz, hist>>

-----------------------------------------------------------------------------
\* handleFinalize after the refresh

\* matchCSRToOrder requires exactly the names of the order's authorizations,
\* listed again and whatever their status.
Match(p) ==
    /\ pc[p] = "match"
    /\ names' = [names EXCEPT ![p] = {aid[a] : a \in AuthzsOf(ord[p])}]
    /\ Goto(p, "processing")
    /\ UNCHANGED <<conf, rows, clock, authz, op, ord, seen, new, todo, az, ty, serial, hist>>

MarkProcessing(p) ==
    /\ pc[p] = "processing"
    /\ status' \in Written(status, ord[p], "processing")
    /\ Goto(p, "issue")
    /\ UNCHANGED <<conf, star, cert, csr, renew, clock, authz,
                   op, ord, seen, new, todo, az, ty, names, serial, hist>>

\* ca.Manager.IssueCertificate signs a certificate for the names ns.
Sign(p, ns) ==
    LET n == Cardinality(issued) + 1
    IN  /\ n <= conf.certs
        /\ issued' = issued \cup {[serial |-> n, order |-> ord[p], names |-> ns]}
        /\ serial' = [serial EXCEPT ![p] = n]

Issue(p) ==
    /\ pc[p] = "issue"
    /\ star[ord[p]] => ord[p] \notin ended
    /\ Sign(p, names[p])
    /\ Goto(p, "record")
    /\ UNCHANGED <<conf, rows, clock, authz, op, ord, seen, new, todo, az, ty, names, proved, hasty>>

\* No certificate: an exhausted quota puts the order back to ready; any other
\* error, and a STAR end-date that has passed, invalidates it.
IssueFails(p, st) ==
    /\ pc[p] = "issue"
    /\ st = "ready" => ~(star[ord[p]] /\ ord[p] \in ended)
    /\ status' = [status EXCEPT ![ord[p]] = st]
    /\ Answer(p)
    /\ UNCHANGED <<conf, star, cert, csr, renew, clock, authz, hist>>

\* Mutant of Record: the certificate columns are left out of the UPDATE.
RecordStatusOnly(p, again) ==
    /\ pc[p] = "record"
    /\ again => star[ord[p]]
    /\ status' = [status EXCEPT ![ord[p]] = "valid"]
    /\ Answer(p)
    /\ UNCHANGED <<conf, star, cert, csr, renew, clock, authz, hist>>

\* FinalizeACMEOrder / FinalizeACMEStarOrder.  A STAR order stores its CSR and
\* a deadline, unless this certificate already runs to the end-date.
Record(p, again) ==
    LET o == ord[p]
    IN  /\ pc[p] = "record"
        /\ again => star[o]
        /\ status' = [status EXCEPT ![o] = "valid"]
        /\ cert' = [cert EXCEPT ![o] = serial[p]]
        /\ csr' = [csr EXCEPT ![o] = IF star[o] THEN names[p] ELSE @]
        /\ renew' = [renew EXCEPT ![o] = again]
        /\ Answer(p)
        /\ UNCHANGED <<conf, star, clock, authz, hist>>

-----------------------------------------------------------------------------
\* STAR: cancelStarOrder and the leader-elected renewer

\* The handler's early return for a canceled order is repeated by the guard of
\* CancelACMEStarOrder.
CancelStarOrder(o) ==
    /\ star[o]
    /\ status[o] \notin {"canceled", "invalid"}
    /\ status' = [status EXCEPT ![o] = "canceled"]
    /\ renew' = [renew EXCEPT ![o] = FALSE]
    /\ UNCHANGED <<conf, star, cert, csr, clock, authz, local, hist>>

\* ListDueACMEStarOrders
ListDue(p, o) ==
    /\ pc[p] = "idle"
    /\ status[o] = "valid" /\ renew[o]
    /\ ord' = [ord EXCEPT ![p] = o]
    /\ names' = [names EXCEPT ![p] = csr[o]]
    /\ Goto(p, "renew")
    /\ UNCHANGED <<conf, rows, clock, authz, op, seen, new, todo, az, ty, serial, hist>>

\* renewStarOrder past the end-date: StopACMEStarRenewal.
StopRenewal(p) ==
    /\ pc[p] = "renew" /\ ord[p] \in ended
    /\ renew' = [renew EXCEPT ![ord[p]] = FALSE]
    /\ Answer(p)
    /\ UNCHANGED <<conf, status, star, cert, csr, clock, authz, hist>>

\* renewStarOrder's issuance, from the CSR stored at finalize.
Reissue(p) ==
    /\ pc[p] = "renew" /\ ord[p] \notin ended
    /\ Sign(p, names[p])
    /\ Goto(p, "rerecord")
    /\ UNCHANGED <<conf, rows, clock, authz, op, ord, seen, new, todo, az, ty, names, proved, hasty>>

\* Mutant of RecordRenewal: no status guard.
RecordRenewalUnguarded(p, again) ==
    /\ pc[p] = "rerecord"
    /\ cert' = [cert EXCEPT ![ord[p]] = serial[p]]
    /\ renew' = [renew EXCEPT ![ord[p]] = again]
    /\ Answer(p)
    /\ UNCHANGED <<conf, status, star, csr, clock, authz, hist>>

\* RenewACMEStarOrder, guarded by status = 'valid'.
RecordRenewal(p, again) ==
    /\ pc[p] = "rerecord"
    /\ IF status[ord[p]] = "valid"
         THEN /\ cert' = [cert EXCEPT ![ord[p]] = serial[p]]
              /\ renew' = [renew EXCEPT ![ord[p]] = again]
         ELSE UNCHANGED <<cert, renew>>
    /\ Answer(p)
    /\ UNCHANGED <<conf, status, star, csr, clock, authz, hist>>

-----------------------------------------------------------------------------
\* Challenges and authorizations: handleChallenge, handleAuthz, the mail poller

\* handleAuthz, handleChallenge and validateEmailReply load the authorization;
\* one found overdue is written expired, and each of them then stops.
LoadOverdue(p, a) ==
    /\ pc[p] = "idle" /\ a <= made /\ Overdue(a)
    /\ az' = [az EXCEPT ![p] = a]
    /\ Goto(p, "expire")
    /\ UNCHANGED <<conf, rows, clock, authz, op, ord, seen, new, todo, ty, names, serial, hist>>

Expire(p) ==
    /\ pc[p] = "expire"
    /\ astatus' = [astatus EXCEPT ![az[p]] = "expired"]
    /\ Answer(p)
    /\ UNCHANGED <<conf, rows, clock, aid, aorder, chall, mailed, hist>>

\* Take a local copy of authorization a and its order_id, and go on at l.
LoadAuthz(p, a, t, l) ==
    /\ pc[p] = "idle" /\ a <= made /\ ~Overdue(a)
    /\ az' = [az EXCEPT ![p] = a]
    /\ ty' = [ty EXCEPT ![p] = t]
    /\ ord' = [ord EXCEPT ![p] = aorder[a]]
    /\ Goto(p, l)
    /\ UNCHANGED <<conf, rows, clock, authz, op, seen, new, todo, names, serial, hist>>

\* handleChallenge up to its guards; a challenge mail is not sent twice.
Respond(p, a, t) ==
    /\ a <= made
    /\ chall[a][t] # "valid" /\ astatus[a] = "pending"
    /\ aid[a] \in AsyncIds => a \notin mailed
    /\ LoadAuthz(p, a, t, IF aid[a] \in AsyncIds THEN "mail" ELSE "attempt")

\* PollEmailChallenges picks a reply up; validateEmailReply loads its
\* authorization and goes straight to judging the reply.
MailReply(p, a, t) ==
    /\ a <= made /\ aid[a] \in AsyncIds
    /\ chall[a][t] = "processing" /\ astatus[a] = "pending"
    /\ LoadAuthz(p, a, t, "check")

\* UpdateACMEChallenge on the request's challenge, the error dropped.
SetChallenge(p, st) ==
    chall' \in Written(chall, az[p], [chall[az[p]] EXCEPT ![ty[p]] = st])

\* validateChallenge marks the challenge before its slow check.
Attempt(p) ==
    /\ pc[p] = "attempt"
    /\ SetChallenge(p, "processing")
    /\ Goto(p, "check")
    /\ UNCHANGED <<conf, rows, clock, aid, aorder, astatus, mailed,
                   op, ord, seen, new, todo, az, ty, names, serial, hist>>

\* sendEmailChallenge: MarkACMEChallengeEmailSent once the mail is out.
SendMail(p) ==
    /\ pc[p] = "mail"
    /\ chall' = [chall EXCEPT ![az[p]][ty[p]] = "processing"]
    /\ mailed' = mailed \cup {az[p]}
    /\ Answer(p)
    /\ UNCHANGED <<conf, rows, clock, aid, aorder, astatus, hist>>

\* The control check, or the judgement of a reply, succeeds.
CheckPasses(p) ==
    /\ pc[p] = "check"
    /\ proved' = proved \cup {az[p]}
    /\ SetChallenge(p, "valid")
    /\ Goto(p, "validate")
    /\ UNCHANGED <<conf, rows, clock, aid, aorder, astatus, mailed,
                   op, ord, seen, new, todo, az, ty, names, serial, issued, hasty>>

\* The check fails, or the challenge mail cannot be sent (failEmailChallenge).
CheckFails(p) ==
    /\ pc[p] \in {"check", "mail"}
    /\ SetChallenge(p, "invalid")
    /\ Goto(p, "invalidate")
    /\ UNCHANGED <<conf, rows, clock, aid, aorder, astatus, mailed,
                   op, ord, seen, new, todo, az, ty, names, serial, hist>>

\* UpdateACMEAuthorizationStatus with the outcome of the check.
StoreAuthz(p) ==
    /\ \/ /\ pc[p] = "validate"
          /\ astatus' \in Written(astatus, az[p], "valid")
          /\ Goto(p, "reload")
       \/ /\ pc[p] = "invalidate"
          /\ astatus' \in Written(astatus, az[p], "invalid")
          /\ Goto(p, "failorder")
    /\ UNCHANGED <<conf, rows, clock, aid, aorder, chall, mailed,
                   op, ord, seen, new, todo, az, ty, names, serial, hist>>

\* deactivateAuthz's own write, whose error ends the request.
StoreDeactivated(p) ==
    /\ pc[p] = "deactivate"
    /\ astatus' = [astatus EXCEPT ![az[p]] = "deactivated"]
    /\ Goto(p, "close")
    /\ UNCHANGED <<conf, rows, clock, aid, aorder, chall, mailed,
                   op, ord, seen, new, todo, az, ty, names, serial, hist>>

\* markOrderInvalid on the order_id read before the check; no row for "".
FailOrder(p) ==
    /\ pc[p] = "failorder"
    /\ status' = IF ord[p] \in Orders THEN [status EXCEPT ![ord[p]] = "invalid"] ELSE status
    /\ Answer(p)
    /\ UNCHANGED <<conf, star, cert, csr, renew, clock, authz, hist>>

\* GetACMEOrder on that order_id, then refreshOrderStatus or its early return.
Reload(p) ==
    /\ pc[p] = "reload"
    /\ IF ord[p] \in Orders /\ status[ord[p]] \notin Settled
         THEN /\ seen' = [seen EXCEPT ![p] = status[ord[p]]]
              /\ az' = [az EXCEPT ![p] = 0]
              /\ ty' = [ty EXCEPT ![p] = DefaultType]
              /\ Goto(p, "refresh")
              /\ UNCHANGED <<op, ord, new, todo, names, serial>>
         ELSE Answer(p)
    /\ UNCHANGED <<conf, rows, clock, authz, hist>>

\* handleAuthzUpdate: a pending or valid authorization is given up.
Deactivate(p, a) ==
    /\ conf.deactivate
    /\ astatus[a] \in {"pending", "valid"}
    /\ LoadAuthz(p, a, DefaultType, "deactivate")

\* invalidateAuthzChallenges, best-effort: the writes for the types in T succeed.
Close(p, T) ==
    /\ pc[p] = "close"
    /\ conf.drops \/ T = Types
    /\ chall' = [chall EXCEPT ![az[p]] =
                   [t \in Types |-> IF t \in T /\ @[t] \in {"pending", "processing"}
                                   THEN "invalid" ELSE @[t]]]
    /\ Goto(p, "reload")
    /\ UNCHANGED <<conf, rows, clock, aid, aorder, astatus, mailed,
                   op, ord, seen, new, todo, az, ty, names, serial, hist>>

-----------------------------------------------------------------------------
\* A request ends early: the process dies, its context is canceled, or a store
\* or CA call on which the handler returns fails; or its last write does.
Abort(p) ==
    /\ pc[p] # "idle"
    /\ Answer(p)
    /\ UNCHANGED <<conf, rows, clock, authz, hist>>

\* Time passes an order's expires, an authorization's, or a STAR end-date.
Lapse ==
    /\ \/ /\ \E o \in Orders \ lapsed : status[o] # "none" /\ lapsed' = lapsed \cup {o}
          /\ UNCHANGED <<alapsed, ended>>
       \/ /\ \E a \in (1..made) \ alapsed : alapsed' = alapsed \cup {a}
          /\ UNCHANGED <<lapsed, ended>>
       \/ /\ \E o \in Orders \ ended : star[o] /\ ended' = ended \cup {o}
          /\ UNCHANGED <<lapsed, alapsed>>
    /\ Cardinality(lapsed) + Cardinality(alapsed) + Cardinality(ended) < conf.lapses
    /\ UNCHANGED <<conf, rows, authz, local, hist>>

Ordering(p) ==
    \/ \E o \in Orders, I \in SUBSET Ids \ {{}}, s \in BOOLEAN : NewOrder(p, o, I, s)
    \/ \E i \in Ids : FindPreAuthorization(p, i) \/ Create(p, i)
    \/ Claim(p)

Refreshing(p) ==
    \/ \E o \in Orders, f \in {"other", "finalize"} : Load(p, o, f)
    \/ RefreshLapsed(p) \/ RefreshRead(p) \/ RefreshError(p)
    \/ \E a \in Authzs : StoreExpired(p, a)
    \/ StoreStatus(p)

Finalizing(p) ==
    \/ Match(p) \/ MarkProcessing(p) \/ Issue(p)
    \/ \E st \in {"ready", "invalid"} : IssueFails(p, st)
    \/ \E again \in BOOLEAN : Record(p, again)

Renewing(p) ==
    \/ \E o \in Orders : ListDue(p, o)
    \/ StopRenewal(p) \/ Reissue(p)
    \/ \E again \in BOOLEAN : RecordRenewal(p, again)

Authorizing(p) ==
    \/ \E a \in Authzs : LoadOverdue(p, a) \/ Deactivate(p, a)
    \/ \E a \in Authzs, t \in Types : Respond(p, a, t) \/ MailReply(p, a, t)
    \/ Expire(p) \/ Attempt(p) \/ SendMail(p) \/ CheckPasses(p) \/ CheckFails(p)
    \/ StoreAuthz(p) \/ StoreDeactivated(p) \/ FailOrder(p) \/ Reload(p)
    \/ \E T \in SUBSET Types : Close(p, T)

Next ==
    \/ \E p \in Procs : \/ Ordering(p) \/ Refreshing(p) \/ Finalizing(p)
                        \/ Renewing(p) \/ Authorizing(p) \/ Abort(p)
    \/ \E i \in Ids : NewAuthz(i)
    \/ \E o \in Orders : CancelStarOrder(o)
    \/ Lapse

Spec == Init /\ [][Next]_vars

-----------------------------------------------------------------------------
Certs == [serial : 1..MaxCerts, order : Orders, names : SUBSET Ids]
Labels == {"idle", "authorize", "claim", "create", "refresh", "store", "match",
           "processing", "issue", "record", "renew", "rerecord", "expire", "mail",
           "attempt", "check", "validate", "invalidate",
           "deactivate", "close", "reload", "failorder"}

\* Rows and locals hold values of their columns and Go types.
TypeOK ==
    /\ conf \in Scenarios
    /\ status \in [Orders -> OrderStatus \cup {"none"}]
    /\ star \in [Orders -> BOOLEAN] /\ renew \in [Orders -> BOOLEAN]
    /\ cert \in [Orders -> 0..MaxCerts] /\ csr \in [Orders -> SUBSET Ids]
    /\ lapsed \subseteq Orders /\ ended \subseteq Orders
    /\ made <= MaxAuthzs /\ alapsed \subseteq Authzs
    /\ aid \in Seq(Ids) /\ aorder \in [Authzs -> Orders \cup {NoOrder}]
    /\ astatus \in [Authzs -> AuthzStatus]
    /\ chall \in [Authzs -> [Types -> ChallStatus]] /\ mailed \subseteq 1..made
    /\ pc \in [Procs -> Labels] /\ op \in [Procs -> {"finalize", "other"}]
    /\ ord \in [Procs -> Orders \cup {NoOrder}]
    /\ seen \in [Procs -> {"pending", "ready", "canceled"}]
    /\ new \in [Procs -> {"pending", "ready", "invalid"}]
    /\ \A p \in Procs : todo[p] \subseteq Ids \/ todo[p] \subseteq Authzs
    /\ az \in [Procs -> 0..MaxAuthzs] /\ ty \in [Procs -> Types]
    /\ names \in [Procs -> SUBSET Ids] /\ serial \in [Procs -> 0..MaxCerts]
    /\ issued \subseteq Certs /\ proved \subseteq 1..made /\ hasty \subseteq Orders

\* Every name of every certificate issued for an order belongs to one of that
\* order's authorizations for which a control check has passed, first issuance
\* and STAR renewals alike: handleFinalize decides on the statuses one listing
\* returned and takes the names from another, while challenges, deactivations,
\* expiries, dropped writes and other finalizes of the order run in between.
\* Exempt is an order that refreshOrderStatus found ready before newOrder had
\* inserted all of its authorizations: the account's list of orders names an order
\* as soon as its row exists (handleAccountOrders).
CertifiedNamesWereValidated ==
    \A c \in issued : c.order \notin hasty =>
        \A n \in c.names : \E a \in proved : aid[a] = n /\ aorder[a] = c.order

\* The same without the exception: a certificate is for validated names only.
EveryCertifiedNameWasValidated ==
    \A c \in issued : \A n \in c.names :
        \E a \in proved : aid[a] = n /\ aorder[a] = c.order

\* A valid order serves a certificate that was issued for it, however finalizes,
\* renewals and status recomputations of it overlap.
ValidOrderServesItsCertificate ==
    \A o \in Orders : status[o] = "valid" =>
        \E c \in issued : c.serial = cert[o] /\ c.order = o

\* A canceled order has no renewal deadline: "a renewal in flight cannot
\* resurrect a canceled order" (RenewACMEStarOrder), neither its certificate's
\* recurrence nor its deadline.
CanceledIsNotRenewed ==
    \A o \in Orders : status[o] = "canceled" => ~renew[o]

\* An authorization, once part of an order, stays with that order: "two
\* concurrent orders for the same identifier cannot both reuse the same
\* pre-authorization" (ClaimACMEPreAuthorization).
ClaimedForGood ==
    [][\A a \in Authzs : aorder[a] # NoOrder => aorder'[a] = aorder[a]]_vars

\* "Terminal states (valid, invalid) are left untouched" by the recomputation
\* of an order's status (refreshOrderStatus).
RefreshKeepsTerminal ==
    [][\A p \in Procs : RefreshLapsed(p) \/ StoreStatus(p) =>
          \A o \in Orders : status[o] \in {"valid", "invalid"} => status'[o] = status[o]]_vars

\* "a deactivated authorization can never satisfy an order" (deactivateAuthz):
\* deactivation is final.
DeactivatedStays ==
    [][\A a \in Authzs : astatus[a] = "deactivated" => astatus'[a] = "deactivated"]_vars

\* Canceling a STAR order stops it for good: "the star-certificate URL begins
\* answering 403" (cancelStarOrder), which it does while the status is canceled.
CanceledStays ==
    [][\A o \in Orders : status[o] = "canceled" => status'[o] = "canceled"]_vars

\* A one-shot order yields one certificate: a client that retries finalize
\* "should just get the order back" (handleFinalize).
OneCertificatePerOrder ==
    \A c, d \in issued : c.order = d.order /\ ~star[c.order] => c = d

=============================================================================
