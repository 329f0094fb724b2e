------------------------------ MODULE Approval ------------------------------
(***************************************************************************)
(* The four-eyes gate: approval.Engine (internal/approval/engine.go) over  *)
(* its SQL store (internal/database/approval.go), and the server-side      *)
(* completion of a parked certificate (internal/issueapproval).            *)
(*                                                                         *)
(* Each call of the engine (Guard, Approve, Reject, SweepExpired,          *)
(* Complete) is a process that takes one step per database statement.      *)
(* What it read earlier is kept in its local record and may be stale when  *)
(* it is used.  Calls run on any replica, so all of them interleave.       *)
(***************************************************************************)
EXTENDS Integers, FiniteSets

CONSTANTS Users,       \* principals: makers and checkers
          Procs,       \* engine calls in progress, on any replica
          Requests,    \* ids of rows of pending_approvals
          Ops,         \* (tenant, class, fingerprint) of guarded operations
          ParkOps,     \* those of class cert.issue, completed by Complete
          Thresholds,  \* required_approvals a replica's policy may ask for
          TTL,         \* lifetime of a request
          MaxTime,     \* bound on the clock
          None

ASSUME ApprovalConstants ==
    /\ IsFiniteSet(Users)
    /\ ParkOps \subseteq Ops
    /\ Thresholds \subseteq Nat \ {0}
    /\ TTL \in Nat
    /\ MaxTime \in Nat
    /\ None \notin Users \union Requests \union Ops

VARIABLES now,     \* the clock the engines read
          status,  \* pending_approvals.status, "absent" before the INSERT
          info,    \* the columns written once by CreatePendingApproval
          votes,   \* approval_decisions, at most one row per approver
          result,  \* pending_approvals.result
          pc,      \* the statement each engine call is at
          arg,     \* its arguments and what it has read
          todo,    \* the rows a sweep has listed and not yet handled
          ran,     \* how often the operation of a request was performed
          denied,  \* how often the terminal hook fired for a request
          told     \* what Complete answered for a request

call == <<pc, arg, todo>>
vars == <<now, status, info, votes, result, call, ran, denied, told>>

Status == {"absent", "pending", "approved", "rejected", "executed", "expired"}
Open == {"pending", "approved"}
Terminal == {"rejected", "executed", "expired"}

Info == [op: Ops \union {None}, by: Users \union {None}, required: Nat,
         created: Nat, expires: Nat]

Labels == {"idle", "retire", "consume", "create", "run", "expire", "vote",
           "count", "approve", "veto", "reject", "sweep", "claimload",
           "claim", "reload", "issue", "recordok", "recorderr"}

Arg == [req: Requests \union {None}, user: Users \union {None},
        op: Ops \union {None}, seen: Status, at: Nat]

NoArg == [req |-> None, user |-> None, op |-> None, seen |-> "absent", at |-> 0]

Init ==
    /\ now = 0
    /\ status = [r \in Requests |-> "absent"]
    /\ info = [r \in Requests |-> [op |-> None, by |-> None, required |-> 0,
                                   created |-> 0, expires |-> 0]]
    /\ votes = [r \in Requests |-> [u \in Users |-> "none"]]
    /\ result = [r \in Requests |-> "empty"]
    /\ pc = [p \in Procs |-> "idle"]
    /\ arg = [p \in Procs |-> NoArg]
    /\ todo = [p \in Procs |-> {}]
    /\ ran = [r \in Requests |-> 0]
    /\ denied = [r \in Requests |-> 0]
    /\ told = [r \in Requests |-> {}]

-----------------------------------------------------------------------------
(* The statements of the store.                                            *)

\* The approvers whose sign-off CountApprovalDecisions counts.
Approvers(r) == {u \in Users : votes[r][u] = "approve"}

\* PendingApproval.Expired: strictly after the window.
Expired(r) == now > info[r].expires

\* UPDATE ... SET status = to WHERE id = r AND status = from.
SetApprovalStatus(r, from, to) ==
    status' = IF status[r] = from THEN [status EXCEPT ![r] = to] ELSE status

\* Mutant: the hook fires whether or not the update changed the row.
RetireAlwaysTells(r, from, to) ==
    /\ SetApprovalStatus(r, from, to)
    /\ denied' = [denied EXCEPT ![r] = @ + 1]

\* A retiring update fires the terminal hook only if it changed the row, and
\* not if the replica dies in between.
Retire(r, from, to) ==
    /\ SetApprovalStatus(r, from, to)
    /\ \/ denied' = IF status[r] = from THEN [denied EXCEPT ![r] = @ + 1] ELSE denied
       \/ UNCHANGED denied

\* Mutant: INSERT OR REPLACE, a later vote of an approver replaces the first.
ReplaceApprovalDecision(r, u, d) ==
    votes' = [votes EXCEPT ![r][u] = d]

\* INSERT OR IGNORE under UNIQUE(approval_id, approver).
AddApprovalDecision(r, u, d) ==
    votes' = IF votes[r][u] = "none" THEN [votes EXCEPT ![r][u] = d] ELSE votes

\* The newest open requests of an operation; created_at may tie.
FindOpenApproval(o) ==
    LET open == {r \in Requests : status[r] \in Open /\ info[r].op = o}
    IN {r \in open : \A q \in open : info[q].created <= info[r].created}

Goto(p, l) == pc' = [pc EXCEPT ![p] = l] /\ UNCHANGED <<arg, todo>>
Return(p) ==
    /\ pc' = [pc EXCEPT ![p] = "idle"]
    /\ arg' = [arg EXCEPT ![p] = NoArg]
    /\ todo' = [todo EXCEPT ![p] = {}]
Enter(p, l, r, u, o) ==
    /\ pc[p] = "idle"
    /\ pc' = [pc EXCEPT ![p] = l]
    /\ arg' = [arg EXCEPT ![p] = [req |-> r, user |-> u, op |-> o,
                  seen |-> IF r = None THEN "absent" ELSE status[r], at |-> now]]
    /\ UNCHANGED todo

-----------------------------------------------------------------------------
(* Guard.                                                                  *)

\* The lookup and the branch on what it returned.  A pending request, and
\* an approved one of a ParkOnly class, block the call and change nothing.
GuardFind(p, u, o) ==
    /\ \/ /\ FindOpenApproval(o) = {}
          /\ Enter(p, "create", None, u, o)
       \/ \E r \in FindOpenApproval(o) :
             \/ /\ Expired(r)
                /\ Enter(p, "retire", r, u, o)
             \/ /\ ~Expired(r)
                /\ status[r] = "approved"
                /\ o \notin ParkOps
                /\ Enter(p, "consume", r, u, o)
    /\ UNCHANGED <<now, status, info, votes, result, ran, denied, told>>

\* The stale request is retired; an error of the update is ignored.
GuardRetire(p) ==
    /\ pc[p] = "retire"
    /\ \/ Retire(arg[p].req, arg[p].seen, "expired")
       \/ UNCHANGED <<status, denied>>
    /\ Goto(p, "create")
    /\ UNCHANGED <<now, info, votes, result, ran, told>>

\* approved -> executed: the winner may run the operation.
GuardConsume(p) ==
    /\ pc[p] = "consume"
    /\ SetApprovalStatus(arg[p].req, "approved", "executed")
    /\ IF status[arg[p].req] = "approved" THEN Goto(p, "run") ELSE Return(p)
    /\ UNCHANGED <<now, info, votes, result, ran, denied, told>>

\* A fresh pending request; the replica's policy fixes the threshold.
GuardCreate(p) ==
    /\ pc[p] = "create"
    /\ \E r \in Requests, n \in Thresholds :
          /\ status[r] = "absent"
          /\ status' = [status EXCEPT ![r] = "pending"]
          /\ info' = [info EXCEPT ![r] = [op |-> arg[p].op, by |-> arg[p].user,
                        required |-> n, created |-> arg[p].at,
                        expires |-> arg[p].at + TTL]]
    /\ Return(p)
    /\ UNCHANGED <<now, votes, result, ran, denied, told>>

\* The caller Guard allowed performs the operation.
RunOperation(p) ==
    /\ pc[p] = "run"
    /\ ran' = [ran EXCEPT ![arg[p].req] = @ + 1]
    /\ Return(p)
    /\ UNCHANGED <<now, status, info, votes, result, denied, told>>

-----------------------------------------------------------------------------
(* Approve and Reject.                                                     *)

\* Mutant: self-approval is not denied.
ApproveLoadSelf(p, u, r) ==
    /\ status[r] = "pending"
    /\ Enter(p, IF Expired(r) THEN "expire" ELSE "vote", r, u, None)
    /\ UNCHANGED <<now, status, info, votes, result, ran, denied, told>>

ApproveLoad(p, u, r) ==
    /\ status[r] = "pending"
    /\ \/ /\ Expired(r)
          /\ Enter(p, "expire", r, u, None)
       \/ /\ ~Expired(r)
          /\ u # info[r].by
          /\ Enter(p, "vote", r, u, None)
    /\ UNCHANGED <<now, status, info, votes, result, ran, denied, told>>

ExpireOnLoad(p) ==
    /\ pc[p] = "expire"
    /\ Retire(arg[p].req, arg[p].seen, "expired")
    /\ Return(p)
    /\ UNCHANGED <<now, info, votes, result, ran, told>>

ApproveVote(p) ==
    /\ pc[p] = "vote"
    /\ AddApprovalDecision(arg[p].req, arg[p].user, "approve")
    /\ IF votes[arg[p].req][arg[p].user] = "none"
       THEN Goto(p, "count") ELSE Return(p)
    /\ UNCHANGED <<now, status, info, result, ran, denied, told>>

ApproveCount(p) ==
    /\ pc[p] = "count"
    /\ IF Cardinality(Approvers(arg[p].req)) >= info[arg[p].req].required
       THEN Goto(p, "approve") ELSE Return(p)
    /\ UNCHANGED <<now, status, info, votes, result, ran, denied, told>>

ApproveMark(p) ==
    /\ pc[p] = "approve"
    /\ SetApprovalStatus(arg[p].req, "pending", "approved")
    /\ Return(p)
    /\ UNCHANGED <<now, info, votes, result, ran, denied, told>>

\* Any approver, or the requester, may reject.
RejectLoad(p, u, r) ==
    /\ status[r] = "pending"
    /\ Enter(p, IF Expired(r) THEN "expire" ELSE "veto", r, u, None)
    /\ UNCHANGED <<now, status, info, votes, result, ran, denied, told>>

\* Best effort: neither a duplicate nor an error stops the rejection.
RejectVeto(p) ==
    /\ pc[p] = "veto"
    /\ \/ AddApprovalDecision(arg[p].req, arg[p].user, "reject")
       \/ UNCHANGED votes
    /\ Goto(p, "reject")
    /\ UNCHANGED <<now, status, info, result, ran, denied, told>>

RejectMark(p) ==
    /\ pc[p] = "reject"
    /\ Retire(arg[p].req, "pending", "rejected")
    /\ Return(p)
    /\ UNCHANGED <<now, info, votes, result, ran, told>>

-----------------------------------------------------------------------------
(* SweepExpired, from the leader's hourly loop, the CLI or the REST API.   *)

SweepList(p) ==
    LET due == {r \in Requests : status[r] \in Open /\ info[r].expires <= now}
    IN /\ pc[p] = "idle"
       /\ due # {}
       /\ pc' = [pc EXCEPT ![p] = "sweep"]
       /\ todo' = [todo EXCEPT ![p] = {<<r, status[r]>> : r \in due}]
       /\ UNCHANGED <<now, status, info, votes, result, arg, ran, denied, told>>

\* One row, in deadline order, by the status the list carried; an error of
\* the update skips the row.
SweepRow(p) ==
    /\ pc[p] = "sweep"
    /\ \E e \in todo[p] :
          /\ \A f \in todo[p] : info[e[1]].expires <= info[f[1]].expires
          /\ \/ Retire(e[1], e[2], "expired")
             \/ UNCHANGED <<status, denied>>
          /\ IF todo[p] = {e} THEN Return(p)
             ELSE todo' = [todo EXCEPT ![p] = @ \ {e}] /\ UNCHANGED <<pc, arg>>
    /\ UNCHANGED <<now, info, votes, result, ran, told>>

-----------------------------------------------------------------------------
(* issueapproval.Complete: claim, issue on the HSM, record the serial.     *)

\* Mutant: an executed request is taken to have its certificate.
DeliverAssumed(r) == told' = [told EXCEPT ![r] = @ \union {"delivered"}]

\* deliverRecorded: what the row's result says, whoever produced it.
DeliverRecorded(r) ==
    told' = [told EXCEPT ![r] = @ \union
                {IF result[r] = "serial" THEN "delivered" ELSE "failed"}]

CompleteGet(p, r) ==
    /\ info[r].op \in ParkOps
    /\ pc[p] = "idle"
    /\ \/ /\ status[r] = "executed"
          /\ DeliverRecorded(r)
          /\ UNCHANGED call
       \/ /\ status[r] = "approved"
          /\ Enter(p, "claimload", r, None, None)
          /\ UNCHANGED told
    /\ UNCHANGED <<now, status, info, votes, result, ran, denied>>

\* The load of Claim, and its reload after a lost claim.
ClaimLoad(p) ==
    /\ pc[p] \in {"claimload", "reload"}
    /\ IF status[arg[p].req] = "executed"
       THEN DeliverRecorded(arg[p].req) ELSE UNCHANGED told
    /\ IF status[arg[p].req] = "approved" /\ pc[p] = "claimload"
       THEN Goto(p, "claim") ELSE Return(p)
    /\ UNCHANGED <<now, status, info, votes, result, ran, denied>>

\* Mutant: a lost claim goes on like a won one.
ClaimUnchecked(p) ==
    /\ pc[p] = "claim"
    /\ SetApprovalStatus(arg[p].req, "approved", "executed")
    /\ Goto(p, "issue")
    /\ UNCHANGED <<now, info, votes, result, ran, denied, told>>

Claim(p) ==
    /\ pc[p] = "claim"
    /\ SetApprovalStatus(arg[p].req, "approved", "executed")
    /\ Goto(p, IF status[arg[p].req] = "approved" THEN "issue" ELSE "reload")
    /\ UNCHANGED <<now, info, votes, result, ran, denied, told>>

\* IssueCertificate succeeds and inserts the row of the certificate, or fails.
IssueCertificate(p) ==
    /\ pc[p] = "issue"
    /\ \/ /\ ran' = [ran EXCEPT ![arg[p].req] = @ + 1]
          /\ Goto(p, "recordok")
       \/ /\ Goto(p, "recorderr")
          /\ UNCHANGED ran
    /\ UNCHANGED <<now, status, info, votes, result, denied, told>>

\* The result is stored and the caller answered.  An error of the store is
\* ignored when it records a failure and returned when it records a serial.
RecordResult(p) ==
    /\ \/ /\ pc[p] = "recordok"
          /\ result' = [result EXCEPT ![arg[p].req] = "serial"]
          /\ told' = [told EXCEPT ![arg[p].req] = @ \union {"delivered"}]
       \/ /\ pc[p] = "recorderr"
          /\ \/ result' = [result EXCEPT ![arg[p].req] = "error"]
             \/ UNCHANGED result
          /\ told' = [told EXCEPT ![arg[p].req] = @ \union {"failed"}]
    /\ Return(p)
    /\ UNCHANGED <<now, status, info, votes, ran, denied>>

-----------------------------------------------------------------------------
\* A statement fails or the replica dies: the call ends where it is.
Abort(p) ==
    /\ pc[p] # "idle"
    /\ Return(p)
    /\ UNCHANGED <<now, status, info, votes, result, ran, denied, told>>

Tick ==
    /\ now < MaxTime
    /\ now' = now + 1
    /\ UNCHANGED <<status, info, votes, result, call, ran, denied, told>>

\* The step that ends a database statement of call p.
Advance(p) ==
    \/ GuardRetire(p) \/ GuardConsume(p) \/ GuardCreate(p) \/ RunOperation(p)
    \/ ExpireOnLoad(p) \/ ApproveVote(p) \/ ApproveCount(p) \/ ApproveMark(p)
    \/ RejectVeto(p) \/ RejectMark(p) \/ SweepRow(p)
    \/ ClaimLoad(p) \/ Claim(p) \/ IssueCertificate(p) \/ RecordResult(p)

Next ==
    \/ \E p \in Procs :
          \/ \E u \in Users, o \in Ops : GuardFind(p, u, o)
          \/ \E u \in Users, r \in Requests : ApproveLoad(p, u, r) \/ RejectLoad(p, u, r)
          \/ \E r \in Requests : CompleteGet(p, r)
          \/ SweepList(p)
          \/ Advance(p)
          \/ Abort(p)
    \/ Tick

Spec == Init /\ [][Next]_vars

-----------------------------------------------------------------------------
\* Every variable keeps the shape of the column or local it stands for.
TypeOK ==
    /\ now \in Nat
    /\ status \in [Requests -> Status]
    /\ info \in [Requests -> Info]
    /\ votes \in [Requests -> [Users -> {"none", "approve", "reject"}]]
    /\ result \in [Requests -> {"empty", "serial", "error"}]
    /\ pc \in [Procs -> Labels]
    /\ arg \in [Procs -> Arg]
    /\ todo \in [Procs -> SUBSET (Requests \X Status)]
    /\ ran \in [Requests -> Nat]
    /\ denied \in [Requests -> Nat]
    /\ told \in [Requests -> SUBSET {"delivered", "failed"}]

\* The gate's promise (Guard: "allows the operation exactly once"): however
\* many callers race, one approved request performs its operation at most
\* once, and none performs it that is not marked executed.
AtMostOnce == \A r \in Requests : ran[r] <= 1 /\ (ran[r] = 1 => status[r] = "executed")

\* Four eyes: a request is approved, or was consumed, only with the sign-off
\* of the number of distinct principals its row asked for when it was
\* created, and the requester is not one of them.
FourEyes ==
    \A r \in Requests :
        /\ info[r].by \notin Approvers(r)
        /\ status[r] \in {"approved", "executed"} =>
              Cardinality(Approvers(r)) >= info[r].required

\* A request the terminal hook reported denied or expired is never run
\* afterwards or concurrently, and is reported once (Reject, expire and
\* SweepExpired fire the hook only when their update changed the row).
DenialIsFinal ==
    \A r \in Requests :
        /\ denied[r] <= 1
        /\ denied[r] = 1 => status[r] \in {"rejected", "expired"} /\ ran[r] = 0

\* No call moves a terminal request, and none skips the approved status:
\* every stale compare-and-set of Guard, Approve, Reject, Claim and the
\* sweep loses.
StatusStep ==
    [][\A r \in Requests :
          /\ status[r] \in Terminal => status'[r] = status[r]
          /\ status'[r] = "executed" => status[r] \in {"approved", "executed"}
          /\ status'[r] = "rejected" => status[r] \in {"pending", "rejected"}]_vars

\* A certificate is handed out only when one was issued under the request,
\* and a serial is on record only for an executed request: no reader of the
\* row sees a result that precedes the claim.
DeliveredWasIssued ==
    \A r \in Requests :
        /\ ("delivered" \in told[r] \/ result[r] = "serial") => ran[r] = 1
        /\ result[r] # "empty" => status[r] = "executed"

\* The engine, statement by statement, implements the atomic gate.
PhaseOf(st) ==
    CASE st = "absent" -> "none"
      [] st = "pending" -> "held"
      [] st = "approved" -> "authorized"
      [] st = "executed" -> "consumed"
      [] OTHER -> "refused"

Gate == INSTANCE ApprovalGate WITH
    phase <- [r \in Requests |-> PhaseOf(status[r])],
    maker <- [r \in Requests |-> info[r].by],
    need <- [r \in Requests |-> info[r].required],
    signed <- [r \in Requests |-> Approvers(r)],
    done <- ran

\* Guard, Approve, Reject, Claim and the sweep, with every interleaving and
\* every call that dies half way, allow only what ApprovalGate allows: no
\* authorization without its signatures, one consumption, one performance,
\* no way back from a refusal.
ImplementsGate == Gate!Spec

-----------------------------------------------------------------------------
(* What comments and documents say of the gate, where the code disagrees.  *)

\* docs/security/approvals.md: stale requests "are also enforced
\* fail-closed at read time": a completer that arrives after the window
\* does not get to issue.
CompleteWindow ==
    \A p \in Procs : pc[p] = "issue" => arg[p].at <= info[arg[p].req].expires

\* Complete: "racing or later callers receive the already-issued
\* certificate": the callers of one request do not disagree.
CompletersAgree == \A r \in Requests : told[r] # {"delivered", "failed"}

\* Approve: "When the count of distinct approvers reaches the required
\* threshold the request transitions to approved": with no vote in
\* progress, no request with enough sign-offs is still pending.
ThresholdTakesEffect ==
    (\A p \in Procs : pc[p] \notin {"count", "approve"}) =>
        \A r \in Requests : status[r] = "pending" =>
            Cardinality(Approvers(r)) < info[r].required

\* issueapproval.Params: "a re-attempt with identical inputs reuses the
\* same pending request rather than spawning a duplicate".
OneOpenRequest ==
    \A r, q \in Requests : status[r] \in Open /\ status[q] \in Open
                             /\ info[r].op = info[q].op => r = q

\* Reject: "A single rejection is terminal (four-eyes: any approver may
\* block)": a request with a recorded veto is not performed.
VetoBlocks ==
    \A r \in Requests : (\E u \in Users : votes[r][u] = "reject") => ran[r] = 0
=============================================================================
