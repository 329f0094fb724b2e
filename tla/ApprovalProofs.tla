------------------------- MODULE ApprovalProofs --------------------------
(***************************************************************************)
(* The approval engine keeps its promises.  The types come first, then the *)
(* inductive invariant IInv; what IInv says of the promises, of the status *)
(* moves and of the atomic gate; that every step keeps it (what a call has *)
(* read of a row stays true of it: Rows, Owner and Locals); the theorems   *)
(* last.                                                                   *)
(***************************************************************************)
EXTENDS Approval, TLAPS

USE ApprovalConstants

LEMMA TypeInit == Init => TypeOK
BY DEF Init, TypeOK, Status, Info, Labels, Arg, NoArg

\* The local state stays typed under the three ways a call moves.
LEMMA CallTypes ==
    ASSUME TypeOK, NEW p \in Procs
    PROVE  LET T == pc' \in [Procs -> Labels] /\ arg' \in [Procs -> Arg]
                    /\ todo' \in [Procs -> SUBSET (Requests \X Status)]
           IN /\ Return(p) => T
              /\ \A l \in Labels : Goto(p, l) => T
              /\ \A l \in Labels, r \in Requests \union {None},
                    u \in Users \union {None}, o \in Ops \union {None} :
                       Enter(p, l, r, u, o) => T
<1> USE DEF TypeOK
<1> DEFINE T == pc' \in [Procs -> Labels] /\ arg' \in [Procs -> Arg]
                /\ todo' \in [Procs -> SUBSET (Requests \X Status)]
<1>1. Return(p) => T
  BY DEF Return, NoArg, Arg, Status, Labels
<1>2. ASSUME NEW l \in Labels, Goto(p, l) PROVE T
  BY <1>2 DEF Goto
<1>3. ASSUME NEW l \in Labels, NEW r \in Requests \union {None},
             NEW u \in Users \union {None}, NEW o \in Ops \union {None},
             Enter(p, l, r, u, o)
      PROVE  T
  <2>1. (IF r = None THEN "absent" ELSE status[r]) \in Status
    BY DEF Status
  <2> QED BY <1>3, <2>1 DEF Enter, Arg
<1> QED BY <1>1, <1>2, <1>3

\* The statements keep their columns typed.
LEMMA Increment ==
    ASSUME NEW S, NEW f \in [S -> Nat], NEW r
    PROVE  [f EXCEPT ![r] = @ + 1] \in [S -> Nat]
<1>1. CASE r \in S
  <2>1. f[r] + 1 \in Nat
    BY <1>1
  <2> QED BY <1>1, <2>1
<1>2. CASE r \notin S
  BY <1>2, Zenon
<1> QED BY <1>1, <1>2

LEMMA RetireTypes ==
    ASSUME TypeOK, NEW r, NEW from, NEW to \in Status, Retire(r, from, to)
    PROVE  status' \in [Requests -> Status] /\ denied' \in [Requests -> Nat]
<1>1. [denied EXCEPT ![r] = @ + 1] \in [Requests -> Nat]
  BY Increment DEF TypeOK
<1> QED BY <1>1, Zenon DEF TypeOK, Retire, SetApprovalStatus

LEMMA DecisionTypes ==
    ASSUME TypeOK, NEW r, NEW u, NEW d \in {"approve", "reject"},
           AddApprovalDecision(r, u, d)
    PROVE  votes' \in [Requests -> [Users -> {"none", "approve", "reject"}]]
<1>1. \A x \in Requests : [votes[x] EXCEPT ![u] = d] \in [Users -> {"none", "approve", "reject"}]
  BY Zenon DEF TypeOK
<1>2. [votes EXCEPT ![r] = [votes[r] EXCEPT ![u] = d]]
         \in [Requests -> [Users -> {"none", "approve", "reject"}]]
  BY <1>1, Zenon DEF TypeOK
<1> QED BY <1>2 DEF TypeOK, AddApprovalDecision

LEMMA ToldTypes ==
    ASSUME TypeOK, NEW r, NEW a \in {"delivered", "failed"}
    PROVE  [told EXCEPT ![r] = @ \union {a}] \in [Requests -> SUBSET {"delivered", "failed"}]
<1>1. \A x \in Requests : told[x] \union {a} \in SUBSET {"delivered", "failed"}
  BY DEF TypeOK
<1> QED BY <1>1, Zenon DEF TypeOK

LEMMA TypeStep == TypeOK /\ [Next]_vars => TypeOK'
<1> SUFFICES ASSUME TypeOK, [Next]_vars PROVE TypeOK'
  OBVIOUS
<1> USE DEF TypeOK
<1>1. ASSUME NEW p \in Procs, NEW u \in Users, NEW o \in Ops, GuardFind(p, u, o)
      PROVE  TypeOK'
  BY <1>1, CallTypes, Zenon DEF GuardFind, FindOpenApproval, Labels
<1>2. ASSUME NEW p \in Procs, NEW u \in Users, NEW r \in Requests,
             ApproveLoad(p, u, r) \/ RejectLoad(p, u, r)
      PROVE  TypeOK'
  BY <1>2, CallTypes, Zenon DEF ApproveLoad, RejectLoad, Labels
<1>3. ASSUME NEW p \in Procs, NEW r \in Requests, CompleteGet(p, r)
      PROVE  TypeOK'
  <2>1. told' \in [Requests -> SUBSET {"delivered", "failed"}]
    BY <1>3, ToldTypes DEF CompleteGet, DeliverRecorded
  <2> QED BY <1>3, <2>1, CallTypes, Zenon DEF CompleteGet, Labels, call
<1>4. ASSUME NEW p \in Procs, SweepList(p) PROVE TypeOK'
  BY <1>4 DEF SweepList, Labels
<1>5. ASSUME NEW p \in Procs, Advance(p) PROVE TypeOK'
  <2>1. CASE GuardRetire(p)
    <3>1. status' \in [Requests -> Status] /\ denied' \in [Requests -> Nat]
      BY <2>1, RetireTypes DEF GuardRetire, Status
    <3> QED BY Zenon, <2>1, <3>1, CallTypes DEF GuardRetire, Labels
  <2>2. CASE GuardConsume(p)
    BY <2>2, CallTypes, Zenon DEF GuardConsume, SetApprovalStatus, Status, Labels
  <2>3. CASE GuardCreate(p)
    BY <2>3, CallTypes DEF GuardCreate, Status, Info, Arg
  <2>4. CASE RunOperation(p)
    BY <2>4, CallTypes, Increment, Zenon DEF RunOperation
  <2>5. CASE ExpireOnLoad(p)
    <3>1. status' \in [Requests -> Status] /\ denied' \in [Requests -> Nat]
      BY <2>5, RetireTypes DEF ExpireOnLoad, Status
    <3> QED BY <2>5, <3>1, CallTypes DEF ExpireOnLoad
  <2>6. CASE ApproveVote(p)
    BY <2>6, CallTypes, Zenon DEF ApproveVote, AddApprovalDecision, Labels
  <2>7. CASE ApproveCount(p)
    BY Zenon, <2>7, CallTypes DEF ApproveCount, Labels
  <2>8. CASE ApproveMark(p)
    BY <2>8, CallTypes, Zenon DEF ApproveMark, SetApprovalStatus, Status
  <2>9. CASE RejectVeto(p)
    <3>1. votes' \in [Requests -> [Users -> {"none", "approve", "reject"}]]
      BY Zenon, <2>9, DecisionTypes DEF RejectVeto
    <3> QED BY Zenon, <2>9, <3>1, CallTypes DEF RejectVeto, Labels
  <2>10. CASE RejectMark(p)
    <3>1. status' \in [Requests -> Status] /\ denied' \in [Requests -> Nat]
      BY <2>10, RetireTypes DEF RejectMark, Status
    <3> QED BY Zenon, <2>10, <3>1, CallTypes DEF RejectMark
  <2>11. CASE SweepRow(p)
    <3>1. PICK e \in todo[p] :
              /\ Retire(e[1], e[2], "expired") \/ UNCHANGED <<status, denied>>
              /\ Return(p) \/ (todo' = [todo EXCEPT ![p] = @ \ {e}] /\ UNCHANGED <<pc, arg>>)
      BY <2>11 DEF SweepRow
    <3>2. status' \in [Requests -> Status] /\ denied' \in [Requests -> Nat]
      BY <3>1, RetireTypes DEF Status
    <3>3. pc' \in [Procs -> Labels] /\ arg' \in [Procs -> Arg]
          /\ todo' \in [Procs -> SUBSET (Requests \X Status)]
      <4>1. todo[p] \ {e} \in SUBSET (Requests \X Status)
        OBVIOUS
      <4>2. CASE Return(p)
        BY <4>2, CallTypes
      <4>3. CASE todo' = [todo EXCEPT ![p] = @ \ {e}] /\ UNCHANGED <<pc, arg>>
        BY Zenon, <4>1, <4>3
      <4> QED BY <3>1, <4>2, <4>3
    <3> QED BY <2>11, <3>2, <3>3 DEF SweepRow
  <2>12. CASE ClaimLoad(p)
    <3>1. told' \in [Requests -> SUBSET {"delivered", "failed"}]
      BY <2>12, ToldTypes DEF ClaimLoad, DeliverRecorded
    <3> QED BY Zenon, <2>12, <3>1, CallTypes DEF ClaimLoad, Labels
  <2>13. CASE Claim(p)
    BY <2>13, CallTypes, Zenon DEF Claim, SetApprovalStatus, Status, Labels
  <2>14. CASE IssueCertificate(p)
    <3>1. ran' \in [Requests -> Nat]
      BY <2>14, Increment DEF IssueCertificate
    <3> QED BY Zenon, <2>14, <3>1, CallTypes DEF IssueCertificate, Labels
  <2>15. CASE RecordResult(p)
    <3>1. told' \in [Requests -> SUBSET {"delivered", "failed"}]
      BY <2>15, ToldTypes DEF RecordResult
    <3> QED BY Zenon, <2>15, <3>1, CallTypes DEF RecordResult
  <2> QED
    BY <1>5, <2>1, <2>2, <2>3, <2>4, <2>5, <2>6, <2>7, <2>8, <2>9, <2>10,
       <2>11, <2>12, <2>13, <2>14, <2>15 DEF Advance
<1>6. ASSUME NEW p \in Procs, Abort(p) PROVE TypeOK'
  BY <1>6, CallTypes DEF Abort
<1>7. CASE Tick
  BY <1>7 DEF Tick, call
<1>8. CASE UNCHANGED vars
  BY <1>8 DEF vars, call
<1> QED
  BY <1>1, <1>2, <1>3, <1>4, <1>5, <1>6, <1>7, <1>8 DEF Next

\* Every variable keeps its type.
THEOREM TypeCorrect == Spec => []TypeOK
BY TypeInit, TypeStep, PTL DEF Spec

-----------------------------------------------------------------------------
(* The inductive invariant: what each row says of its history (Rows), what *)
(* a call that is under way may still rely on although it read it earlier  *)
(* (Locals), and that at most one call owns a consumed request (Owner).    *)

Enough(r) == Cardinality(Approvers(r)) >= info[r].required

Row(r) ==
    /\ status[r] = "absent" => \A u \in Users : votes[r][u] = "none"
    /\ \A u \in Users : votes[r][u] = "approve" => u # info[r].by
    /\ status[r] \in {"approved", "executed"} => Enough(r)
    /\ ran[r] \in {0, 1} /\ (ran[r] = 1 => status[r] = "executed")
    /\ denied[r] \in {0, 1} /\ (denied[r] = 1 => status[r] \in {"rejected", "expired"})
    /\ result[r] = "serial" \/ "delivered" \in told[r] => ran[r] = 1
    /\ result[r] # "empty" => status[r] = "executed"

Rows == \A r \in Requests : Row(r)

Local(p) ==
    /\ pc[p] \notin {"idle", "create", "sweep"} =>
          arg[p].req \in Requests /\ status[arg[p].req] # "absent"
    /\ pc[p] \in {"retire", "create", "vote", "veto"} => arg[p].user \in Users
    /\ pc[p] = "vote" => arg[p].user # info[arg[p].req].by
    /\ pc[p] = "approve" => Enough(arg[p].req)
    /\ pc[p] \in {"retire", "expire"} => arg[p].seen \in Open
    /\ \A e \in todo[p] : e[2] \in Open
    /\ pc[p] \in {"run", "issue"} => status[arg[p].req] = "executed" /\ ran[arg[p].req] = 0
    /\ pc[p] \in {"recordok", "recorderr"} => status[arg[p].req] = "executed"
    /\ pc[p] = "recordok" => ran[arg[p].req] = 1

Locals == \A p \in Procs : Local(p)

Owner ==
    \A p, q \in Procs :
        pc[p] \in {"run", "issue"} /\ pc[q] \in {"run", "issue"}
            /\ arg[p].req = arg[q].req => p = q

\* What finiteness of Users gives of counting them; it enters as a premise
\* here, and ApprovalProofs discharges it.
CountsGrow ==
    \A S \in SUBSET Users :
        Cardinality(S) \in Nat /\ \A T \in SUBSET S : Cardinality(T) <= Cardinality(S)

IInv == TypeOK /\ CountsGrow /\ Rows /\ Locals /\ Owner

LEMMA IInvInit ==
    ASSUME Init, CountsGrow
    PROVE  IInv
<1>1. Rows
  BY DEF Init, Rows, Row
<1>2. Locals
  BY DEF Init, Locals, Local
<1>3. Owner
  BY DEF Init, Owner
<1> QED BY <1>1, <1>2, <1>3, TypeInit DEF IInv

\* Single facts of TypeOK, for the steps that need no more of it.
LEMMA ListedTypes ==
    ASSUME TypeOK, NEW p \in Procs, NEW e \in todo[p]
    PROVE  e[1] \in Requests /\ e[2] \in Status
<1>1. todo[p] \subseteq Requests \X Status
  BY Zenon DEF TypeOK
<1> QED BY <1>1

-----------------------------------------------------------------------------
(* What no step undoes.                                                    *)

\* A row, once inserted, stays, with the columns of its INSERT; sign-offs and
\* the executed status are never taken back.
Grows(r) ==
    status[r] # "absent" =>
        /\ status'[r] # "absent" /\ info'[r] = info[r]
        /\ status[r] = "executed" => status'[r] = "executed"
        /\ \A u \in Users : votes[r][u] = "approve" => votes'[r][u] = "approve"

LEMMA EnoughKept ==
    ASSUME TypeOK, CountsGrow, NEW r \in Requests, status[r] # "absent", Grows(r), Enough(r), TypeOK'
    PROVE  Enough(r)'
<1> DEFINE A == {u \in Users : votes[r][u] = "approve"}
           B == {u \in Users : votes'[r][u] = "approve"}
<1>1. A \in SUBSET B /\ A \in SUBSET Users /\ B \in SUBSET Users
  BY Zenon DEF Grows
<1>2. Cardinality(A) <= Cardinality(B) /\ Cardinality(A) \in Nat /\ Cardinality(B) \in Nat
  BY Zenon, <1>1 DEF CountsGrow
<1>3. A = Approvers(r) /\ B = Approvers(r)' /\ info'[r] = info[r] /\ info[r].required \in Nat
  BY Zenon DEF Approvers, Grows, TypeOK, Info
<1> HIDE DEF A, B
<1> QED BY <1>2, <1>3 DEF Enough

\* What a call relies on survives the steps of the others.
LEMMA LocalKept ==
    ASSUME IInv, TypeOK', NEW p \in Procs,
           pc'[p] = pc[p], arg'[p] = arg[p], todo'[p] \subseteq todo[p],
           \A r \in Requests : Grows(r),
           pc[p] \in {"run", "issue", "recordok"} => ran'[arg[p].req] = ran[arg[p].req]
    PROVE  Local(p)'
<1>1. Local(p)
  BY Zenon DEF IInv, Locals
<1>2. pc[p] = "approve" => Enough(arg[p].req)'
  BY Zenon, <1>1, EnoughKept DEF IInv, Local
<1>3. pc[p] \notin {"idle", "create", "sweep"} =>
         status'[arg[p].req] # "absent" /\ info'[arg[p].req] = info[arg[p].req]
         /\ (status[arg[p].req] = "executed" => status'[arg[p].req] = "executed")
  BY Zenon, <1>1 DEF Local, Grows
<1> QED BY Zenon, <1>1, <1>2, <1>3 DEF Local

\* A vote that is cast is not overwritten.
LEMMA VotesKept ==
    ASSUME TypeOK, NEW r, NEW u, NEW d, AddApprovalDecision(r, u, d)
    PROVE  \A x \in Requests, v \in Users : votes[x][v] # "none" => votes'[x][v] = votes[x][v]
<1>1. votes \in [Requests -> [Users -> {"none", "approve", "reject"}]]
  BY Zenon DEF TypeOK
<1> QED BY <1>1 DEF AddApprovalDecision

\* The compare-and-set updates and the inserts only let rows grow.
LEMMA GrowsStep ==
    ASSUME IInv, Next
    PROVE  \A r \in Requests : Grows(r)
<1> USE DEF IInv, TypeOK, Grows
<1>1. ASSUME NEW p \in Procs, Advance(p) PROVE \A r \in Requests : Grows(r)
  <2>0. Local(p)
    BY Zenon DEF Locals
  <2>1. CASE GuardRetire(p)
    BY Zenon, <2>0, <2>1 DEF GuardRetire, Retire, SetApprovalStatus, Local, Open
  <2>2. CASE GuardConsume(p)
    BY Zenon, <2>2 DEF GuardConsume, SetApprovalStatus
  <2>3. CASE GuardCreate(p)
    BY Zenon, <2>3 DEF GuardCreate
  <2>5. CASE ExpireOnLoad(p)
    BY Zenon, <2>0, <2>5 DEF ExpireOnLoad, Retire, SetApprovalStatus, Local, Open
  <2>6. CASE ApproveVote(p)
    BY Zenon, <2>6, VotesKept DEF ApproveVote
  <2>8. CASE ApproveMark(p)
    BY Zenon, <2>8 DEF ApproveMark, SetApprovalStatus
  <2>9. CASE RejectVeto(p)
    BY Zenon, <2>9, VotesKept DEF RejectVeto
  <2>10. CASE RejectMark(p)
    BY Zenon, <2>10 DEF RejectMark, Retire, SetApprovalStatus
  <2>11. CASE SweepRow(p)
    <3>1. PICK e \in todo[p] : Retire(e[1], e[2], "expired") \/ UNCHANGED <<status, denied>>
      BY Zenon, <2>11 DEF SweepRow
    <3> QED BY ZenonT(60), <2>0, <2>11, <3>1 DEF SweepRow, Retire, SetApprovalStatus, Local, Open
  <2>13. CASE Claim(p)
    BY Zenon, <2>13 DEF Claim, SetApprovalStatus
  <2>14. CASE RunOperation(p) \/ ApproveCount(p) \/ ClaimLoad(p) \/ IssueCertificate(p)
              \/ RecordResult(p)
    BY Zenon, <2>14 DEF RunOperation, ApproveCount, ClaimLoad, IssueCertificate, RecordResult
  <2> QED
    BY <1>1, <2>1, <2>2, <2>3, <2>5, <2>6, <2>8, <2>9, <2>10, <2>11, <2>13, <2>14, Zenon
    DEF Advance
<1> QED
  BY <1>1 DEF Next, GuardFind, ApproveLoad, RejectLoad, CompleteGet, SweepList, Abort, Tick

\* The calls other than p keep their local state, and what they rely on.
Alone(p) ==
    \A q \in Procs \ {p} : pc'[q] = pc[q] /\ arg'[q] = arg[q] /\ todo'[q] = todo[q]

LEMMA MovesAlone ==
    ASSUME TypeOK, NEW p \in Procs
    PROVE  /\ Return(p) => Alone(p)
           /\ \A l : Goto(p, l) => Alone(p)
           /\ \A l, r, u, o : Enter(p, l, r, u, o) => Alone(p)
BY DEF TypeOK, Alone, Return, Goto, Enter

-----------------------------------------------------------------------------
LEMMA VoteInserted ==
    ASSUME TypeOK, NEW r \in Requests, NEW u \in Users, NEW d, AddApprovalDecision(r, u, d)
    PROVE  \A q \in Requests, v \in Users :
              \/ votes'[q][v] = votes[q][v]
              \/ q = r /\ v = u /\ votes[q][v] = "none" /\ votes'[q][v] = d
<1>1. votes \in [Requests -> [Users -> {"none", "approve", "reject"}]]
  BY DEF TypeOK
<1> QED BY <1>1 DEF AddApprovalDecision

LEMMA PhaseValues ==
    /\ PhaseOf("absent") = "none" /\ PhaseOf("pending") = "held"
    /\ PhaseOf("approved") = "authorized" /\ PhaseOf("executed") = "consumed"
    /\ PhaseOf("rejected") = "refused" /\ PhaseOf("expired") = "refused"
BY Zenon DEF PhaseOf

LEMMA SameCardinality == \A S : Gate!Cardinality(S) = Cardinality(S)
BY DEF Gate!Cardinality, Cardinality

LEMMA GateInit == Init => Gate!Init
<1> SUFFICES ASSUME Init PROVE Gate!Init
  OBVIOUS
<1>1. \A r \in Requests : PhaseOf(status[r]) = "none"
  BY PhaseValues DEF Init
<1>2. \A r \in Requests : Approvers(r) = {}
  BY DEF Init, Approvers
<1> QED BY <1>1, <1>2 DEF Init, Gate!Init

\* A step that leaves status, info, votes and ran alone is invisible.
LEMMA GateStutter ==
    ASSUME UNCHANGED <<status, info, votes, ran>>
    PROVE  UNCHANGED Gate!gateVars
BY DEF Gate!gateVars, Approvers

\* A compare-and-set that changes the row is a step of its phase.
LEMMA GateStatus ==
    ASSUME IInv, NEW r \in Requests, NEW from \in Open,
           NEW to \in {"approved", "rejected", "executed", "expired"},
           SetApprovalStatus(r, from, to), UNCHANGED <<info, votes, ran>>,
           to = "approved" => from = "pending" /\ Enough(r),
           to = "executed" => from = "approved"
    PROVE  [Gate!Next]_(Gate!gateVars)
<1>1. CASE status[r] # from
  BY <1>1, GateStutter DEF SetApprovalStatus
<1>2. CASE status[r] = from
  <2>1. status' = [status EXCEPT ![r] = to] /\ status \in [Requests -> Status]
    BY <1>2 DEF SetApprovalStatus, IInv, TypeOK
  <2>2. [x \in Requests |-> PhaseOf(status'[x])]
           = [[x \in Requests |-> PhaseOf(status[x])] EXCEPT ![r] = PhaseOf(to)]
    BY <2>1, Zenon
  <2>3. UNCHANGED <<[x \in Requests |-> info[x].by], [x \in Requests |-> info[x].required],
                    [x \in Requests |-> Approvers(x)], ran>>
    BY DEF Approvers
  <2>4. CASE to = "approved"
    <3>1. Gate!Authorize(r)
      <4>1. [x \in Requests |-> Approvers(x)][r] = Approvers(r)
            /\ [x \in Requests |-> info[x].required][r] = info[r].required
            /\ [x \in Requests |-> PhaseOf(status[x])][r] = "held"
        BY <1>2, <2>4, PhaseValues
      <4>2. Cardinality([x \in Requests |-> Approvers(x)][r])
               >= [x \in Requests |-> info[x].required][r]
        BY <2>4, <4>1 DEF Enough
      <4> QED BY <2>2, <2>3, <2>4, <4>1, <4>2, PhaseValues, SameCardinality, Zenon DEF Gate!Authorize
    <3> QED BY <3>1 DEF Gate!Next
  <2>5. CASE to = "executed"
    <3>1. Gate!Consume(r)
      BY <1>2, <2>2, <2>3, <2>5, PhaseValues, Zenon DEF Gate!Consume
    <3> QED BY <3>1 DEF Gate!Next
  <2>6. CASE to \in {"rejected", "expired"}
    <3>1. Gate!Refuse(r)
      BY <1>2, <2>2, <2>3, <2>6, PhaseValues, ZenonT(60) DEF Gate!Refuse, Open
    <3> QED BY <3>1 DEF Gate!Next
  <2> QED BY <2>4, <2>5, <2>6
<1> QED BY <1>1, <1>2

LEMMA GateStep ==
    ASSUME IInv, Next
    PROVE  [Gate!Next]_(Gate!gateVars)
<1>1. ASSUME NEW p \in Procs, Advance(p) PROVE [Gate!Next]_(Gate!gateVars)
  <2>0. Local(p) /\ TypeOK
    BY Zenon DEF IInv, Locals
  <2> DEFINE r == arg[p].req
  <2>1. CASE GuardRetire(p)
    <3>1. r \in Requests /\ arg[p].seen \in Open
      BY <2>0, <2>1 DEF GuardRetire, Local
    <3> QED BY Zenon, <2>1, <3>1, GateStatus, GateStutter DEF GuardRetire, Retire
  <2>2. CASE GuardConsume(p) \/ Claim(p)
    <3>1. r \in Requests
      BY <2>0, <2>2 DEF GuardConsume, Claim, Local
    <3> QED BY <2>2, <3>1, GateStatus DEF GuardConsume, Claim, Open
  <2>3. CASE GuardCreate(p)
    <3>1. PICK q \in Requests, n \in Thresholds :
              /\ status[q] = "absent"
              /\ status' = [status EXCEPT ![q] = "pending"]
              /\ info' = [info EXCEPT ![q] = [op |-> arg[p].op, by |-> arg[p].user,
                            required |-> n, created |-> arg[p].at,
                            expires |-> arg[p].at + TTL]]
      BY <2>3, Zenon DEF GuardCreate
    <3>2. arg[p].user \in Users /\ UNCHANGED <<votes, ran>>
      BY <2>0, <2>3 DEF GuardCreate, Local
    <3>3. /\ [x \in Requests |-> PhaseOf(status[x])][q] = "none"
          /\ [x \in Requests |-> PhaseOf(status'[x])]
                = [[x \in Requests |-> PhaseOf(status[x])] EXCEPT ![q] = "held"]
      BY <2>0, <3>1, PhaseValues, Zenon DEF TypeOK
    <3>4. /\ [x \in Requests |-> info'[x].by]
                = [[x \in Requests |-> info[x].by] EXCEPT ![q] = arg[p].user]
          /\ [x \in Requests |-> info'[x].required]
                = [[x \in Requests |-> info[x].required] EXCEPT ![q] = n]
      BY <2>0, <3>1, Zenon DEF TypeOK
    <3>5. UNCHANGED [x \in Requests |-> Approvers(x)]
      BY <3>2 DEF Approvers
    <3>6. Gate!Submit(q, arg[p].user, n)
      BY <3>2, <3>3, <3>4, <3>5 DEF Gate!Submit
    <3> QED BY <3>2, <3>6 DEF Gate!Next
  <2>4. CASE RunOperation(p) \/ (IssueCertificate(p) /\ ran' # ran)
    <3>1. r \in Requests /\ status[r] = "executed" /\ ran[r] = 0
      BY <2>0, <2>4 DEF RunOperation, IssueCertificate, Local
    <3>2. ran' = [ran EXCEPT ![r] = 1] /\ UNCHANGED <<status, info, votes>>
      <4>1. ran \in [Requests -> Nat]
        BY <2>0 DEF TypeOK
      <4>2. ran' = [ran EXCEPT ![r] = @ + 1] /\ UNCHANGED <<status, info, votes>>
        BY <2>4 DEF RunOperation, IssueCertificate
      <4> HIDE DEF r
      <4> QED BY <3>1, <4>1, <4>2
    <3>3. [x \in Requests |-> PhaseOf(status[x])][r] = "consumed"
      BY <3>1, PhaseValues
    <3>4. UNCHANGED <<[x \in Requests |-> PhaseOf(status[x])], [x \in Requests |-> info[x].by],
                      [x \in Requests |-> info[x].required], [x \in Requests |-> Approvers(x)]>>
      BY Zenon, <3>2 DEF Approvers
    <3>5. Gate!Perform(r)
      BY Zenon, <3>1, <3>2, <3>3, <3>4 DEF Gate!Perform
    <3> QED BY <3>1, <3>5 DEF Gate!Next
  <2>5. CASE ExpireOnLoad(p)
    <3>1. r \in Requests /\ arg[p].seen \in Open
      BY Zenon, <2>0, <2>5 DEF ExpireOnLoad, Local
    <3> QED BY Zenon, <2>5, <3>1, GateStatus DEF ExpireOnLoad, Retire
  <2>6. CASE ApproveVote(p)
    <3>1. /\ r \in Requests /\ status[r] # "absent"
          /\ arg[p].user \in Users /\ arg[p].user # info[r].by
      BY Zenon, <2>0, <2>6 DEF ApproveVote, Local
    <3>2. UNCHANGED <<status, info, ran>>
      BY Zenon, <2>6 DEF ApproveVote
    <3>3. CASE votes[r][arg[p].user] # "none"
      BY Zenon, <2>6, <3>2, <3>3, GateStutter DEF ApproveVote, AddApprovalDecision
    <3>4. CASE votes[r][arg[p].user] = "none"
      <4>1. votes' = [votes EXCEPT ![r][arg[p].user] = "approve"]
        BY Zenon, <2>6, <3>4 DEF ApproveVote, AddApprovalDecision
      <4>2. \A x \in Requests :
               Approvers(x)' = IF x = r THEN Approvers(r) \union {arg[p].user} ELSE Approvers(x)
        <5>1. votes \in [Requests -> [Users -> {"none", "approve", "reject"}]]
          BY <2>0 DEF TypeOK
        <5> HIDE DEF r
        <5> QED BY <3>1, <4>1, <5>1 DEF Approvers
      <4>3. [x \in Requests |-> Approvers(x)]'
               = [[x \in Requests |-> Approvers(x)] EXCEPT ![r] = @ \union {arg[p].user}]
        BY <3>1, <4>2, Zenon
      <4>4. [x \in Requests |-> PhaseOf(status[x])][r] # "none"
        BY <2>0, <3>1, PhaseValues, Zenon DEF TypeOK, Status
      <4>5. Gate!Sign(r, arg[p].user)
        BY <3>1, <3>2, <4>3, <4>4 DEF Gate!Sign
      <4> QED BY Zenon, <3>1, <4>5 DEF Gate!Next
    <3> QED BY Zenon, <3>3, <3>4
  <2>7. CASE ApproveMark(p)
    <3>1. r \in Requests /\ Enough(r)
      BY Zenon, <2>0, <2>7 DEF ApproveMark, Local
    <3> QED BY Zenon, <2>7, <3>1, GateStatus DEF ApproveMark, Open
  <2>8. CASE RejectVeto(p)
    <3>1. \A x \in Requests, u \in Users : votes'[x][u] = "approve" <=> votes[x][u] = "approve"
      <4>1. r \in Requests /\ arg[p].user \in Users
        BY Zenon, <2>0, <2>8 DEF RejectVeto, Local
      <4>2. votes' = votes \/ AddApprovalDecision(r, arg[p].user, "reject")
        BY <2>8 DEF RejectVeto
      <4> HIDE DEF r
      <4> QED BY <2>0, <4>1, <4>2, VoteInserted
    <3>2. [x \in Requests |-> Approvers(x)]' = [x \in Requests |-> Approvers(x)]
      BY Zenon, <3>1 DEF Approvers
    <3> QED BY <2>8, <3>2 DEF RejectVeto, Gate!gateVars
  <2>9. CASE RejectMark(p)
    <3>1. r \in Requests
      BY Zenon, <2>0, <2>9 DEF RejectMark, Local
    <3> QED BY Zenon, <2>9, <3>1, GateStatus DEF RejectMark, Retire, Open
  <2>10. CASE SweepRow(p)
    <3>1. PICK e \in todo[p] : Retire(e[1], e[2], "expired") \/ UNCHANGED <<status, denied>>
      BY Zenon, <2>10 DEF SweepRow
    <3>2. e[1] \in Requests /\ e[2] \in Open /\ UNCHANGED <<info, votes, ran>>
      BY ZenonT(60), <2>0, <2>10, ListedTypes DEF SweepRow, Local
    <3> QED BY Zenon, <3>1, <3>2, GateStatus, GateStutter DEF Retire
  <2>11. CASE \/ ApproveCount(p) \/ ClaimLoad(p) \/ RecordResult(p)
              \/ (IssueCertificate(p) /\ ran' = ran)
    BY <2>11, GateStutter DEF ApproveCount, ClaimLoad, RecordResult, IssueCertificate
  <2> QED
    BY ZenonT(60), <1>1, <2>1, <2>2, <2>3, <2>4, <2>5, <2>6, <2>7, <2>8, <2>9, <2>10, <2>11 DEF Advance
<1> QED
  BY <1>1, GateStutter DEF Next, GuardFind, ApproveLoad, RejectLoad, CompleteGet, SweepList,
     Abort, Tick

-----------------------------------------------------------------------------
(* What the invariant says of the promises.                                *)

LEMMA Promises ==
    ASSUME IInv
    PROVE  AtMostOnce /\ FourEyes /\ DenialIsFinal /\ DeliveredWasIssued
<1>1. AtMostOnce
  BY DEF IInv, Rows, Row, AtMostOnce
<1>2. FourEyes
  BY DEF IInv, Rows, Row, FourEyes, Enough, Approvers
<1>3. DenialIsFinal
  BY DEF IInv, Rows, Row, DenialIsFinal
<1>4. DeliveredWasIssued
  BY DEF IInv, Rows, Row, DeliveredWasIssued
<1> QED BY Zenon, <1>1, <1>2, <1>3, <1>4

-----------------------------------------------------------------------------
(* What a compare-and-set may do to a status.                              *)

Legal(r) ==
    /\ status[r] \in Terminal => status'[r] = status[r]
    /\ status'[r] = "executed" => status[r] \in {"approved", "executed"}
    /\ status'[r] = "rejected" => status[r] \in {"pending", "rejected"}

LEMMA LegalMove ==
    ASSUME NEW x \in Requests, NEW from \in Open, NEW to \in Status, IInv,
           SetApprovalStatus(x, from, to),
           to = "executed" => from = "approved",
           to = "rejected" => from = "pending"
    PROVE  \A r \in Requests : Legal(r)
BY Zenon DEF Legal, SetApprovalStatus, Open, Terminal, IInv, TypeOK, Status

LEMMA StatusMoves ==
    ASSUME IInv, Next
    PROVE  \A r \in Requests : Legal(r)
<1>1. ASSUME UNCHANGED status PROVE \A r \in Requests : Legal(r)
  BY Zenon, <1>1 DEF Legal
<1>2. ASSUME NEW p \in Procs, Advance(p) PROVE \A r \in Requests : Legal(r)
  <2>0. Local(p) /\ TypeOK
    BY DEF IInv, Locals
  <2>1. CASE GuardRetire(p) \/ ExpireOnLoad(p)
    <3>1. arg[p].req \in Requests /\ arg[p].seen \in Open
      BY Zenon, <2>0, <2>1 DEF GuardRetire, ExpireOnLoad, Local
    <3> QED BY Zenon, LegalMove, <1>1, <2>1, <3>1 DEF GuardRetire, ExpireOnLoad, Retire, Status
  <2>2. CASE GuardConsume(p) \/ Claim(p) \/ ApproveMark(p) \/ RejectMark(p)
    <3>1. arg[p].req \in Requests
      BY Zenon, <2>0, <2>2 DEF GuardConsume, Claim, ApproveMark, RejectMark, Local
    <3> QED BY Zenon, LegalMove, <2>2, <3>1 DEF GuardConsume, Claim, ApproveMark, RejectMark, Retire,
              Status, Open
  <2>3. CASE GuardCreate(p)
    BY Zenon, <2>0, <2>3 DEF GuardCreate, Legal, TypeOK, Terminal
  <2>4. CASE SweepRow(p)
    <3>1. PICK e \in todo[p] : Retire(e[1], e[2], "expired") \/ UNCHANGED <<status, denied>>
      BY <2>4 DEF SweepRow
    <3>2. e[1] \in Requests /\ e[2] \in Open
      BY <2>0, ListedTypes DEF Local
    <3> QED BY Zenon, LegalMove, <1>1, <3>1, <3>2 DEF Retire, Status
  <2> QED
    BY ZenonT(60), <1>1, <1>2, <2>1, <2>2, <2>3, <2>4 DEF Advance, RunOperation, ApproveVote,
       ApproveCount, RejectVeto, ClaimLoad, IssueCertificate, RecordResult
<1> QED
  BY Zenon, <1>1, <1>2 DEF Next, GuardFind, ApproveLoad, RejectLoad, CompleteGet, SweepList,
     Abort, Tick

-----------------------------------------------------------------------------
(* The three parts of the invariant are kept.                              *)

\* One vote is inserted, or none.
\* What a step has to show of each row: its columns, or how they changed.
LEMMA VotesRows ==
    ASSUME Rows, NEW x \in Requests, NEW u \in Users, NEW d \in {"approve", "reject"},
           status[x] # "absent", d = "approve" => u # info[x].by,
           \A q \in Requests, v \in Users :
              \/ votes'[q][v] = votes[q][v]
              \/ q = x /\ v = u /\ votes[q][v] = "none" /\ votes'[q][v] = d,
           UNCHANGED <<status, info, result, ran, denied, told>>,
           \A q \in Requests : status[q] # "absent" /\ Enough(q) => Enough(q)'
    PROVE  Rows'
<1> SUFFICES ASSUME NEW r \in Requests PROVE Row(r)'
  BY DEF Rows
<1>1. Row(r)
  BY DEF Rows
<1> QED BY <1>1 DEF Row

LEMMA StatusRows ==
    ASSUME IInv, NEW x \in Requests, NEW from \in Open,
           NEW to \in {"approved", "rejected", "executed", "expired"},
           SetApprovalStatus(x, from, to), UNCHANGED <<info, votes, result, ran, told>>,
           to \in {"approved", "executed"} => UNCHANGED denied,
           to \in {"rejected", "expired"} => Retire(x, from, to),
           to = "approved" => Enough(x),
           to = "executed" => from = "approved",
           \A q \in Requests : status[q] # "absent" /\ Enough(q) => Enough(q)'
    PROVE  Rows'
<1>1. status \in [Requests -> Status] /\ denied \in [Requests -> Nat]
  BY DEF IInv, TypeOK
<1> SUFFICES ASSUME NEW r \in Requests PROVE Row(r)'
  BY Zenon DEF Rows
<1>2. Row(r)
  BY Zenon DEF IInv, Rows
<1>3. CASE r # x \/ status[x] # from
  <2>1. status'[r] = status[r] /\ denied'[r] = denied[r]
    BY <1>1, <1>3 DEF SetApprovalStatus, Retire
  <2> QED BY <1>2, <2>1 DEF Row
<1>4. CASE r = x /\ status[x] = from
  <2>1. status'[r] = to /\ status[r] \in Open
    BY <1>1, <1>4 DEF SetApprovalStatus
  <2>2. /\ denied[r] = 0 /\ ran[r] = 0 /\ result[r] = "empty"
        /\ "delivered" \notin told[r]
    BY <1>2, <2>1 DEF Row, Open
  <2>3. denied'[r] = 0 \/ (denied'[r] = 1 /\ to \in {"rejected", "expired"})
    BY <1>1, <1>4, <2>2 DEF Retire
  <2>4. to \in {"approved", "executed"} => Enough(r)'
    BY <1>2, <1>4, <2>1 DEF Row, Open
  <2> QED BY <1>2, <2>1, <2>2, <2>3, <2>4 DEF Row, Open
<1> QED BY <1>3, <1>4

LEMMA RanRows ==
    ASSUME IInv, NEW x \in Requests, status[x] = "executed", ran[x] = 0,
           ran' = [ran EXCEPT ![x] = @ + 1],
           UNCHANGED <<status, info, votes, result, denied, told>>,
           \A q \in Requests : status[q] # "absent" /\ Enough(q) => Enough(q)'
    PROVE  Rows'
<1>1. ran \in [Requests -> Nat]
  BY DEF IInv, TypeOK
<1> SUFFICES ASSUME NEW r \in Requests PROVE Row(r)'
  BY DEF Rows
<1>2. Row(r)
  BY Zenon DEF IInv, Rows
<1>3. ran'[r] = ran[r] \/ (r = x /\ ran'[r] = 1)
  BY <1>1
<1> QED BY <1>2, <1>3 DEF Row

LEMMA ToldRows ==
    ASSUME IInv, NEW x \in Requests, DeliverRecorded(x),
           UNCHANGED <<status, info, votes, result, ran, denied>>,
           \A q \in Requests : status[q] # "absent" /\ Enough(q) => Enough(q)'
    PROVE  Rows'
<1>1. told \in [Requests -> SUBSET {"delivered", "failed"}]
  BY DEF IInv, TypeOK
<1> SUFFICES ASSUME NEW r \in Requests PROVE Row(r)'
  BY Zenon DEF Rows
<1>2. Row(r)
  BY Zenon DEF IInv, Rows
<1>3. "delivered" \in told'[r] => "delivered" \in told[r] \/ result[r] = "serial"
  BY ZenonT(60), <1>1 DEF DeliverRecorded
<1> QED BY <1>2, <1>3 DEF Row

LEMMA RowsStep ==
    ASSUME IInv, Next, TypeOK'
    PROVE  Rows'
<1>0. \A r \in Requests : status[r] # "absent" /\ Enough(r) => Enough(r)'
  BY GrowsStep, EnoughKept DEF IInv
<1>1. ASSUME UNCHANGED <<status, info, votes, result, ran, denied, told>> PROVE Rows'
  <2> SUFFICES ASSUME NEW r \in Requests PROVE Row(r)'
    BY DEF Rows
  <2>1. Row(r)
    BY DEF IInv, Rows
  <2> QED BY <1>0, <1>1, <2>1 DEF Row
<1>2. ASSUME NEW p \in Procs, Advance(p) PROVE Rows'
  <2>0. Local(p) /\ Rows /\ TypeOK
    BY Zenon DEF IInv, Locals
  <2>1. CASE GuardRetire(p)
    <3>1. arg[p].req \in Requests /\ arg[p].seen \in Open
      BY ZenonT(60), <2>0, <2>1 DEF GuardRetire, Local
    <3> QED BY Zenon, <1>0, <1>1, <2>1, <3>1, StatusRows DEF GuardRetire, Retire
  <2>2. CASE GuardConsume(p) \/ Claim(p)
    <3>1. arg[p].req \in Requests
      BY <2>0, <2>2 DEF GuardConsume, Claim, Local
    <3> QED BY <1>0, <2>2, <3>1, StatusRows DEF GuardConsume, Claim, Open
  <2>3. CASE GuardCreate(p)
    <3>1. PICK x \in Requests, n \in Thresholds :
              /\ status[x] = "absent"
              /\ status' = [status EXCEPT ![x] = "pending"]
              /\ info' = [info EXCEPT ![x] = [op |-> arg[p].op, by |-> arg[p].user,
                            required |-> n, created |-> arg[p].at,
                            expires |-> arg[p].at + TTL]]
      BY <2>3, ZenonT(60) DEF GuardCreate
    <3>2. UNCHANGED <<votes, result, ran, denied, told>>
      BY <2>3 DEF GuardCreate
    <3>3. status \in [Requests -> Status] /\ info \in [Requests -> Info]
      BY <2>0 DEF TypeOK
    <3> SUFFICES ASSUME NEW r \in Requests PROVE Row(r)'
      BY DEF Rows
    <3>4. Row(r)
      BY Zenon, <2>0 DEF Rows
    <3>5. CASE r # x
      <4>1. status'[r] = status[r] /\ info'[r] = info[r]
        BY Zenon, <3>1, <3>3, <3>5
      <4> QED BY Zenon, <1>0, <3>2, <3>4, <4>1 DEF Row
    <3>6. CASE r = x
      <4>1. status[r] = "absent" /\ status'[r] = "pending"
        BY Zenon, <3>1, <3>3, <3>6
      <4> QED BY Zenon, <3>2, <3>4, <4>1 DEF Row
    <3> QED BY <3>5, <3>6
  <2>4. CASE RunOperation(p) \/ IssueCertificate(p)
    <3>1. arg[p].req \in Requests /\ status[arg[p].req] = "executed" /\ ran[arg[p].req] = 0
      BY Zenon, <2>0, <2>4 DEF RunOperation, IssueCertificate, Local
    <3> QED BY Zenon, <1>0, <1>1, <2>4, <3>1, RanRows DEF RunOperation, IssueCertificate
  <2>5. CASE ExpireOnLoad(p)
    <3>1. arg[p].req \in Requests /\ arg[p].seen \in Open
      BY Zenon, <2>0, <2>5 DEF ExpireOnLoad, Local
    <3> QED BY Zenon, <1>0, <2>5, <3>1, StatusRows DEF ExpireOnLoad, Retire
  <2>6. CASE ApproveVote(p)
    <3>1. /\ arg[p].req \in Requests /\ status[arg[p].req] # "absent"
          /\ arg[p].user \in Users /\ arg[p].user # info[arg[p].req].by
      BY Zenon, <2>0, <2>6 DEF ApproveVote, Local
    <3>2. AddApprovalDecision(arg[p].req, arg[p].user, "approve")
          /\ UNCHANGED <<status, info, result, ran, denied, told>>
      BY Zenon, <2>6 DEF ApproveVote
    <3> QED BY <1>0, <2>0, <3>1, <3>2, VoteInserted, VotesRows
  <2>7. CASE ApproveCount(p)
    BY Zenon, <1>1, <2>7 DEF ApproveCount
  <2>8. CASE ApproveMark(p)
    <3>1. arg[p].req \in Requests /\ Enough(arg[p].req)
      BY Zenon, <2>0, <2>8 DEF ApproveMark, Local
    <3> QED BY Zenon, <1>0, <2>8, <3>1, StatusRows DEF ApproveMark, Open
  <2>9. CASE RejectVeto(p)
    <3>1. /\ arg[p].req \in Requests /\ status[arg[p].req] # "absent"
          /\ arg[p].user \in Users
      BY <2>0, <2>9 DEF RejectVeto, Local
    <3>2. UNCHANGED <<status, info, result, ran, denied, told>>
      BY Zenon, <2>9 DEF RejectVeto
    <3>3. CASE AddApprovalDecision(arg[p].req, arg[p].user, "reject")
      BY <1>0, <2>0, <3>1, <3>2, <3>3, VoteInserted, VotesRows
    <3> QED BY Zenon, <1>1, <2>9, <3>2, <3>3 DEF RejectVeto
  <2>10. CASE RejectMark(p)
    <3>1. arg[p].req \in Requests
      BY <2>0, <2>10 DEF RejectMark, Local
    <3> QED BY Zenon, <1>0, <2>10, <3>1, StatusRows DEF RejectMark, Retire, Open
  <2>11. CASE SweepRow(p)
    <3>1. PICK e \in todo[p] : Retire(e[1], e[2], "expired") \/ UNCHANGED <<status, denied>>
      BY Zenon, <2>11 DEF SweepRow
    <3>2. UNCHANGED <<info, votes, result, ran, told>>
      BY Zenon, <2>11 DEF SweepRow
    <3>3. e[2] \in Open /\ e[1] \in Requests
      BY Zenon, <2>0, ListedTypes DEF Local
    <3>4. CASE Retire(e[1], e[2], "expired")
      BY Zenon, <1>0, <3>2, <3>3, <3>4, StatusRows DEF Retire
    <3> QED BY Zenon, <1>1, <3>1, <3>2, <3>4
  <2>12. CASE ClaimLoad(p)
    <3>1. arg[p].req \in Requests
      BY Zenon, <2>0, <2>12 DEF ClaimLoad, Local
    <3> QED BY Zenon, <1>0, <1>1, <2>12, <3>1, ToldRows DEF ClaimLoad
  <2>13. CASE RecordResult(p)
    <3>1. /\ arg[p].req \in Requests /\ status[arg[p].req] = "executed"
          /\ pc[p] = "recordok" => ran[arg[p].req] = 1
      BY Zenon, <2>0, <2>13 DEF RecordResult, Local
    <3>2. /\ result \in [Requests -> {"empty", "serial", "error"}]
          /\ told \in [Requests -> SUBSET {"delivered", "failed"}]
      BY <2>0 DEF TypeOK
    <3> SUFFICES ASSUME NEW r \in Requests PROVE Row(r)'
      BY DEF Rows
    <3>3. Row(r)
      BY Zenon DEF IInv, Rows
    <3>4. UNCHANGED <<status, info, votes, ran, denied>>
      BY Zenon, <2>13 DEF RecordResult
    <3>5. CASE r # arg[p].req
      <4>1. result'[r] = result[r] /\ told'[r] = told[r]
        BY Zenon, <2>13, <3>2, <3>5 DEF RecordResult
      <4> QED BY Zenon, <1>0, <3>3, <3>4, <4>1 DEF Row
    <3>6. CASE r = arg[p].req /\ pc[p] = "recordok"
      BY Zenon, <1>0, <3>1, <3>3, <3>4, <3>6 DEF Row
    <3>7. CASE r = arg[p].req /\ pc[p] = "recorderr"
      <4>1. /\ result'[r] = "serial" => result[r] = "serial"
            /\ "delivered" \in told'[r] => "delivered" \in told[r]
        BY <2>13, <3>2, <3>7 DEF RecordResult
      <4> QED BY Zenon, <1>0, <3>1, <3>3, <3>4, <3>7, <4>1 DEF Row
    <3> QED BY Zenon, <2>13, <3>5, <3>6, <3>7 DEF RecordResult
  <2> QED
    BY <1>2, <2>1, <2>2, <2>3, <2>4, <2>5, <2>6, <2>7, <2>8, <2>9, <2>10,
       <2>11, <2>12, <2>13 DEF Advance
<1>3. ASSUME NEW p \in Procs, NEW r \in Requests, CompleteGet(p, r) PROVE Rows'
  <2>1. CASE UNCHANGED told
    BY Zenon, <1>3, <1>1, <2>1 DEF CompleteGet
  <2>2. CASE DeliverRecorded(r)
    BY Zenon, <1>0, <1>3, <2>2, ToldRows DEF CompleteGet
  <2> QED BY Zenon, <1>3, <2>1, <2>2 DEF CompleteGet
<1> QED
  BY <1>1, <1>2, <1>3 DEF Next, GuardFind, ApproveLoad, RejectLoad, SweepList, Abort, Tick

\* A request changes hands only by winning the update from approved, and then
\* nobody owned it.
LEMMA OwnerStep ==
    ASSUME IInv, Next, TypeOK'
    PROVE  Owner'
<1> DEFINE Owns(p) == pc[p] \in {"run", "issue"}
<1>1. \A q \in Procs : Owns(q) => status[arg[q].req] = "executed"
  BY DEF IInv, Locals, Local
<1>2. ASSUME NEW p \in Procs, Alone(p), ~Owns(p)' PROVE Owner'
  BY Zenon, <1>2 DEF IInv, Owner, Alone
<1>3. ASSUME NEW p \in Procs, Alone(p), arg'[p] = arg[p], status[arg[p].req] = "approved"
      PROVE  Owner'
  BY <1>1, <1>3 DEF IInv, Owner, Alone
<1>4. ASSUME UNCHANGED <<pc, arg>> PROVE Owner'
  BY <1>4 DEF IInv, Owner
<1>5. TypeOK
  BY DEF IInv
<1>6. ASSUME NEW p \in Procs, Return(p) PROVE Owner'
  BY <1>2, <1>5, <1>6, MovesAlone, Zenon DEF Return, TypeOK
<1>7. ASSUME NEW p \in Procs, NEW l, Goto(p, l), l \notin {"run", "issue"} PROVE Owner'
  BY <1>2, <1>5, <1>7, MovesAlone, Zenon DEF Goto, TypeOK
<1>8. ASSUME NEW p \in Procs, NEW l, NEW r, NEW u, NEW o, Enter(p, l, r, u, o),
             l \notin {"run", "issue"}
      PROVE  Owner'
  BY <1>2, <1>5, <1>8, MovesAlone, Zenon DEF Enter, TypeOK
<1>9. ASSUME NEW p \in Procs, NEW l, Goto(p, l), status[arg[p].req] = "approved" PROVE Owner'
  BY <1>3, <1>5, <1>9, MovesAlone, Zenon DEF Goto, TypeOK
<1>10. ASSUME NEW p \in Procs, Advance(p) PROVE Owner'
  <2>1. CASE GuardConsume(p)
    BY Zenon, <1>6, <1>9, <2>1 DEF GuardConsume
  <2>2. CASE Claim(p)
    BY Zenon, <1>7, <1>9, <2>2 DEF Claim
  <2>3. CASE SweepRow(p)
    BY Zenon, <1>4, <1>6, <2>3 DEF SweepRow
  <2>4. CASE GuardRetire(p) \/ ApproveVote(p) \/ ApproveCount(p) \/ RejectVeto(p)
             \/ ClaimLoad(p) \/ IssueCertificate(p)
    BY Zenon, <1>6, <1>7, <2>4 DEF GuardRetire, ApproveVote, ApproveCount, RejectVeto, ClaimLoad,
       IssueCertificate
  <2> QED
    BY Zenon, <1>6, <1>10, <2>1, <2>2, <2>3, <2>4 DEF Advance, GuardCreate, RunOperation,
       ExpireOnLoad, ApproveMark, RejectMark, RecordResult
<1>11. ASSUME NEW p \in Procs, SweepList(p) PROVE Owner'
  BY Zenon, <1>2, <1>5, <1>11 DEF SweepList, Alone, TypeOK
<1>12. ASSUME NEW p \in Procs, NEW r \in Requests, CompleteGet(p, r) PROVE Owner'
  BY <1>4, <1>8, <1>12 DEF CompleteGet, call
<1>13. ASSUME NEW p \in Procs, NEW u \in Users, NEW r \in Requests,
              ApproveLoad(p, u, r) \/ RejectLoad(p, u, r)
       PROVE  Owner'
  BY <1>8, <1>13 DEF ApproveLoad, RejectLoad
<1>14. ASSUME NEW p \in Procs, NEW u \in Users, NEW o \in Ops, GuardFind(p, u, o)
       PROVE  Owner'
  BY <1>8, <1>14 DEF GuardFind
<1> QED
  BY ZenonT(60), <1>4, <1>6, <1>10, <1>11, <1>12, <1>13, <1>14 DEF Next, Abort, Tick, call

-----------------------------------------------------------------------------
LEMMA OthersKept ==
    ASSUME IInv, Next, TypeOK', NEW p \in Procs, Alone(p),
           \/ UNCHANGED ran
           \/ pc[p] \in {"run", "issue"} /\ ran' = [ran EXCEPT ![arg[p].req] = @ + 1]
    PROVE  \A q \in Procs \ {p} : Local(q)'
<1> SUFFICES ASSUME NEW q \in Procs \ {p} PROVE Local(q)'
  BY Zenon
<1>1. \A r \in Requests : Grows(r)
  BY GrowsStep
<1>2. pc[q] \in {"run", "issue", "recordok"} => ran'[arg[q].req] = ran[arg[q].req]
  <2>1. Local(p) /\ Local(q)
    BY DEF IInv, Locals
  <2>2. CASE UNCHANGED ran
    BY Zenon, <2>2
  <2>3. CASE pc[p] \in {"run", "issue"} /\ ran' = [ran EXCEPT ![arg[p].req] = @ + 1]
    <3>1. pc[q] \in {"run", "issue", "recordok"} => arg[q].req # arg[p].req
      BY <2>1, <2>3 DEF IInv, Owner, Local
    <3> QED BY ZenonT(60), <2>1, <2>3, <3>1 DEF IInv, TypeOK, Local
  <2> QED BY <2>2, <2>3
<1> QED BY Zenon, <1>1, <1>2, LocalKept DEF Alone

LEMMA ReturnLocal ==
    ASSUME TypeOK, NEW p \in Procs, Return(p)
    PROVE  Local(p)'
BY Zenon DEF TypeOK, Return, Local

\* Of a call that only moves on, the facts about its request carry over.
LEMMA GotoLocal ==
    ASSUME IInv, Next, TypeOK', NEW p \in Procs, NEW l, Goto(p, l), Local(p),
           pc[p] \notin {"idle", "sweep", "create"},
           l \in {"retire", "create", "vote", "veto"} => arg[p].user \in Users,
           l = "vote" => arg[p].user # info[arg[p].req].by,
           l = "approve" => Enough(arg[p].req),
           l \in {"retire", "expire"} => arg[p].seen \in Open,
           l \in {"run", "issue"} => status'[arg[p].req] = "executed" /\ ran'[arg[p].req] = 0,
           l \in {"recordok", "recorderr"} => status'[arg[p].req] = "executed",
           l = "recordok" => ran'[arg[p].req] = 1
    PROVE  Local(p)'
<1>1. pc'[p] = l /\ arg' = arg /\ todo' = todo
  BY ZenonT(60) DEF Goto, IInv, TypeOK
<1>2. arg[p].req \in Requests /\ status[arg[p].req] # "absent"
  BY DEF Local
<1>3. Grows(arg[p].req)
  BY <1>2, GrowsStep
<1>4. l = "approve" => Enough(arg[p].req)'
  BY <1>1, <1>2, <1>3, EnoughKept DEF IInv
<1> QED BY Zenon, <1>1, <1>2, <1>3, <1>4 DEF Local, Grows

\* A call that enters with an open request relies on what it has just read.
LEMMA EnterLocal ==
    ASSUME IInv, NEW p \in Procs, NEW l, NEW r \in Requests, NEW u, NEW o,
           Enter(p, l, r, u, o), UNCHANGED <<status, info>>, status[r] \in Open,
           l \in {"retire", "consume", "expire", "vote", "veto", "claimload"},
           l \in {"retire", "vote", "veto"} => u \in Users,
           l = "vote" => u # info[r].by
    PROVE  Local(p)'
<1>1. /\ pc \in [Procs -> Labels] /\ arg \in [Procs -> Arg]
      /\ \A e \in todo[p] : e[2] \in Open
  BY ZenonT(60) DEF IInv, TypeOK, Locals, Local
<1>2. pc'[p] = l /\ todo' = todo
  BY <1>1 DEF Enter
<1>3. arg'[p].req = r /\ arg'[p].user = u /\ arg'[p].seen = status[r]
  BY <1>1 DEF Enter
<1>4. status[r] # "absent"
  BY Zenon DEF Open
<1> QED BY Zenon, <1>1, <1>2, <1>3, <1>4 DEF Local

\* A call that is about to create a request has only its caller.
LEMMA EnterCreate ==
    ASSUME IInv, NEW p \in Procs, NEW u \in Users, NEW o,
           Enter(p, "create", None, u, o)
    PROVE  Local(p)'
<1>1. /\ pc \in [Procs -> Labels] /\ arg \in [Procs -> Arg]
      /\ \A e \in todo[p] : e[2] \in Open
  BY DEF IInv, TypeOK, Locals, Local
<1>2. pc'[p] = "create" /\ todo' = todo /\ arg'[p].user = u
  BY <1>1 DEF Enter
<1> QED BY ZenonT(60), <1>1, <1>2 DEF Local

\* Performing an operation for the first time counts it once.
LEMMA Performed ==
    ASSUME NEW f \in [Requests -> Nat], NEW r \in Requests, f[r] = 0
    PROVE  [f EXCEPT ![r] = @ + 1][r] = 1
OBVIOUS

\* Winning the update from approved finds an operation not yet performed.
LEMMA ConsumedNow ==
    ASSUME IInv, NEW r \in Requests, status[r] = "approved",
           SetApprovalStatus(r, "approved", "executed"), UNCHANGED ran
    PROVE  status'[r] = "executed" /\ ran'[r] = 0
<1>1. status \in [Requests -> Status] /\ Row(r)
  BY DEF IInv, TypeOK, Rows
<1> QED BY <1>1 DEF SetApprovalStatus, Row

LEMMA LocalsStep ==
    ASSUME IInv, Next, TypeOK'
    PROVE  Locals'
<1>0. ASSUME NEW p \in Procs, Alone(p), Local(p)',
             \/ UNCHANGED ran
             \/ pc[p] \in {"run", "issue"} /\ ran' = [ran EXCEPT ![arg[p].req] = @ + 1]
      PROVE  Locals'
  BY <1>0, OthersKept DEF Locals
<1>1. TypeOK
  BY DEF IInv
<1>2. ASSUME NEW p \in Procs, NEW u \in Users, NEW o \in Ops, GuardFind(p, u, o)
      PROVE  Locals'
  <2>1. Alone(p) /\ UNCHANGED <<ran, status, info>>
    BY <1>1, <1>2, MovesAlone DEF GuardFind
  <2>2. Local(p)'
    <3>1. CASE Enter(p, "create", None, u, o)
      BY ZenonT(60), <3>1, EnterCreate
    <3>2. CASE \E r \in FindOpenApproval(o) :
                  \/ Expired(r) /\ Enter(p, "retire", r, u, o)
                  \/ ~Expired(r) /\ Enter(p, "consume", r, u, o)
      <4>1. PICK r \in FindOpenApproval(o) :
                  \/ Expired(r) /\ Enter(p, "retire", r, u, o)
                  \/ ~Expired(r) /\ Enter(p, "consume", r, u, o)
        BY <3>2
      <4>2. r \in Requests /\ status[r] \in Open
        BY DEF FindOpenApproval
      <4> QED BY <2>1, <4>1, <4>2, EnterLocal
    <3> QED BY <1>2, <3>1, <3>2 DEF GuardFind
  <2> QED BY <1>0, <2>1, <2>2
<1>3. ASSUME NEW p \in Procs, NEW u \in Users, NEW r \in Requests,
             ApproveLoad(p, u, r) \/ RejectLoad(p, u, r)
      PROVE  Locals'
  <2>1. Alone(p) /\ UNCHANGED ran
    BY <1>1, <1>3, MovesAlone DEF ApproveLoad, RejectLoad
  <2>2. Local(p)'
    <3>1. UNCHANGED <<status, info>> /\ status[r] \in Open
      BY Zenon, <1>3 DEF ApproveLoad, RejectLoad, Open
    <3>2. PICK l \in {"expire", "vote", "veto"} :
              Enter(p, l, r, u, None) /\ (l = "vote" => u # info[r].by)
      BY <1>3 DEF ApproveLoad, RejectLoad
    <3> QED BY <3>1, <3>2, EnterLocal
  <2> QED BY Zenon, <1>0, <2>1, <2>2
<1>4. ASSUME NEW p \in Procs, NEW r \in Requests, CompleteGet(p, r)
      PROVE  Locals'
  <2>1. Alone(p) /\ UNCHANGED ran
    BY <1>1, <1>4, MovesAlone DEF CompleteGet, call, Alone
  <2>2. Local(p)
    BY Zenon DEF IInv, Locals
  <2>3. Local(p)'
    <3>1. CASE UNCHANGED call
      BY Zenon, <1>4, <2>2, <3>1, LocalKept, GrowsStep DEF CompleteGet, call
    <3>2. CASE Enter(p, "claimload", r, None, None) /\ status[r] = "approved"
      BY Zenon, <1>1, <1>4, <2>2, <3>2 DEF CompleteGet, Enter, Local, TypeOK, Arg
    <3> QED BY Zenon, <1>4, <3>1, <3>2 DEF CompleteGet
  <2> QED BY ZenonT(60), <1>0, <2>1, <2>3
<1>5. ASSUME NEW p \in Procs, SweepList(p) PROVE Locals'
  <2>1. Alone(p) /\ UNCHANGED ran
    BY Zenon, <1>1, <1>5 DEF SweepList, Alone, TypeOK
  <2>2. Local(p)'
    <3>1. pc \in [Procs -> Labels] /\ todo \in [Procs -> SUBSET (Requests \X Status)]
      BY ZenonT(60), <1>1 DEF TypeOK
    <3>2. pc'[p] = "sweep" /\ \A e \in todo'[p] : e[2] \in Open
      BY <1>5, <3>1 DEF SweepList
    <3> QED BY Zenon, <3>2 DEF Local
  <2> QED BY Zenon, <1>0, <2>1, <2>2
<1>6. ASSUME NEW p \in Procs, Advance(p) PROVE Locals'
  <2>0. Local(p)
    BY Zenon DEF IInv, Locals
  <2> USE <1>1, <2>0
  <2>1. CASE GuardRetire(p)
    BY Zenon, <1>0, <2>1, MovesAlone, GotoLocal DEF GuardRetire, Local
  <2>2. CASE GuardConsume(p)
    <3>1. CASE status[arg[p].req] = "approved"
      <4>1. status'[arg[p].req] = "executed" /\ ran'[arg[p].req] = 0
        BY ZenonT(60), <2>2, <3>1, ConsumedNow DEF GuardConsume, Local
      <4> QED BY Zenon, <1>0, <2>2, <3>1, <4>1, MovesAlone, GotoLocal DEF GuardConsume
    <3> QED BY Zenon, <1>0, <2>2, <3>1, MovesAlone, ReturnLocal DEF GuardConsume
  <2>3. CASE GuardCreate(p)
    BY <1>0, <2>3, MovesAlone, ReturnLocal DEF GuardCreate
  <2>4. CASE RunOperation(p)
    BY <1>0, <2>4, MovesAlone, ReturnLocal, Zenon DEF RunOperation
  <2>5. CASE ExpireOnLoad(p)
    BY Zenon, <1>0, <2>5, MovesAlone, ReturnLocal DEF ExpireOnLoad
  <2>6. CASE ApproveVote(p)
    BY Zenon, <1>0, <2>6, MovesAlone, ReturnLocal, GotoLocal DEF ApproveVote
  <2>7. CASE ApproveCount(p)
    BY Zenon, <1>0, <2>7, MovesAlone, ReturnLocal, GotoLocal DEF ApproveCount, Enough
  <2>8. CASE ApproveMark(p)
    BY Zenon, <1>0, <2>8, MovesAlone, ReturnLocal DEF ApproveMark
  <2>9. CASE RejectVeto(p)
    BY Zenon, <1>0, <2>9, MovesAlone, GotoLocal DEF RejectVeto
  <2>10. CASE RejectMark(p)
    BY Zenon, <1>0, <2>10, MovesAlone, ReturnLocal DEF RejectMark
  <2>11. CASE SweepRow(p)
    <3>1. PICK e \in todo[p] :
              Return(p) \/ (todo' = [todo EXCEPT ![p] = @ \ {e}] /\ UNCHANGED <<pc, arg>>)
      BY Zenon, <2>11 DEF SweepRow
    <3>2. UNCHANGED ran
      BY Zenon, <2>11 DEF SweepRow
    <3>3. CASE Return(p)
      BY Zenon, <1>0, <3>2, <3>3, MovesAlone, ReturnLocal
    <3>4. CASE todo' = [todo EXCEPT ![p] = @ \ {e}] /\ UNCHANGED <<pc, arg>>
      <4>1. Alone(p) /\ todo'[p] \subseteq todo[p]
        BY Zenon, <3>4 DEF Alone, TypeOK
      <4>2. Local(p)'
        BY Zenon, <3>2, <3>4, <4>1, LocalKept, GrowsStep
      <4> QED BY Zenon, <1>0, <3>2, <4>1, <4>2
    <3> QED BY Zenon, <3>1, <3>3, <3>4
  <2>12. CASE ClaimLoad(p)
    BY Zenon, <1>0, <2>12, MovesAlone, ReturnLocal, GotoLocal DEF ClaimLoad
  <2>13. CASE Claim(p)
    <3>1. CASE status[arg[p].req] = "approved"
      <4>1. status'[arg[p].req] = "executed" /\ ran'[arg[p].req] = 0
        BY <2>13, <3>1, ConsumedNow DEF Claim, Local
      <4> QED BY ZenonT(60), <1>0, <2>13, <3>1, <4>1, MovesAlone, GotoLocal DEF Claim
    <3> QED BY Zenon, <1>0, <2>13, <3>1, MovesAlone, GotoLocal DEF Claim
  <2>14. CASE IssueCertificate(p)
    <3>1. CASE Goto(p, "recordok") /\ ran' = [ran EXCEPT ![arg[p].req] = @ + 1]
      <4>1. status'[arg[p].req] = "executed" /\ ran'[arg[p].req] = 1
        <5>1. ran \in [Requests -> Nat]
          BY Zenon DEF TypeOK
        <5>2. /\ arg[p].req \in Requests /\ status[arg[p].req] = "executed"
              /\ ran[arg[p].req] = 0 /\ UNCHANGED status
          BY Zenon, <2>14 DEF IssueCertificate, Local
        <5> QED BY Zenon, <3>1, <5>1, <5>2, Performed
      <4> QED BY <1>0, <2>14, <3>1, <4>1, MovesAlone, GotoLocal, Zenon DEF IssueCertificate
    <3>2. CASE Goto(p, "recorderr") /\ UNCHANGED ran
      <4>1. status'[arg[p].req] = "executed"
        BY Zenon, <2>14, <3>2 DEF IssueCertificate, Local
      <4> QED BY Zenon, <1>0, <2>14, <3>2, <4>1, MovesAlone, GotoLocal DEF IssueCertificate
    <3> QED BY <2>14, <3>1, <3>2 DEF IssueCertificate
  <2>15. CASE RecordResult(p)
    BY Zenon, <1>0, <2>15, MovesAlone, ReturnLocal DEF RecordResult
  <2> QED
    BY <1>6, <2>1, <2>2, <2>3, <2>4, <2>5, <2>6, <2>7, <2>8, <2>9, <2>10,
       <2>11, <2>12, <2>13, <2>14, <2>15 DEF Advance
<1>7. ASSUME NEW p \in Procs, Abort(p) PROVE Locals'
  BY Zenon, <1>0, <1>1, <1>7, MovesAlone, ReturnLocal DEF Abort
<1>8. CASE Tick
  <2> SUFFICES ASSUME NEW p \in Procs PROVE Local(p)'
    BY DEF Locals
  <2> QED BY <1>8, LocalKept, GrowsStep DEF Tick, call
<1> QED
  BY Zenon, <1>2, <1>3, <1>4, <1>5, <1>6, <1>7, <1>8 DEF Next

LEMMA IInvStep ==
    ASSUME IInv, [Next]_vars
    PROVE  IInv'
<1>1. TypeOK'
  BY TypeStep DEF IInv
<1>2. CASE Next
  BY Zenon, <1>1, <1>2, RowsStep, LocalsStep, OwnerStep DEF IInv
<1>3. CASE UNCHANGED vars
  <2> USE <1>3 DEF vars, call
  <2>0. Rows /\ Locals /\ Owner
    BY Zenon DEF IInv
  <2>a. \A r : Enough(r)' <=> Enough(r)
    BY ZenonT(60) DEF Enough, Approvers
  <2>1. Rows'
    BY <2>0, <2>a DEF Rows, Row
  <2>2. Locals'
    <3>1. \A r \in Requests : Grows(r)
      BY Zenon DEF Grows
    <3>2. \A p \in Procs : pc'[p] = pc[p] /\ arg'[p] = arg[p] /\ todo'[p] \subseteq todo[p]
                           /\ ran'[arg[p].req] = ran[arg[p].req]
      BY Zenon
    <3> QED BY Zenon, <1>1, <3>1, <3>2, LocalKept DEF Locals
  <2>3. Owner'
    BY <2>0 DEF Owner
  <2> QED BY <1>1, <2>1, <2>2, <2>3 DEF IInv
<1> QED BY <1>2, <1>3

-----------------------------------------------------------------------------
(* The promises.                                                           *)

F == INSTANCE FiniteSetTheorems

LEMMA CountsGrowHolds == CountsGrow
<1>1. \A S : (F!IsFiniteSet(S) <=> IsFiniteSet(S)) /\ F!Cardinality(S) = Cardinality(S)
  BY DEF F!IsFiniteSet, IsFiniteSet, F!Cardinality, Cardinality
<1> QED BY Zenon, <1>1, F!FS_Subset, F!FS_CardinalityType DEF CountsGrow

LEMMA IInvInvariant == Spec => []IInv
<1>1. Init => IInv
  BY CountsGrowHolds, IInvInit
<1>2. IInv /\ [Next]_vars => IInv'
  BY IInvStep
<1> QED BY <1>1, <1>2, PTL DEF Spec

-----------------------------------------------------------------------------
\* One approval, at most one execution: however many callers race through
\* Guard and Claim, and wherever they die.
THEOREM OperationAtMostOnce == Spec => []AtMostOnce
<1>1. IInv => AtMostOnce
  BY Zenon, Promises
<1> QED BY <1>1, IInvInvariant, PTL

\* No request is approved or executed without the sign-off of enough distinct
\* principals, the requester excluded.
THEOREM FourEyesHold == Spec => []FourEyes
<1>1. IInv => FourEyes
  BY Zenon, Promises
<1> QED BY <1>1, IInvInvariant, PTL

\* A denied or expired request is reported once and never performed.
THEOREM DenialHolds == Spec => []DenialIsFinal
<1>1. IInv => DenialIsFinal
  BY Zenon, Promises
<1> QED BY <1>1, IInvInvariant, PTL

\* A certificate is handed out only if one was issued under the request.
THEOREM DeliveryHolds == Spec => []DeliveredWasIssued
<1>1. IInv => DeliveredWasIssued
  BY Zenon, Promises
<1> QED BY <1>1, IInvInvariant, PTL

-----------------------------------------------------------------------------
\* Every behaviour of the engine, mapped to the gate, is a behaviour of the
\* gate: what ApprovalGate promises, the SQL statements keep.
THEOREM EngineImplementsGate == Spec => ImplementsGate
<1>1. IInv /\ [Next]_vars => [Gate!Next]_(Gate!gateVars)
  BY Zenon, GateStep, GateStutter DEF vars
<1> QED BY <1>1, GateInit, IInvInvariant, PTL DEF Spec, ImplementsGate, Gate!Spec

\* No stale compare-and-set moves a terminal request or skips a status.
THEOREM TerminalIsFinal == Spec => StatusStep
<1>1. IInv /\ Next => \A r \in Requests : Legal(r)
  BY Zenon, StatusMoves
<1> QED BY <1>1, IInvInvariant, PTL DEF Spec, StatusStep, Legal
=============================================================================
