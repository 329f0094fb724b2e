---------------------------- MODULE ApprovalGate ----------------------------
(***************************************************************************)
(* What the four-eyes gate promises, without statements, callers or        *)
(* clocks: a request is held until enough principals other than its maker  *)
(* have signed, is then authorized, is consumed by one caller and          *)
(* performed by that caller at most once.  Until it is consumed it may be  *)
(* refused, for good.                                                      *)
(***************************************************************************)
EXTENDS Naturals, FiniteSets

CONSTANTS Users, Requests, Thresholds

VARIABLES phase, maker, need, signed, done

gateVars == <<phase, maker, need, signed, done>>

Init ==
    /\ phase = [r \in Requests |-> "none"]
    /\ signed = [r \in Requests |-> {}]
    /\ done = [r \in Requests |-> 0]
    /\ \A r, q \in Requests : maker[r] = maker[q] /\ maker[r] \notin Users
    /\ need = [r \in Requests |-> 0]

Submit(r, u, n) ==
    /\ phase[r] = "none"
    /\ phase' = [phase EXCEPT ![r] = "held"]
    /\ maker' = [maker EXCEPT ![r] = u]
    /\ need' = [need EXCEPT ![r] = n]
    /\ UNCHANGED <<signed, done>>

Sign(r, u) ==
    /\ phase[r] # "none" /\ u # maker[r]
    /\ signed' = [signed EXCEPT ![r] = @ \union {u}]
    /\ UNCHANGED <<phase, maker, need, done>>

Authorize(r) ==
    /\ phase[r] = "held" /\ Cardinality(signed[r]) >= need[r]
    /\ phase' = [phase EXCEPT ![r] = "authorized"]
    /\ UNCHANGED <<maker, need, signed, done>>

Consume(r) ==
    /\ phase[r] = "authorized"
    /\ phase' = [phase EXCEPT ![r] = "consumed"]
    /\ UNCHANGED <<maker, need, signed, done>>

Perform(r) ==
    /\ phase[r] = "consumed" /\ done[r] = 0
    /\ done' = [done EXCEPT ![r] = 1]
    /\ UNCHANGED <<phase, maker, need, signed>>

Refuse(r) ==
    /\ phase[r] \in {"held", "authorized"}
    /\ phase' = [phase EXCEPT ![r] = "refused"]
    /\ UNCHANGED <<maker, need, signed, done>>

Next ==
    \E r \in Requests :
        \/ \E u \in Users : Sign(r, u) \/ \E n \in Thresholds : Submit(r, u, n)
        \/ Authorize(r) \/ Consume(r) \/ Perform(r) \/ Refuse(r)

Spec == Init /\ [][Next]_gateVars
=============================================================================
