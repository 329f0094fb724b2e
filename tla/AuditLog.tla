------------------------------ MODULE AuditLog ------------------------------
(***************************************************************************)
(* The hash-chained event log: AppendEvent of database/event_log.go and    *)
(* Seal of audit/audit.go.  An append reads the last row and inserts the   *)
(* next in one transaction under eventMu, a mutex of the process, so the   *)
(* appends of two replicas meet only at the primary key.  AuditExport and  *)
(* EventStream add the readers of the log.                                 *)
(***************************************************************************)
EXTENDS Integers, Sequences, FiniteSets, FiniteSetsExt

CONSTANTS Replicas,
          MaxSeq,      \* bound on the rows
          MaxErrors    \* bound on failures, crashes and lost leaderships

ASSUME AuditLogConstants ==
    /\ Replicas # {} /\ IsFiniteSet(Replicas)
    /\ MaxSeq \in Nat \ {0} /\ MaxErrors \in Nat

VARIABLES log,    \* event_log: the event and the prev_hash of each row, by seq,
                  \* and whether its append was reported failed (quiet)
          app,    \* the append in flight in each replica
          errors

Idle == [at |-> "idle"]
Genesis == <<>>

LogInit ==
    /\ log = <<>>
    /\ app = [r \in Replicas |-> Idle]
    /\ errors = 0

\* An error of the database, a sink or the time-stamping authority.
Err == errors < MaxErrors /\ errors' = errors + 1

\* ComputeHash covers the sequence number, the content and, through prev_hash,
\* the rows before; the writer stands for the event's unique id.
Hash(n) == IF n = 0 THEN Genesis ELSE <<n, log[n].by, log[n].act>>

\* AppendEvent up to the insert: take eventMu and read the last row.
ReadLast(r, act) ==
    /\ app[r] = Idle
    /\ Len(log) < MaxSeq
    /\ app' = [app EXCEPT ![r] = [at |-> "insert", act |-> act, seq |-> Len(log) + 1,
                                  prev |-> Hash(Len(log))]]

\* The row is in the log; the append goes on to the hook, or to return the error.
Commit(r, next) ==
    /\ log' = Append(log, [by |-> r, act |-> app[r].act, prev |-> app[r].prev,
                           quiet |-> (next = "return")])
    /\ app' = [app EXCEPT ![r].at = next]

\* Mutant: the sequence number is the database's to assign.
InsertNext(r) ==
    /\ app[r].at = "insert"
    /\ Commit(r, "hook")
    /\ UNCHANGED errors

\* Seal, INSERT and COMMIT.  A row another replica has inserted meanwhile is a
\* conflict on the primary key: the event is lost, as on any other error.  A
\* COMMIT may take effect and report an error all the same.
Insert(r) ==
    /\ app[r].at = "insert"
    /\ IF app[r].seq \in DOMAIN log
       THEN /\ app' = [app EXCEPT ![r] = Idle]
            /\ UNCHANGED <<log, errors>>
       ELSE \/ /\ Commit(r, "hook")
               /\ UNCHANGED errors
            \/ /\ Commit(r, "return")
               /\ Err
            \/ /\ Err
               /\ app' = [app EXCEPT ![r] = Idle]
               /\ UNCHANGED log

\* The error of a COMMIT that took effect: eventMu is released and no hook runs.
ReturnError(r) ==
    /\ app[r].at = "return"
    /\ app' = [app EXCEPT ![r] = Idle]
    /\ UNCHANGED <<log, errors>>

\* The hook runs and eventMu is released.
HookDone(r) ==
    /\ app[r].at = "hook"
    /\ app' = [app EXCEPT ![r] = Idle]
    /\ UNCHANGED <<log, errors>>

\* The process dies between two statements of an append.
AppendDies(r) == app' = [app EXCEPT ![r] = Idle]

LogTypeOK ==
    /\ \A i \in 1 .. Len(log) : log[i].by \in Replicas
    /\ \A r \in Replicas : app[r].at \in {"idle", "insert", "hook", "return"}
    /\ errors \in 0 .. MaxErrors

\* VerifyFullChain accepts the log: every row's prev_hash is the hash of the row
\* before it, however the appends of the replicas interleave.
ChainVerifies == \A i \in DOMAIN log : log[i].prev = Hash(i - 1)
=============================================================================
