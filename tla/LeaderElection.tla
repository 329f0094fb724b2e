--------------------------- MODULE LeaderElection ---------------------------
(***************************************************************************)
(* The elector of internal/leader: each replica campaigns for a            *)
(* session-level PostgreSQL advisory lock, runs the registered singleton   *)
(* jobs while it leads and stops them before it campaigns again.           *)
(*                                                                         *)
(* The session is the lease.  It can end on the server while the replica   *)
(* still believes it leads, and it can outlive the replica's end of the    *)
(* connection until PostgreSQL notices ("orphan").                         *)
(***************************************************************************)
EXTENDS Naturals, FiniteSets

CONSTANTS Replicas, Jobs,
          MaxDisturbances,  \* bound on shutdowns, crashes, timeouts, lost sessions
          NoSession         \* no PostgreSQL session holds the lock

ASSUME LeaderConstants ==
    /\ MaxDisturbances \in Nat
    /\ NoSession \notin Replicas /\ "orphan" \notin Replicas
    /\ NoSession # "orphan"

VARIABLES pc,          \* where Run is
          leader,      \* Elector.leader
          term,        \* the current jobCtx/jobWG generation
          registered,  \* Elector.jobs
          running,     \* the job goroutines of the replica, by term
          stopping,    \* Run's context is cancelled
          session,     \* pgLock.conn: "none", "live", or "broken" unnoticed
          holder,      \* the backend session that holds the advisory lock
          disturbances

electionVars == <<pc, leader, term, registered, running, stopping, session, holder, disturbances>>

ElectionInit ==
    /\ pc = [r \in Replicas |-> "campaign"]
    /\ leader = [r \in Replicas |-> FALSE]
    /\ term = [r \in Replicas |-> 0]
    /\ registered = [r \in Replicas |-> {}]
    /\ running = [r \in Replicas |-> {}]
    /\ stopping = [r \in Replicas |-> FALSE]
    /\ session = [r \in Replicas |-> "none"]
    /\ holder = NoSession
    /\ disturbances = 0

\* Closing the client's end: the backend, if it holds the lock, frees it only
\* when it notices.
Discard(r) ==
    /\ session' = [session EXCEPT ![r] = "none"]
    /\ holder' = IF holder = r THEN "orphan" ELSE holder

-----------------------------------------------------------------------------
(* The loop of Run while a follower.                                       *)

\* Mutant: the answer of pg_try_advisory_lock is ignored.
TryAcquireIgnoresAnswer(r) ==
    /\ pc[r] = "campaign" /\ ~stopping[r] /\ session[r] # "broken"
    /\ session' = [session EXCEPT ![r] = "live"]
    /\ holder' = IF holder = NoSession THEN r ELSE holder
    /\ pc' = [pc EXCEPT ![r] = "won"]
    /\ UNCHANGED <<leader, term, registered, running, stopping, disturbances>>

\* pg_try_advisory_lock on the (possibly new) session.
TryAcquire(r) ==
    /\ pc[r] = "campaign" /\ ~stopping[r]
    /\ session[r] # "broken"
    /\ session' = [session EXCEPT ![r] = "live"]
    /\ IF holder = NoSession
       THEN holder' = r /\ pc' = [pc EXCEPT ![r] = "won"]
       ELSE UNCHANGED <<holder, pc>>
    /\ UNCHANGED <<leader, term, registered, running, stopping, disturbances>>

\* A query fails on a broken session, when Run's context is cancelled under
\* it, or by its own timeout.
QueryError(r) ==
    \/ session[r] = "broken" /\ UNCHANGED disturbances
    \/ stopping[r] /\ UNCHANGED disturbances
    \/ disturbances < MaxDisturbances /\ disturbances' = disturbances + 1

\* Mutant: the session is kept after a failed attempt.
TryAcquireErrorKeepsSession(r) ==
    /\ pc[r] = "campaign" /\ session[r] # "none"
    /\ QueryError(r)
    /\ UNCHANGED <<pc, leader, term, registered, running, stopping, session, holder>>

\* The attempt fails, before or after the backend granted the lock; the
\* session is discarded.
TryAcquireError(r) ==
    /\ pc[r] = "campaign" /\ session[r] # "none"
    /\ QueryError(r)
    /\ session' = [session EXCEPT ![r] = "none"]
    /\ \/ UNCHANGED holder
       \/ session[r] = "live" /\ holder = NoSession /\ holder' = "orphan"
    /\ UNCHANGED <<pc, leader, term, registered, running, stopping>>

\* A fresh job context and wait group; every registered job starts.
BecomeLeader(r) ==
    /\ pc[r] = "won"
    /\ pc' = [pc EXCEPT ![r] = "lead"]
    /\ leader' = [leader EXCEPT ![r] = TRUE]
    /\ term' = [term EXCEPT ![r] = @ + 1]
    /\ running' = [running EXCEPT ![r] = @ \union (registered[r] \X {term[r] + 1})]
    /\ UNCHANGED <<registered, stopping, session, holder, disturbances>>

-----------------------------------------------------------------------------
(* The loop while the leader, and stepping down.                           *)

\* The renew interval is over; the confirmation query is sent.
BeginConfirm(r) ==
    /\ pc[r] = "lead" /\ ~stopping[r]
    /\ pc' = [pc EXCEPT ![r] = "confirm"]
    /\ UNCHANGED <<leader, term, registered, running, stopping, session, holder, disturbances>>

Confirm(r) ==
    /\ pc[r] = "confirm" /\ session[r] = "live" /\ holder = r
    /\ pc' = [pc EXCEPT ![r] = "lead"]
    /\ UNCHANGED <<leader, term, registered, running, stopping, session, holder, disturbances>>

\* Mutant: a failed confirmation is only logged.
ConfirmErrorLogged(r) ==
    /\ pc[r] = "confirm"
    /\ QueryError(r)
    /\ pc' = [pc EXCEPT ![r] = "lead"]
    /\ UNCHANGED <<leader, term, registered, running, stopping, session, holder>>

\* An unconfirmed lease: the session is closed before the jobs are stopped.
ConfirmError(r) ==
    /\ pc[r] = "confirm"
    /\ QueryError(r)
    /\ Discard(r)
    /\ pc' = [pc EXCEPT ![r] = "stepdown"]
    /\ UNCHANGED <<leader, term, registered, running, stopping>>

\* Run leaves its loop on cancellation while it leads.
StopLeading(r) ==
    /\ pc[r] = "lead" /\ stopping[r]
    /\ pc' = [pc EXCEPT ![r] = "stepdown"]
    /\ UNCHANGED <<leader, term, registered, running, stopping, session, holder, disturbances>>

\* Release: unlock on a working session, then discard it.
Release(r) ==
    /\ session' = [session EXCEPT ![r] = "none"]
    /\ holder' = IF holder = r /\ session[r] = "live" THEN NoSession ELSE holder

\* Mutant: the lock is released before the jobs are waited for.
StepDownReleasesFirst(r) ==
    /\ pc[r] = "stepdown"
    /\ leader' = [leader EXCEPT ![r] = FALSE]
    /\ pc' = [pc EXCEPT ![r] = "wait"]
    /\ Release(r)
    /\ UNCHANGED <<term, registered, running, stopping, disturbances>>

\* stepDown up to wg.Wait: the term ends and its context is cancelled.
StepDown(r) ==
    /\ pc[r] = "stepdown"
    /\ leader' = [leader EXCEPT ![r] = FALSE]
    /\ pc' = [pc EXCEPT ![r] = "wait"]
    /\ UNCHANGED <<term, registered, running, stopping, session, holder, disturbances>>

\* A job of a cancelled term returns, or one returns by itself.
JobReturns(r, g) ==
    /\ g \in running[r]
    /\ running' = [running EXCEPT ![r] = @ \ {g}]
    /\ UNCHANGED <<pc, leader, term, registered, stopping, session, holder, disturbances>>

\* Mutant: stepDown does not wait for the jobs.
DrainedWithoutWait(r) ==
    /\ pc[r] = "wait"
    /\ Release(r)
    /\ pc' = [pc EXCEPT ![r] = IF stopping[r] THEN "stopped" ELSE "campaign"]
    /\ UNCHANGED <<leader, term, registered, running, stopping, disturbances>>

\* wg.Wait returned; the lock is released and the loop goes on or ends.
Drained(r) ==
    /\ pc[r] = "wait" /\ running[r] = {}
    /\ Release(r)
    /\ pc' = [pc EXCEPT ![r] = IF stopping[r] THEN "stopped" ELSE "campaign"]
    /\ UNCHANGED <<leader, term, registered, running, stopping, disturbances>>

StopFollowing(r) ==
    /\ pc[r] = "campaign" /\ stopping[r]
    /\ Release(r)
    /\ pc' = [pc EXCEPT ![r] = "stopped"]
    /\ UNCHANGED <<leader, term, registered, running, stopping, disturbances>>

-----------------------------------------------------------------------------
(* Register, shutdown, and the faults of the environment.                  *)

\* Registering on a current leader starts the job in the current term.
Register(r, j) ==
    /\ pc[r] # "down" /\ j \notin registered[r]
    /\ registered' = [registered EXCEPT ![r] = @ \union {j}]
    /\ running' = IF leader[r] THEN [running EXCEPT ![r] = @ \union {<<j, term[r]>>}]
                  ELSE running
    /\ UNCHANGED <<pc, leader, term, stopping, session, holder, disturbances>>

Shutdown(r) ==
    /\ pc[r] \notin {"down", "stopped"} /\ ~stopping[r]
    /\ disturbances < MaxDisturbances /\ disturbances' = disturbances + 1
    /\ stopping' = [stopping EXCEPT ![r] = TRUE]
    /\ UNCHANGED <<pc, leader, term, registered, running, session, holder>>

\* PostgreSQL ends the session (restart, failover, terminated backend).
BackendDies(r) ==
    /\ session[r] = "live" /\ disturbances < MaxDisturbances
    /\ session' = [session EXCEPT ![r] = "broken"]
    /\ holder' = IF holder = r THEN NoSession ELSE holder
    /\ disturbances' = disturbances + 1
    /\ UNCHANGED <<pc, leader, term, registered, running, stopping>>

\* The connection is cut; the backend does not know yet.
ConnectionLost(r) ==
    /\ session[r] = "live" /\ disturbances < MaxDisturbances
    /\ session' = [session EXCEPT ![r] = "broken"]
    /\ holder' = IF holder = r THEN "orphan" ELSE holder
    /\ disturbances' = disturbances + 1
    /\ UNCHANGED <<pc, leader, term, registered, running, stopping>>

\* PostgreSQL notices that the client is gone and frees the lock.
SessionReaped ==
    /\ holder = "orphan"
    /\ holder' = NoSession
    /\ UNCHANGED <<pc, leader, term, registered, running, stopping, session, disturbances>>

\* The process dies, its goroutines with it, and is started again.
Crash(r) ==
    /\ pc[r] # "down" /\ disturbances < MaxDisturbances
    /\ pc' = [pc EXCEPT ![r] = "down"]
    /\ leader' = [leader EXCEPT ![r] = FALSE]
    /\ registered' = [registered EXCEPT ![r] = {}]
    /\ running' = [running EXCEPT ![r] = {}]
    /\ stopping' = [stopping EXCEPT ![r] = FALSE]
    /\ Discard(r)
    /\ disturbances' = disturbances + 1
    /\ UNCHANGED term

Restart(r) ==
    /\ pc[r] \in {"down", "stopped"} /\ running[r] = {}
    /\ pc' = [pc EXCEPT ![r] = "campaign"]
    /\ registered' = [registered EXCEPT ![r] = {}]
    /\ stopping' = [stopping EXCEPT ![r] = FALSE]
    /\ UNCHANGED <<leader, term, running, session, holder, disturbances>>

-----------------------------------------------------------------------------
RunStep(r) ==
    \/ TryAcquire(r) \/ TryAcquireError(r) \/ BecomeLeader(r)
    \/ BeginConfirm(r) \/ Confirm(r) \/ ConfirmError(r)
    \/ StopLeading(r) \/ StepDown(r) \/ Drained(r) \/ StopFollowing(r)

ElectionNext ==
    \/ \E r \in Replicas :
          \/ RunStep(r)
          \/ \E g \in running[r] : JobReturns(r, g)
          \/ \E j \in Jobs : Register(r, j)
          \/ Shutdown(r) \/ Restart(r)
          \/ BackendDies(r) \/ ConnectionLost(r) \/ Crash(r)
    \/ SessionReaped

ElectionSpec == ElectionInit /\ [][ElectionNext]_electionVars

\* The Run goroutine of a live process is scheduled; PostgreSQL notices a dead
\* client (TCP keepalive); a job whose term is cancelled returns, which
\* Register demands of every job.
Cancelled(r) == pc[r] = "wait" \/ stopping[r]

Fairness ==
    /\ \A r \in Replicas :
          /\ WF_electionVars(RunStep(r))
          /\ WF_electionVars(Cancelled(r) /\ \E g \in running[r] : JobReturns(r, g))
    /\ WF_electionVars(SessionReaped)

FairElection == ElectionSpec /\ Fairness

-----------------------------------------------------------------------------
Pcs == {"campaign", "won", "lead", "confirm", "stepdown", "wait", "stopped", "down"}

\* The state of the elector has the types its Go fields and the lock give it.
ElectionTypeOK ==
    /\ pc \in [Replicas -> Pcs]
    /\ leader \in [Replicas -> BOOLEAN]
    /\ term \in [Replicas -> Nat]
    /\ registered \in [Replicas -> SUBSET Jobs]
    /\ running \in [Replicas -> SUBSET (Jobs \X Nat)]
    /\ stopping \in [Replicas -> BOOLEAN]
    /\ session \in [Replicas -> {"none", "live", "broken"}]
    /\ holder \in Replicas \union {"orphan", NoSession}
    /\ disturbances \in 0 .. MaxDisturbances

\* stepDown waits for its jobs, so a replica never runs two generations of
\* them at once, and a replica that campaigns runs none, whatever Register,
\* lost sessions and shutdown do in between.
OneGeneration ==
    \A r \in Replicas :
        /\ \A g \in running[r] : g[2] = term[r]
        /\ running[r] # {} => pc[r] \in {"lead", "confirm", "stepdown", "wait"}

\* Two replicas run jobs at once only while one of them has lost its session,
\* noticed or not: as long as its session lives, a replica whose jobs still
\* run has the lock to itself (the order of stepDown: jobs, then Release).
OverlapNeedsLostSession ==
    \A r, q \in Replicas :
        r # q /\ running[r] # {} /\ running[q] # {}
            => session[r] # "live" \/ session[q] # "live"

\* A replica that holds the lock is one that leads, is about to, or is
\* draining: no follower's session keeps the lock from the others, which is
\* what discarding a doubtful session is for.
NoFollowerHoldsLock ==
    \A r \in Replicas :
        holder = r => session[r] = "live"
                      /\ pc[r] \in {"won", "lead", "confirm", "stepdown", "wait"}

\* Run gives the lock up under running jobs only when it could not confirm the
\* lease; what else takes it away is a fault.
LockOutlivesJobs ==
    [][\A r \in Replicas :
          holder = r /\ holder' # r /\ running[r] # {}
              => pc[r] = "confirm" \/ disturbances' # disturbances]_electionVars

\* While some replica wants to lead, the fleet does get a leader again after
\* any finite number of faults: the lock of a dead leader is freed.
Candidate(r) == pc[r] \notin {"down", "stopped"} /\ ~stopping[r]
Failover == (\E r \in Replicas : Candidate(r))
                ~> ((\E r \in Replicas : leader[r]) \/ ~\E r \in Replicas : Candidate(r))

\* A leader that has lost the lock finds out and stops every job.
DeposedLeaderStops ==
    \A r \in Replicas : (leader[r] /\ holder # r) ~> (~leader[r] /\ running[r] = {})

\* What Run says of its shutdown: the jobs stop first, then the lock is handed
\* back.  A confirmation query in flight when the context is cancelled fails,
\* and Confirm then closes the session under the running jobs.
ShutdownStopsJobsFirst ==
    [][\A r \in Replicas :
          stopping[r] /\ holder = r /\ holder' # r /\ disturbances' = disturbances
              => running[r] = {}]_electionVars
=============================================================================
