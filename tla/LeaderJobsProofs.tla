-------------------------- MODULE LeaderJobsProofs --------------------------
(***************************************************************************)
(* The elector and the webhook worker, one of the jobs it starts and stops.*)
(*                                                                         *)
(* The safety properties of the elector, for any number of replicas, jobs  *)
(* and disturbances.  Since two terms may overlap once a session is lost,  *)
(* the webhook queue is proved for any number of overlapping fan-out and   *)
(* delivery loops, subscriptions and events: what it records of a delivery *)
(* is what happened, and the durable cursor passes no event that a         *)
(* subscription is owed, provided the cursor was seeded before two         *)
(* fan-outs could overlap.                                                 *)
(***************************************************************************)
EXTENDS LeaderElection, WebhookDelivery, TLAPS

-----------------------------------------------------------------------------
(* The elector.                                                            *)

USE LeaderConstants

\* The elector's state is well typed.
THEOREM ElectionTypes == ElectionSpec => []ElectionTypeOK
<1>1. ElectionInit => ElectionTypeOK
  BY DEF ElectionInit, ElectionTypeOK, Pcs
<1>2. ElectionTypeOK /\ [ElectionNext]_electionVars => ElectionTypeOK'
  <2> SUFFICES ASSUME ElectionTypeOK, [ElectionNext]_electionVars PROVE ElectionTypeOK'
    OBVIOUS
  <2> USE DEF ElectionTypeOK, Pcs
  <2>1. CASE SessionReaped
    BY <2>1 DEF SessionReaped
  <2>2. ASSUME NEW r \in Replicas, RunStep(r) PROVE ElectionTypeOK'
    <3>1. CASE TryAcquire(r)       BY <3>1 DEF TryAcquire
    <3>2. CASE TryAcquireError(r)  BY <3>2 DEF TryAcquireError, QueryError
    <3>3. CASE BecomeLeader(r)
      <4>1. registered[r] \X {term[r] + 1} \in SUBSET (Jobs \X Nat)
        OBVIOUS
      <4> QED BY <3>3, <4>1 DEF BecomeLeader
    <3>4. CASE BeginConfirm(r)     BY <3>4 DEF BeginConfirm
    <3>5. CASE Confirm(r)          BY <3>5 DEF Confirm
    <3>6. CASE ConfirmError(r)     BY <3>6 DEF ConfirmError, QueryError, Discard
    <3>7. CASE StopLeading(r)      BY <3>7 DEF StopLeading
    <3>8. CASE StepDown(r)         BY <3>8 DEF StepDown
    <3>9. CASE Drained(r)          BY <3>9 DEF Drained, Release
    <3>10. CASE StopFollowing(r)   BY <3>10 DEF StopFollowing, Release
    <3> QED BY <2>2, <3>1, <3>2, <3>3, <3>4, <3>5, <3>6, <3>7, <3>8, <3>9, <3>10 DEF RunStep
  <2>3. ASSUME NEW r \in Replicas, NEW g \in running[r], JobReturns(r, g) PROVE ElectionTypeOK'
    BY <2>3 DEF JobReturns
  <2>4. ASSUME NEW r \in Replicas, NEW j \in Jobs, Register(r, j) PROVE ElectionTypeOK'
    BY <2>4 DEF Register
  <2>5. ASSUME NEW r \in Replicas, Shutdown(r) PROVE ElectionTypeOK'
    BY <2>5 DEF Shutdown
  <2>6. ASSUME NEW r \in Replicas, Restart(r) PROVE ElectionTypeOK'
    BY <2>6 DEF Restart
  <2>7. ASSUME NEW r \in Replicas, BackendDies(r) PROVE ElectionTypeOK'
    BY <2>7 DEF BackendDies
  <2>8. ASSUME NEW r \in Replicas, ConnectionLost(r) PROVE ElectionTypeOK'
    BY <2>8 DEF ConnectionLost
  <2>9. ASSUME NEW r \in Replicas, Crash(r) PROVE ElectionTypeOK'
    BY <2>9 DEF Crash, Discard
  <2>10. CASE UNCHANGED electionVars
    BY <2>10 DEF electionVars
  <2> QED
    BY <2>1, <2>2, <2>3, <2>4, <2>5, <2>6, <2>7, <2>8, <2>9, <2>10 DEF ElectionNext
<1> QED
  BY <1>1, <1>2, PTL DEF ElectionSpec

-----------------------------------------------------------------------------
\* Running jobs belong to the current term, of a replica that leads or drains;
\* leader is set in the program points between becomeLeader and stepDown.
Generations ==
    /\ OneGeneration
    /\ \A r \in Replicas : leader[r] <=> pc[r] \in {"lead", "confirm", "stepdown"}

\* The lock and the sessions agree: whoever holds the lock has a live session
\* and is between winning and draining; a replica in that stretch whose session
\* lives has the lock.
Lease ==
    /\ NoFollowerHoldsLock
    /\ \A r \in Replicas :
          session[r] = "live" /\ pc[r] \in {"won", "lead", "confirm", "stepdown", "wait"}
              => holder = r

\* The inductive invariant.  OverlapNeedsLostSession is not inductive by
\* itself: that a live session of a replica that runs jobs holds the lock has
\* to be carried along, and for that where each replica is.
ElectionInv == ElectionTypeOK /\ Generations /\ Lease

LEMMA ElectionInvInit == ElectionInit => ElectionInv
BY DEF ElectionInit, ElectionInv, ElectionTypeOK, Pcs, Generations, OneGeneration, Lease, NoFollowerHoldsLock

LEMMA GenerationsStep == ElectionInv /\ [ElectionNext]_electionVars => Generations'
<1> SUFFICES ASSUME ElectionInv, [ElectionNext]_electionVars PROVE Generations'
  OBVIOUS
<1> USE DEF ElectionInv, ElectionTypeOK, Pcs, Generations, OneGeneration
<1>1. CASE SessionReaped
  BY <1>1 DEF SessionReaped
<1>2. ASSUME NEW r \in Replicas, RunStep(r) PROVE Generations'
  <2>1. CASE TryAcquire(r)       BY <2>1 DEF TryAcquire
  <2>2. CASE TryAcquireError(r)  BY <2>2 DEF TryAcquireError
  <2>3. CASE BecomeLeader(r)
    <3>1. running[r] = {}
      BY <2>3 DEF BecomeLeader
    <3>2. \A g \in running'[r] : g[2] = term'[r]
      BY <2>3, <3>1 DEF BecomeLeader
    <3> QED BY <2>3, <3>2 DEF BecomeLeader
  <2>4. CASE BeginConfirm(r)     BY <2>4 DEF BeginConfirm
  <2>5. CASE Confirm(r)          BY <2>5 DEF Confirm
  <2>6. CASE ConfirmError(r)     BY <2>6 DEF ConfirmError
  <2>7. CASE StopLeading(r)      BY <2>7 DEF StopLeading
  <2>8. CASE StepDown(r)         BY <2>8 DEF StepDown
  <2>9. CASE Drained(r)          BY <2>9 DEF Drained
  <2>10. CASE StopFollowing(r)   BY <2>10 DEF StopFollowing
  <2> QED BY <1>2, <2>1, <2>2, <2>3, <2>4, <2>5, <2>6, <2>7, <2>8, <2>9, <2>10 DEF RunStep
<1>3. ASSUME NEW r \in Replicas, NEW g \in running[r], JobReturns(r, g) PROVE Generations'
  BY <1>3 DEF JobReturns
<1>4. ASSUME NEW r \in Replicas, NEW j \in Jobs, Register(r, j) PROVE Generations'
  BY <1>4 DEF Register
<1>5. ASSUME NEW r \in Replicas, Shutdown(r) PROVE Generations'
  BY <1>5 DEF Shutdown
<1>6. ASSUME NEW r \in Replicas, Restart(r) PROVE Generations'
  BY <1>6 DEF Restart
<1>7. ASSUME NEW r \in Replicas, BackendDies(r) PROVE Generations'
  BY <1>7 DEF BackendDies
<1>8. ASSUME NEW r \in Replicas, ConnectionLost(r) PROVE Generations'
  BY <1>8 DEF ConnectionLost
<1>9. ASSUME NEW r \in Replicas, Crash(r) PROVE Generations'
  BY <1>9 DEF Crash
<1>10. CASE UNCHANGED electionVars
  BY <1>10 DEF electionVars
<1> QED
  BY <1>1, <1>2, <1>3, <1>4, <1>5, <1>6, <1>7, <1>8, <1>9, <1>10 DEF ElectionNext

LEMMA LeaseStep == ElectionInv /\ [ElectionNext]_electionVars => Lease'
<1> SUFFICES ASSUME ElectionInv, [ElectionNext]_electionVars PROVE Lease'
  OBVIOUS
<1> USE DEF ElectionInv, ElectionTypeOK, Pcs, Lease, NoFollowerHoldsLock
<1>1. CASE SessionReaped
  BY <1>1 DEF SessionReaped
<1>2. ASSUME NEW r \in Replicas, RunStep(r) PROVE Lease'
  <2>1. CASE TryAcquire(r)       BY <2>1 DEF TryAcquire
  <2>2. CASE TryAcquireError(r)  BY <2>2 DEF TryAcquireError
  <2>3. CASE BecomeLeader(r)     BY <2>3 DEF BecomeLeader
  <2>4. CASE BeginConfirm(r)     BY <2>4 DEF BeginConfirm
  <2>5. CASE Confirm(r)          BY <2>5 DEF Confirm
  <2>6. CASE ConfirmError(r)     BY <2>6 DEF ConfirmError, Discard
  <2>7. CASE StopLeading(r)      BY <2>7 DEF StopLeading
  <2>8. CASE StepDown(r)         BY <2>8 DEF StepDown
  <2>9. CASE Drained(r)          BY <2>9 DEF Drained, Release
  <2>10. CASE StopFollowing(r)   BY <2>10 DEF StopFollowing, Release
  <2> QED BY <1>2, <2>1, <2>2, <2>3, <2>4, <2>5, <2>6, <2>7, <2>8, <2>9, <2>10 DEF RunStep
<1>3. ASSUME NEW r \in Replicas, NEW g \in running[r], JobReturns(r, g) PROVE Lease'
  BY <1>3 DEF JobReturns
<1>4. ASSUME NEW r \in Replicas, NEW j \in Jobs, Register(r, j) PROVE Lease'
  BY <1>4 DEF Register
<1>5. ASSUME NEW r \in Replicas, Shutdown(r) PROVE Lease'
  BY <1>5 DEF Shutdown
<1>6. ASSUME NEW r \in Replicas, Restart(r) PROVE Lease'
  BY <1>6 DEF Restart
<1>7. ASSUME NEW r \in Replicas, BackendDies(r) PROVE Lease'
  BY <1>7 DEF BackendDies
<1>8. ASSUME NEW r \in Replicas, ConnectionLost(r) PROVE Lease'
  BY <1>8 DEF ConnectionLost
<1>9. ASSUME NEW r \in Replicas, Crash(r) PROVE Lease'
  BY <1>9 DEF Crash, Discard
<1>10. CASE UNCHANGED electionVars
  BY <1>10 DEF electionVars
<1> QED
  BY <1>1, <1>2, <1>3, <1>4, <1>5, <1>6, <1>7, <1>8, <1>9, <1>10 DEF ElectionNext

LEMMA AlwaysElectionInv == ElectionSpec => []ElectionInv
<1>1. ElectionTypeOK /\ Generations /\ Lease => ElectionInv
  BY DEF ElectionInv
<1>2. ElectionSpec => [](ElectionTypeOK)
  BY ElectionTypes
<1> QED
  BY <1>1, <1>2, ElectionInvInit, GenerationsStep, LeaseStep, PTL DEF ElectionSpec, ElectionInv

\* A replica never runs two generations of its jobs, and none while it
\* campaigns: stepDown waits before it returns to the loop of Run.
THEOREM GenerationsNeverOverlap == ElectionSpec => []OneGeneration
<1>1. ElectionInv => OneGeneration
  BY DEF ElectionInv, Generations
<1> QED BY <1>1, AlwaysElectionInv, PTL

\* Two replicas run jobs at once only if one of them has lost its session.
THEOREM OverlapOnlyAfterLoss == ElectionSpec => []OverlapNeedsLostSession
<1>1. ElectionInv => OverlapNeedsLostSession
  BY DEF ElectionInv, ElectionTypeOK, Generations, OneGeneration, Lease, OverlapNeedsLostSession
<1> QED BY <1>1, AlwaysElectionInv, PTL

\* No follower keeps the lock from the others through a session of its own.
THEOREM FollowersHoldNoLock == ElectionSpec => []NoFollowerHoldsLock
<1>1. ElectionInv => NoFollowerHoldsLock
  BY DEF ElectionInv, Lease
<1> QED BY <1>1, AlwaysElectionInv, PTL

\* A step of the system that takes the lock from a replica with running jobs
\* is a failed confirmation or a fault; stepDown never does.
THEOREM LockGivenUpAfterJobs == ElectionSpec => LockOutlivesJobs
<1> DEFINE Keeps ==
      \A r \in Replicas :
          holder = r /\ holder' # r /\ running[r] # {}
              => pc[r] = "confirm" \/ disturbances' # disturbances
<1>1. ElectionInv /\ [ElectionNext]_electionVars => [Keeps]_electionVars
  <2> SUFFICES ASSUME ElectionInv, ElectionNext, NEW q \in Replicas,
                      holder = q, holder' # q, running[q] # {}
               PROVE  pc[q] = "confirm" \/ disturbances' # disturbances
    OBVIOUS
  <2>0. pc[q] \in {"lead", "confirm", "stepdown", "wait"} /\ disturbances \in Nat
    BY DEF ElectionInv, ElectionTypeOK, Generations, OneGeneration
  <2>1. ASSUME NEW r \in Replicas, RunStep(r) PROVE pc[q] = "confirm"
    BY <2>0, <2>1 DEF RunStep, TryAcquire, TryAcquireError, BecomeLeader, BeginConfirm,
       Confirm, ConfirmError, Discard, StopLeading, StepDown, Drained, StopFollowing, Release
  <2>2. CASE SessionReaped
    BY <2>2 DEF SessionReaped
  <2>3. ASSUME NEW r \in Replicas,
               BackendDies(r) \/ ConnectionLost(r) \/ Crash(r)
        PROVE  disturbances' # disturbances
    BY <2>0, <2>3 DEF BackendDies, ConnectionLost, Crash
  <2> QED
    BY <2>1, <2>2, <2>3 DEF ElectionNext, JobReturns, Register, Shutdown, Restart
<1> QED BY <1>1, AlwaysElectionInv, PTL DEF ElectionSpec, LockOutlivesJobs

HIDE LeaderConstants

-----------------------------------------------------------------------------
(* The webhook queue: the inductive invariants.                            *)

\* The first start of the feature is not a handover.
SafeSeeding == conf.seeded \/ \A v, w \in conf.fanouts : v = w

\* What a fan-out may rely on: seeding, no one else has; past seeding, it has
\* enqueued what is owed up to its cursor, and in a sweep the rest is to do.
FanLocal(w) ==
    /\ fpc[w] # "off" => w \in conf.fanouts
    /\ fpc[w] \in {"head", "seed"} => cursor = {}
    /\ cur[w] <= head /\ last[w] <= head
    /\ fpc[w] \in {"sweep", "subs", "enqueue"} =>
          cursor # {} /\ \A k \in owed : k[2] <= cur[w] => row[k] # "none"
    /\ fpc[w] = "enqueue" =>
          \A k \in owed : k[2] <= last[w] => row[k] # "none" \/ k \in todo[w]

FanInv ==
    /\ SafeSeeding
    /\ conf.seeded => cursor # {}
    /\ cursor = {} => owed = {}
    /\ \A c \in cursor : c <= head
    /\ \A k \in owed : sub[k[1]] = "enabled"
    /\ NoEventSkipped
    /\ \A w \in FanOuts : FanLocal(w)

\* n POSTs of k were made, as far as they are counted.
Posted(k, n) == n <= posts[k] \/ posts[k] = conf.attempts

\* The loops between a POST of k and the record of its outcome.
Marking(k) == {w \in Deliverers : dpc[w] = "mark" /\ \E d \in item[w] : d[1] = k}

\* What a delivery loop may rely on: the attempts it listed were POSTs, and
\* before the record its own POST is one more.
DlvLocal(w) ==
    /\ \A d \in due[w] \union item[w] : Posted(d[1], d[2])
    /\ \A d, e \in item[w] : d = e
    /\ dpc[w] = "mark" => \A d \in item[w] : /\ Posted(d[1], d[2] + 1)
                                             /\ ok[w] => acked[d[1]]

DlvInv ==
    /\ OutcomeIsTrue
    /\ \A k \in Keys : Posted(k, attempts[k] + Cardinality(Marking(k)))
    /\ \A w \in Deliverers : DlvLocal(w)

LEMMA TypeInit == Init => TypeOK
BY WebhookConstants DEF Init, TypeOK, Keys

LEMMA TypeStep ==
    ASSUME TypeOK, [Next]_vars
    PROVE  TypeOK'
<1> USE WebhookConstants DEF TypeOK, log, subs, queue, fan, dlv, sent
<1>1. CASE CommitEvent
  BY <1>1 DEF CommitEvent
<1>2. ASSUME NEW s \in Subs, Operate(s) PROVE TypeOK'
  <2>1. CASE Disable(s)
    BY <2>1 DEF Disable, NothingOwed
  <2>2. CASE CancelAfterDisable(s)
    BY <2>2 DEF CancelAfterDisable, CancelPendingWebhookDeliveries
  <2>3. CASE CancelError(s)
    BY <2>3 DEF CancelError
  <2>4. CASE Enable(s)
    BY <2>4 DEF Enable
  <2>5. CASE Delete(s)
    BY <2>5 DEF Delete, NothingOwed
  <2>6. CASE Test(s)
    BY Zenon, <2>6 DEF Test, Keys
  <2> QED BY Zenon, <1>2, <2>1, <2>2, <2>3, <2>4, <2>5, <2>6 DEF Operate
<1>3. ASSUME NEW w \in FanOuts, FanOut(w) \/ FanError(w) \/ StopFanOut(w) PROVE TypeOK'
  <2>1. CASE StartFanOut(w)
    BY <2>1 DEF StartFanOut
  <2>2. CASE LoadCursor(w)
    BY <2>2 DEF LoadCursor
  <2>3. CASE FindNoCursor(w)
    BY <2>3 DEF FindNoCursor
  <2>4. CASE ReadHead(w)
    BY <2>4 DEF ReadHead
  <2>5. CASE SeedCursor(w)
    BY <2>5 DEF SeedCursor
  <2>6. CASE ReadBatch(w)
    BY <2>6 DEF ReadBatch
  <2>7. CASE ListSubs(w)
    BY <2>7 DEF ListSubs
  <2>8. CASE Enqueue(w)
    BY <2>8 DEF Enqueue
  <2>9. CASE SetCursor(w)
    BY <2>9 DEF SetCursor
  <2>10. CASE FanError(w)
    BY <2>10 DEF FanError
  <2>11. CASE StopFanOut(w)
    BY <2>11 DEF StopFanOut
  <2> QED BY Zenon, <1>3, <2>1, <2>2, <2>3, <2>4, <2>5, <2>6, <2>7, <2>8, <2>9, <2>10, <2>11 DEF FanOut
<1>4. ASSUME NEW w \in Deliverers, Deliver(w) \/ DeliverError(w) \/ StopDeliver(w) PROVE TypeOK'
  <2>1. CASE StartDeliver(w)
    BY <2>1 DEF StartDeliver
  <2>2. CASE ListDue(w)
    <3>1. PICK D \in SUBSET Keys : due' = [due EXCEPT ![w] = {<<k, attempts[k]>> : k \in D}]
      BY Zenon, <2>2 DEF ListDue
    <3>2. {<<k, attempts[k]>> : k \in D} \in SUBSET (Keys \X Nat)
      OBVIOUS
    <3> QED BY Zenon, <2>2, <3>1, <3>2 DEF ListDue
  <2>3. CASE BatchDone(w)
    BY <2>3 DEF BatchDone
  <2>4. CASE LoadSub(w)
    BY <2>4 DEF LoadSub
  <2>5. CASE CancelItem(w)
    <3>1. row' \in [Keys -> {"none", "pending", "delivered", "dead", "canceled"}]
      <4>1. PICK d \in item[w] : CancelPendingWebhookDeliveries(d[1][1])
        BY Zenon, <2>5 DEF CancelItem
      <4> QED BY Zenon, <4>1 DEF CancelPendingWebhookDeliveries
    <3> QED BY Zenon, <2>5, <3>1 DEF CancelItem
  <2>6. CASE Post(w)
    BY <2>6 DEF Post
  <2>7. CASE Mark(w)
    BY SMTT(30), <2>7 DEF Mark
  <2>8. CASE DeliverError(w)
    BY <2>8 DEF DeliverError
  <2>9. CASE StopDeliver(w)
    BY <2>9 DEF StopDeliver
  <2> QED BY Zenon, <1>4, <2>1, <2>2, <2>3, <2>4, <2>5, <2>6, <2>7, <2>8, <2>9 DEF Deliver
<1>5. CASE UNCHANGED vars
  BY Zenon, <1>5 DEF vars
<1> QED BY Zenon, <1>1, <1>2, <1>3, <1>4, <1>5 DEF Next

-----------------------------------------------------------------------------
(* The cursor.                                                             *)

LEMMA FanInit == Init /\ SafeSeeding => FanInv
BY DEF Init, FanInv, FanLocal, NoEventSkipped

\* A step that leaves the fan-outs alone, takes no row of an owed delivery away
\* and owes nothing more.
LEMMA FanKept ==
    ASSUME TypeOK, FanInv, UNCHANGED <<conf, head, cursor, fan>>, owed' \subseteq owed,
           \A k \in owed' : row[k] # "none" => row'[k] # "none",
           \A k \in owed' : sub'[k[1]] = "enabled"
    PROVE  FanInv'
<1>1. \A w \in FanOuts : FanLocal(w)'
  BY Zenon DEF FanInv, FanLocal, fan
<1> QED BY Zenon, <1>1 DEF FanInv, SafeSeeding, NoEventSkipped

\* A fan-out that moves leaves what the others rely on.
LEMMA FanOthers ==
    ASSUME TypeOK, FanInv, NEW w \in FanOuts, UNCHANGED <<conf, head, sub, owed>>,
           \A v \in FanOuts \ {w} : /\ fpc'[v] = fpc[v] /\ cur'[v] = cur[v]
                                    /\ last'[v] = last[v] /\ todo'[v] = todo[v],
           \A k \in Keys : row[k] # "none" => row'[k] # "none",
           cursor = {} => cursor' = {} \/ \A v \in FanOuts \ {w} : fpc[v] = "off",
           cursor # {} => cursor' # {},
           \A c \in cursor' : c <= head /\ \A k \in owed : k[2] <= c => row'[k] # "none",
           FanLocal(w)'
    PROVE  FanInv'
<1>1. ASSUME NEW v \in FanOuts \ {w} PROVE FanLocal(v)'
  BY ZenonT(60) DEF FanInv, FanLocal, TypeOK
<1>2. \A v \in FanOuts : FanLocal(v)'
  BY Zenon, <1>1
<1> QED BY Zenon, <1>2 DEF FanInv, SafeSeeding, NoEventSkipped

LEMMA FanStep ==
    ASSUME TypeOK, TypeOK', FanInv, [Next]_vars
    PROVE  FanInv'
<1> USE DEF log, subs, queue, fan, dlv, sent
<1>0. /\ fpc \in [FanOuts -> {"off", "init", "head", "seed", "sweep", "subs", "enqueue"}]
      /\ cur \in [FanOuts -> 0 .. MaxSeq] /\ last \in [FanOuts -> 0 .. MaxSeq]
      /\ todo \in [FanOuts -> SUBSET Keys] /\ head \in Nat /\ owed \in SUBSET Keys
  BY WebhookConstants DEF TypeOK
<1>1. CASE CommitEvent
  <2>1. \A k \in owed' : k \in owed \/ (k[2] = head + 1 /\ sub[k[1]] = "enabled" /\ cursor # {})
    BY Zenon, <1>1 DEF CommitEvent
  <2>2. \A n \in Nat : n <= head => n <= head + 1 /\ ~(head + 1 <= n)
    BY <1>0
  <2>3. cursor \subseteq Nat /\ \A w \in FanOuts : cur[w] \in Nat /\ last[w] \in Nat
    BY <1>0, WebhookConstants DEF TypeOK
  <2>4. ASSUME NEW w \in FanOuts PROVE FanLocal(w)'
    BY Zenon, <1>1, <2>1, <2>2, <2>3 DEF CommitEvent, FanInv, FanLocal
  <2> QED BY Zenon, <1>1, <2>1, <2>2, <2>3, <2>4 DEF CommitEvent, FanInv, SafeSeeding, NoEventSkipped
<1>2. ASSUME NEW s \in Subs, Operate(s) PROVE FanInv'
  <2>0. \A k \in owed : k[1] \in Subs /\ sub[k[1]] = "enabled"
    BY <1>0 DEF Keys, FanInv
  <2>a. ASSUME NothingOwed(s), NEW x, sub' = [sub EXCEPT ![s] = x]
        PROVE  owed' \subseteq owed /\ \A k \in owed' : k[1] # s /\ sub'[k[1]] = "enabled"
    BY Zenon, <2>0, <2>a DEF NothingOwed, TypeOK
  <2>1. CASE Disable(s)
    BY Zenon, <2>1, <2>a, FanKept DEF Disable
  <2>2. CASE CancelAfterDisable(s)
    BY Zenon, <1>0, <2>2, FanKept DEF CancelAfterDisable, CancelPendingWebhookDeliveries, FanInv
  <2>3. CASE CancelError(s)
    BY Zenon, <2>3, FanKept DEF CancelError, FanInv
  <2>4. CASE Enable(s)
    <3>1. \A k \in owed : sub'[k[1]] = "enabled"
      BY Zenon, <2>0, <2>4 DEF Enable, TypeOK
    <3> QED BY Zenon, <2>4, <3>1, FanKept DEF Enable
  <2>5. CASE Delete(s)
    <3>1. \A k \in owed' : row'[k] = row[k]
      BY Zenon, <1>0, <2>5, <2>a DEF Delete
    <3> QED BY Zenon, <2>5, <2>a, <3>1, FanKept DEF Delete
  <2>6. CASE Test(s)
    BY Zenon, <1>0, <2>6, FanKept DEF Test, FanInv, TypeOK
  <2> QED BY Zenon, <1>2, <2>1, <2>2, <2>3, <2>4, <2>5, <2>6 DEF Operate
<1>3. ASSUME NEW w \in FanOuts, FanOut(w) \/ FanError(w) \/ StopFanOut(w) PROVE FanInv'
  <2>0. /\ FanLocal(w) /\ SafeSeeding /\ NoEventSkipped /\ (conf.seeded => cursor # {})
        /\ (cursor = {} => owed = {}) /\ \A c \in cursor : c <= head
        /\ \A k \in owed : sub[k[1]] = "enabled"
    BY Zenon DEF FanInv
  <2>b. head <= head /\ 0 <= head
    BY <1>0
  <2>1. CASE StartFanOut(w)
    BY Zenon, <1>0, <2>0, <2>1, FanOthers DEF StartFanOut, FanLocal, NoEventSkipped
  <2>2. CASE LoadCursor(w)
    BY Zenon, <1>0, <2>0, <2>2, FanOthers DEF LoadCursor, FanLocal, NoEventSkipped
  <2>3. CASE FindNoCursor(w)
    BY Zenon, <1>0, <2>0, <2>3, FanOthers DEF FindNoCursor, FanLocal, NoEventSkipped
  <2>4. CASE ReadHead(w)
    <3>1. FanLocal(w)'
      BY Zenon, <1>0, <2>0, <2>4, <2>b DEF ReadHead, FanLocal
    <3> QED BY Zenon, <1>0, <2>0, <2>4, <3>1, FanOthers DEF ReadHead, NoEventSkipped
  <2>5. CASE SeedCursor(w)
    <3>1. cursor = {} /\ owed = {} /\ cur[w] <= head /\ w \in conf.fanouts
      BY Zenon, <2>0, <2>5 DEF SeedCursor, FanLocal
    <3>2. \A v \in FanOuts \ {w} : fpc[v] = "off"
      BY Zenon, <2>0, <3>1 DEF SafeSeeding, FanInv, FanLocal
    <3>3. FanLocal(w)'
      BY Zenon, <1>0, <2>0, <2>5, <3>1 DEF SeedCursor, FanLocal
    <3> QED BY Zenon, <1>0, <2>5, <3>1, <3>2, <3>3, FanOthers DEF SeedCursor
  <2>6. CASE ReadBatch(w)
    <3>1. last'[w] <= head
      BY <1>0, <2>6, WebhookConstants DEF ReadBatch, TypeOK
    <3>2. FanLocal(w)'
      BY Zenon, <1>0, <2>0, <2>6, <3>1 DEF ReadBatch, FanLocal
    <3> QED BY Zenon, <1>0, <2>0, <2>6, <3>2, FanOthers DEF ReadBatch, NoEventSkipped
  <2>7. CASE ListSubs(w)
    <3>1. \A k \in owed : k[2] <= cur[w] \/ cur[w] < k[2]
      BY <1>0 DEF Keys
    <3>2. \A k \in owed : k[2] <= last[w] => row[k] # "none" \/ k \in todo'[w]
      BY Zenon, <1>0, <2>0, <2>7, <3>1 DEF ListSubs, FanLocal
    <3>3. FanLocal(w)'
      BY Zenon, <1>0, <2>0, <2>7, <3>2 DEF ListSubs, FanLocal
    <3> QED BY Zenon, <1>0, <2>0, <2>7, <3>3, FanOthers DEF ListSubs, NoEventSkipped
  <2>8. CASE Enqueue(w)
    <3>1. PICK k \in todo[w] :
              \/ /\ fpc' = [fpc EXCEPT ![w] = "sweep"]
                 /\ todo' = [todo EXCEPT ![w] = {}]
                 /\ UNCHANGED row
              \/ /\ todo' = [todo EXCEPT ![w] = @ \ {k}]
                 /\ row' = [row EXCEPT ![k] = IF @ = "none" THEN "pending" ELSE @]
                 /\ UNCHANGED fpc
      BY Zenon, <2>8 DEF Enqueue
    <3>2. \A j \in Keys : row[j] # "none" => row'[j] # "none"
      BY <3>1 DEF TypeOK
    <3>3. UNCHANGED todo \/ fpc'[w] = "sweep" \/ (todo'[w] = todo[w] \ {k} /\ row'[k] # "none")
      BY <1>0, <3>1 DEF TypeOK
    <3>4. FanLocal(w)'
      BY Zenon, <1>0, <2>0, <2>8, <3>1, <3>2, <3>3 DEF Enqueue, FanLocal
    <3> QED BY Zenon, <1>0, <2>0, <2>8, <3>1, <3>2, <3>4, FanOthers DEF Enqueue, NoEventSkipped
  <2>9. CASE SetCursor(w)
    BY Zenon, <1>0, <2>0, <2>9, FanOthers DEF SetCursor, FanLocal, NoEventSkipped
  <2>10. CASE FanError(w)
    BY Zenon, <1>0, <2>0, <2>10, FanOthers DEF FanError, FanLocal, NoEventSkipped
  <2>11. CASE StopFanOut(w)
    <3>1. FanLocal(w)'
      BY Zenon, <1>0, <2>0, <2>b, <2>11 DEF StopFanOut, FanLocal
    <3> QED BY Zenon, <1>0, <2>0, <2>11, <3>1, FanOthers DEF StopFanOut, NoEventSkipped
  <2> QED BY Zenon, <1>3, <2>1, <2>2, <2>3, <2>4, <2>5, <2>6, <2>7, <2>8, <2>9, <2>10, <2>11 DEF FanOut
<1>4. ASSUME NEW w \in Deliverers, Deliver(w) \/ DeliverError(w) \/ StopDeliver(w) PROVE FanInv'
  <2>1. UNCHANGED <<conf, head, cursor, fan, owed, sub>>
    BY Zenon, <1>4 DEF Deliver, StartDeliver, ListDue, BatchDone, LoadSub, CancelItem, Post, Mark,
       DeliverError, StopDeliver
  <2>2. \A k \in Keys : row[k] # "none" => row'[k] # "none"
    <3>1. CASE CancelItem(w)
      BY Zenon, <3>1 DEF CancelItem, CancelPendingWebhookDeliveries
    <3>2. CASE Mark(w)
      BY <3>2 DEF Mark, TypeOK
    <3>3. CASE UNCHANGED row
      BY Zenon, <3>3
    <3> QED BY Zenon, <1>4, <3>1, <3>2, <3>3 DEF Deliver, StartDeliver, ListDue, BatchDone, LoadSub,
            Post, DeliverError, StopDeliver
  <2> QED BY Zenon, <1>0, <2>1, <2>2, FanKept DEF FanInv
<1>5. CASE UNCHANGED vars
  BY Zenon, <1>5, FanKept DEF vars, FanInv
<1> QED BY Zenon, <1>1, <1>2, <1>3, <1>4, <1>5 DEF Next

-----------------------------------------------------------------------------
(* The queue.                                                              *)

\* How sets of delivery loops are counted.
Counted ==
    /\ Cardinality({}) = 0
    /\ \A S \in SUBSET Deliverers :
          /\ Cardinality(S) \in Nat
          /\ \A T \in SUBSET S : Cardinality(T) <= Cardinality(S)
          /\ \A w \in Deliverers \ S : Cardinality(S \union {w}) = Cardinality(S) + 1
          /\ \A w \in S : Cardinality(S \ {w}) = Cardinality(S) - 1

LEMMA DlvInit ==
    ASSUME Counted, Init
    PROVE  DlvInv
<1>1. \A k \in Keys : Marking(k) = {}
  BY Zenon DEF Init, Marking
<1>2. Cardinality({}) = 0
  BY Zenon DEF Counted
<1>3. \A k \in Keys : Posted(k, attempts[k] + Cardinality(Marking(k)))
  <2>1. 0 + 0 <= 0
    OBVIOUS
  <2>2. \A k \in Keys : attempts[k] = 0 /\ posts[k] = 0 /\ Cardinality(Marking(k)) = 0
    BY Zenon, <1>1, <1>2 DEF Init
  <2> QED BY Zenon, <2>1, <2>2 DEF Posted
<1> QED BY Zenon, <1>3 DEF Init, DlvInv, DlvLocal, OutcomeIsTrue

\* POSTs are not unmade.
LEMMA PostedKept ==
    ASSUME TypeOK, TypeOK', conf' = conf, NEW k \in Keys, posts[k] <= posts'[k],
           NEW n \in Nat, Posted(k, n)
    PROVE  Posted(k, n)'
<1>1. posts[k] \in 0 .. conf.attempts /\ posts'[k] \in 0 .. conf.attempts /\ conf.attempts \in Nat
  BY Zenon, WebhookConstants DEF TypeOK
<1> QED BY <1>1 DEF Posted

LEMMA MarkingCounts ==
    ASSUME Counted, NEW k
    PROVE  /\ Cardinality(Marking(k)) \in Nat
           /\ \A S \in SUBSET Marking(k) :
                 Cardinality(S) \in Nat /\ Cardinality(S) <= Cardinality(Marking(k))
           /\ \A w \in Deliverers \ Marking(k) :
                 Cardinality(Marking(k) \union {w}) = Cardinality(Marking(k)) + 1
           /\ \A w \in Marking(k) : Cardinality(Marking(k) \ {w}) = Cardinality(Marking(k)) - 1
<1>1. Marking(k) \in SUBSET Deliverers
  BY Zenon DEF Marking
<1> QED BY Zenon, <1>1 DEF Counted

\* What the others do leaves a loop what it relies on.
LEMMA DlvOthers ==
    ASSUME TypeOK, TypeOK', DlvInv, conf' = conf, NEW v \in Deliverers,
           dpc'[v] = dpc[v], due'[v] = due[v], item'[v] = item[v], ok'[v] = ok[v],
           \A k \in Keys : posts[k] <= posts'[k] /\ (acked[k] => acked'[k])
    PROVE  DlvLocal(v)'
<1>1. DlvLocal(v) /\ due[v] \union item[v] \subseteq Keys \X Nat
  BY ZenonT(60) DEF DlvInv, TypeOK
<1>2. \A d \in due[v] \union item[v] : d[1] \in Keys /\ d[2] \in Nat /\ d[2] + 1 \in Nat
  BY <1>1
<1>3. \A d \in due[v] \union item[v], n \in Nat : Posted(d[1], n) => Posted(d[1], n)'
  BY Zenon, <1>2, PostedKept
<1> QED BY Zenon, <1>1, <1>2, <1>3 DEF DlvLocal

\* A step that neither POSTs nor records an outcome.
LEMMA DlvKept ==
    ASSUME Counted, TypeOK, TypeOK', DlvInv, UNCHANGED <<conf, attempts, posts, acked>>,
           \A k \in Keys : row'[k] \in {"delivered", "dead"} => row'[k] = row[k],
           \A v \in Deliverers :
              \/ dpc'[v] = dpc[v] /\ due'[v] = due[v] /\ item'[v] = item[v] /\ ok'[v] = ok[v]
              \/ dpc'[v] # "mark" /\ DlvLocal(v)'
    PROVE  DlvInv'
<1>1. \A k \in Keys : posts[k] <= posts'[k] /\ (acked[k] => acked'[k])
  BY DEF TypeOK
<1>2. \A v \in Deliverers : DlvLocal(v)'
  BY Zenon, <1>1, DlvOthers
<1>3. ASSUME NEW k \in Keys PROVE Posted(k, attempts[k] + Cardinality(Marking(k)))'
  <2>1. Marking(k)' \in SUBSET Marking(k)
    BY Zenon DEF Marking
  <2>2. /\ attempts[k] \in Nat /\ posts[k] \in Nat
        /\ Cardinality(Marking(k)) \in Nat /\ Cardinality(Marking(k)') \in Nat
        /\ Cardinality(Marking(k)') <= Cardinality(Marking(k))
    <3>1. attempts[k] \in Nat /\ posts[k] \in Nat
      BY WebhookConstants DEF TypeOK
    <3> QED BY Zenon, <2>1, <3>1, MarkingCounts
  <2>3. Posted(k, attempts[k] + Cardinality(Marking(k)))
    BY Zenon DEF DlvInv
  <2> QED BY <2>2, <2>3 DEF Posted
<1>4. OutcomeIsTrue'
  BY Zenon DEF DlvInv, OutcomeIsTrue
<1> QED BY Zenon, <1>2, <1>3, <1>4 DEF DlvInv

LEMMA DlvStep ==
    ASSUME Counted, TypeOK, TypeOK', DlvInv, [Next]_vars
    PROVE  DlvInv'
<1> USE DEF log, subs, queue, fan, dlv, sent
<1>1. CASE CommitEvent
  BY Zenon, <1>1, DlvKept DEF CommitEvent
<1>2. ASSUME NEW s \in Subs, Operate(s) PROVE DlvInv'
  <2>1. UNCHANGED <<conf, attempts, dlv, sent>>
    BY Zenon, <1>2 DEF Operate, Disable, CancelAfterDisable, CancelError, Enable, Delete, Test
  <2>2. \A k \in Keys : row'[k] \in {"delivered", "dead"} => row'[k] = row[k]
    <3>1. CASE Test(s)
      BY <3>1 DEF Test, TypeOK
    <3>2. CASE CancelAfterDisable(s)
      BY Zenon, <3>2 DEF CancelAfterDisable, CancelPendingWebhookDeliveries
    <3>3. CASE Delete(s)
      BY Zenon, <3>3 DEF Delete
    <3> QED BY ZenonT(60), <1>2, <3>1, <3>2, <3>3 DEF Operate, Disable, CancelError, Enable
  <2> QED BY Zenon, <2>1, <2>2, DlvKept
<1>3. ASSUME NEW w \in FanOuts, FanOut(w) \/ FanError(w) \/ StopFanOut(w) PROVE DlvInv'
  <2>1. UNCHANGED <<conf, attempts, dlv, sent>>
    BY Zenon, <1>3 DEF FanOut, StartFanOut, LoadCursor, FindNoCursor, ReadHead, SeedCursor,
       ReadBatch, ListSubs, Enqueue, SetCursor, FanError, StopFanOut
  <2>2. \A k \in Keys : row'[k] \in {"delivered", "dead"} => row'[k] = row[k]
    <3>1. CASE Enqueue(w)
      BY <3>1 DEF Enqueue, TypeOK
    <3> QED BY ZenonT(60), <1>3, <3>1 DEF FanOut, StartFanOut, LoadCursor, FindNoCursor, ReadHead,
            SeedCursor, ReadBatch, ListSubs, SetCursor, FanError, StopFanOut
  <2> QED BY Zenon, <2>1, <2>2, DlvKept
<1>4. ASSUME NEW w \in Deliverers, Deliver(w) \/ DeliverError(w) \/ StopDeliver(w) PROVE DlvInv'
  <2>0. /\ dpc \in [Deliverers -> {"off", "idle", "next", "cancel", "post", "mark"}]
        /\ due \in [Deliverers -> SUBSET (Keys \X Nat)]
        /\ item \in [Deliverers -> SUBSET (Keys \X Nat)]
        /\ ok \in [Deliverers -> BOOLEAN]
    BY Zenon DEF TypeOK
  <2>a. DlvLocal(w) /\ OutcomeIsTrue
    BY Zenon DEF DlvInv
  <2>1. CASE StartDeliver(w)
    BY Zenon, <2>0, <2>a, <2>1, DlvKept DEF StartDeliver, DlvLocal, Posted
  <2>2. CASE ListDue(w)
    <3>1. PICK D \in SUBSET Keys : due'[w] = {<<k, attempts[k]>> : k \in D}
      BY Zenon, <2>0, <2>2 DEF ListDue
    <3>2. \A k \in Keys : Posted(k, attempts[k])
      <4>1. ASSUME NEW k \in Keys PROVE Posted(k, attempts[k])
        <5>1. Posted(k, attempts[k] + Cardinality(Marking(k)))
          BY ZenonT(60) DEF DlvInv
        <5>2. attempts[k] \in Nat /\ posts[k] \in Nat /\ Cardinality(Marking(k)) \in Nat
          BY MarkingCounts, WebhookConstants DEF TypeOK
        <5> QED BY <5>1, <5>2 DEF Posted
      <4> QED BY Zenon, <4>1
    <3>3. \A d \in due'[w] : Posted(d[1], d[2])
      BY <3>1, <3>2
    <3> QED BY ZenonT(60), <2>0, <2>a, <2>2, <3>3, DlvKept DEF ListDue, DlvLocal, Posted
  <2>3. CASE BatchDone(w)
    BY Zenon, <2>0, <2>a, <2>3, DlvKept DEF BatchDone, DlvLocal, Posted
  <2>4. CASE LoadSub(w)
    <3>1. PICK d \in due[w] :
              /\ item' = [item EXCEPT ![w] = {d}]
              /\ due' = [due EXCEPT ![w] = @ \ {d}]
              /\ dpc' = [dpc EXCEPT ![w] = IF sub[d[1][1]] = "enabled" THEN "post" ELSE "cancel"]
      BY Zenon, <2>4 DEF LoadSub
    <3>2. /\ item'[w] = {d} /\ due'[w] = due[w] \ {d} /\ dpc'[w] # "mark"
          /\ \A v \in Deliverers \ {w} : dpc'[v] = dpc[v] /\ due'[v] = due[v] /\ item'[v] = item[v]
      BY <2>0, <3>1
    <3>3. DlvLocal(w)'
      BY ZenonT(60), <2>a, <2>4, <3>2 DEF LoadSub, DlvLocal, Posted
    <3> QED BY Zenon, <2>4, <3>2, <3>3, DlvKept DEF LoadSub
  <2>5. CASE CancelItem(w)
    <3>1. \A k \in Keys : row'[k] \in {"delivered", "dead"} => row'[k] = row[k]
      BY Zenon, <2>5 DEF CancelItem, CancelPendingWebhookDeliveries
    <3>2. DlvLocal(w)' /\ dpc'[w] # "mark"
      BY Zenon, <2>0, <2>a, <2>5 DEF CancelItem, DlvLocal, Posted
    <3> QED BY Zenon, <2>0, <2>5, <3>1, <3>2, DlvKept DEF CancelItem
  <2>6. CASE Post(w)
    <3>1. PICK d \in item[w], answer \in BOOLEAN :
              /\ posts' = [posts EXCEPT ![d[1]] = IF @ < conf.attempts THEN @ + 1 ELSE @]
              /\ acked' = [acked EXCEPT ![d[1]] = @ \/ answer]
              /\ ok' = [ok EXCEPT ![w] = answer]
      BY Zenon, <2>6 DEF Post
    <3>2. /\ d[1] \in Keys /\ d[2] \in Nat /\ conf.attempts \in Nat
          /\ \A k \in Keys : posts[k] \in Nat /\ posts[k] <= conf.attempts
      BY <2>0, WebhookConstants DEF TypeOK
    <3>3. \A k \in Keys : posts[k] <= posts'[k] /\ (acked[k] => acked'[k])
      <4>1. posts \in [Keys -> 0 .. conf.attempts] /\ acked \in [Keys -> BOOLEAN]
        BY Zenon DEF TypeOK
      <4>2. \A k \in Keys : posts[k] <= posts'[k]
        BY <3>1, <3>2, <4>1
      <4>3. \A k \in Keys : acked[k] => acked'[k]
        BY Zenon, <3>1, <4>1
      <4> QED BY Zenon, <4>2, <4>3
    <3>4. /\ posts'[d[1]] = posts[d[1]] + 1 \/ posts'[d[1]] = conf.attempts
          /\ posts'[d[1]] \in 0 .. conf.attempts
      <4>1. posts \in [Keys -> 0 .. conf.attempts]
        BY Zenon DEF TypeOK
      <4> QED BY <3>1, <3>2, <4>1
    <3>5. /\ UNCHANGED <<conf, row, attempts, due, item>>
          /\ dpc[w] = "post" /\ dpc' = [dpc EXCEPT ![w] = "mark"]
      BY Zenon, <2>6 DEF Post
    <3>6. \A v \in Deliverers \ {w} : DlvLocal(v)'
      BY Zenon, <2>0, <3>1, <3>3, <3>5, DlvOthers
    <3>7. DlvLocal(w)'
      <4>1. \A e \in due[w] \union item[w] : e[1] \in Keys /\ e[2] \in Nat
        BY <2>0
      <4>2. \A e \in due[w] \union item[w] : Posted(e[1], e[2])'
        BY Zenon, <2>a, <3>3, <3>5, <4>1, PostedKept DEF DlvLocal
      <4>3. Posted(d[1], d[2] + 1)'
        <5>1. Posted(d[1], d[2])
          BY Zenon, <2>a DEF DlvLocal
        <5>2. posts[d[1]] \in Nat /\ conf' = conf
          BY Zenon, <3>2, <3>5
        <5> QED BY <3>2, <3>4, <5>1, <5>2 DEF Posted
      <4>4. ok'[w] => acked'[d[1]]
        BY ZenonT(60), <2>0, <3>1, <3>2 DEF TypeOK
      <4> QED BY Zenon, <2>a, <3>5, <4>2, <4>3, <4>4 DEF DlvLocal
    <3>8. ASSUME NEW k \in Keys PROVE Posted(k, attempts[k] + Cardinality(Marking(k)))'
      <4>1. /\ Posted(k, attempts[k] + Cardinality(Marking(k)))
            /\ attempts[k] \in Nat /\ Cardinality(Marking(k)) \in Nat
        BY MarkingCounts DEF DlvInv, TypeOK
      <4>2. CASE k = d[1]
        <5>1. w \notin Marking(k) /\ Marking(k)' = Marking(k) \union {w}
          BY Zenon, <2>0, <3>5, <4>2 DEF Marking
        <5>2. Cardinality(Marking(k)') = Cardinality(Marking(k)) + 1
          BY Zenon, <5>1, MarkingCounts
        <5>3. posts[k] \in Nat /\ posts[k] <= posts'[k] /\ conf' = conf /\ attempts' = attempts
          BY Zenon, <3>2, <3>3, <3>5
        <5> QED BY <3>2, <3>4, <4>1, <4>2, <5>2, <5>3 DEF Posted
      <4>3. CASE k # d[1]
        <5>1. Marking(k)' = Marking(k)
          BY Zenon, <2>0, <2>a, <3>5, <4>3 DEF Marking, DlvLocal
        <5>2. attempts[k] + Cardinality(Marking(k)) \in Nat
          BY <4>1
        <5> QED BY Zenon, <3>3, <3>5, <4>1, <5>1, <5>2, PostedKept
      <4> QED BY Zenon, <4>2, <4>3
    <3>9. OutcomeIsTrue'
      <4>1. \A k \in Keys : posts[k] = conf.attempts => posts'[k] = conf.attempts
        BY <3>1, <3>2 DEF TypeOK
      <4> QED BY Zenon, <2>a, <3>3, <3>5, <4>1 DEF OutcomeIsTrue
    <3> QED BY Zenon, <3>6, <3>7, <3>8, <3>9 DEF DlvInv
  <2>7. CASE Mark(w)
    <3>1. PICK d \in item[w] :
              \/ UNCHANGED queue
              \/ /\ row' = [row EXCEPT ![d[1]] = IF ok[w] THEN "delivered"
                                                 ELSE IF d[2] + 1 >= conf.attempts THEN "dead"
                                                 ELSE @]
                 /\ attempts' = [attempts EXCEPT ![d[1]] = @ + 1]
      BY Zenon, <2>7 DEF Mark
    <3>2. /\ d[1] \in Keys /\ d[2] \in Nat /\ conf.attempts \in Nat
          /\ \A k \in Keys : posts[k] \in Nat /\ posts[k] <= conf.attempts
      BY <2>0, WebhookConstants DEF TypeOK
    <3>3. /\ UNCHANGED <<conf, posts, acked, due>>
          /\ dpc[w] = "mark" /\ dpc' = [dpc EXCEPT ![w] = "next"]
          /\ item' = [item EXCEPT ![w] = {}] /\ ok' = [ok EXCEPT ![w] = FALSE]
      BY Zenon, <2>7 DEF Mark
    <3>4. /\ Posted(d[1], d[2] + 1) /\ (ok[w] => acked[d[1]])
          /\ \A e \in item[w] : e = d
      BY Zenon, <2>a, <3>3 DEF DlvLocal
    <3>5. \A k \in Keys : posts[k] <= posts'[k] /\ (acked[k] => acked'[k])
      BY <3>2, <3>3
    <3>6. \A v \in Deliverers \ {w} : DlvLocal(v)'
      BY Zenon, <2>0, <3>3, <3>5, DlvOthers
    <3>7. DlvLocal(w)'
      BY Zenon, <2>0, <2>a, <3>3 DEF DlvLocal, Posted
    <3>8. ASSUME NEW k \in Keys PROVE Posted(k, attempts[k] + Cardinality(Marking(k)))'
      <4>1. /\ Posted(k, attempts[k] + Cardinality(Marking(k)))
            /\ attempts[k] \in Nat /\ Cardinality(Marking(k)) \in Nat
        BY MarkingCounts DEF DlvInv, TypeOK
      <4>2. CASE k = d[1]
        <5>1. w \in Marking(k) /\ Marking(k)' = Marking(k) \ {w}
          BY Zenon, <2>0, <3>3, <4>2 DEF Marking
        <5>2. Cardinality(Marking(k)') = Cardinality(Marking(k)) - 1
          BY Zenon, <5>1, MarkingCounts
        <5>3. attempts'[k] \in {attempts[k], attempts[k] + 1}
          BY <3>1, <4>2 DEF TypeOK
        <5> QED BY <3>2, <3>3, <4>1, <5>2, <5>3 DEF Posted
      <4>3. CASE k # d[1]
        <5>1. Marking(k)' = Marking(k)
          BY Zenon, <2>0, <3>3, <3>4, <4>3 DEF Marking
        <5>2. attempts'[k] = attempts[k]
          BY ZenonT(60), <3>1, <4>3 DEF TypeOK
        <5> QED BY Zenon, <3>3, <4>1, <5>1, <5>2 DEF Posted
      <4> QED BY Zenon, <4>2, <4>3
    <3>9. OutcomeIsTrue'
      <4>1. d[2] + 1 >= conf.attempts => posts[d[1]] = conf.attempts
        BY <3>2, <3>4 DEF Posted
      <4>2. \A k \in Keys : row'[k] \in {"delivered", "dead"} =>
               \/ row'[k] = row[k]
               \/ k = d[1] /\ row'[k] = "delivered" /\ ok[w]
               \/ k = d[1] /\ row'[k] = "dead" /\ d[2] + 1 >= conf.attempts
        BY <3>1 DEF TypeOK
      <4> QED BY Zenon, <2>a, <3>3, <3>4, <4>1, <4>2 DEF OutcomeIsTrue
    <3> QED BY Zenon, <3>6, <3>7, <3>8, <3>9 DEF DlvInv
  <2>8. CASE DeliverError(w)
    BY Zenon, <2>0, <2>a, <2>8, DlvKept DEF DeliverError, DlvLocal, Posted
  <2>9. CASE StopDeliver(w)
    BY Zenon, <2>0, <2>a, <2>9, DlvKept DEF StopDeliver, DlvLocal, Posted
  <2> QED BY Zenon, <1>4, <2>1, <2>2, <2>3, <2>4, <2>5, <2>6, <2>7, <2>8, <2>9 DEF Deliver
<1>5. CASE UNCHANGED vars
  BY Zenon, <1>5, DlvKept DEF vars
<1> QED BY Zenon, <1>1, <1>2, <1>3, <1>4, <1>5 DEF Next

-----------------------------------------------------------------------------
(* The theorems on the queue.                                              *)

F == INSTANCE FiniteSetTheorems

LEMMA Counting == Counted
<1>1. \A S : (F!IsFiniteSet(S) <=> IsFiniteSet(S)) /\ F!Cardinality(S) = Cardinality(S)
  BY DEF F!IsFiniteSet, IsFiniteSet, F!Cardinality, Cardinality
<1>2. Cardinality({}) = 0
  BY Zenon, <1>1, F!FS_EmptySet
<1>3. \A S \in SUBSET Deliverers : F!IsFiniteSet(S)
  BY Zenon, <1>1, WebhookConstants, F!FS_Subset
<1>4. \A S \in SUBSET Deliverers : Cardinality(S) \in Nat
  BY Zenon, <1>1, <1>3, F!FS_CardinalityType
<1>5. \A S \in SUBSET Deliverers : \A T \in SUBSET S : Cardinality(T) <= Cardinality(S)
  BY Zenon, <1>1, <1>3, F!FS_Subset
<1>6. \A S \in SUBSET Deliverers : \A w \in Deliverers \ S :
         Cardinality(S \union {w}) = Cardinality(S) + 1
  BY Zenon, <1>1, <1>3, F!FS_AddElement
<1>7. \A S \in SUBSET Deliverers : \A w \in S : Cardinality(S \ {w}) = Cardinality(S) - 1
  BY Zenon, <1>1, <1>3, F!FS_RemoveElement
<1> QED BY Zenon, <1>2, <1>4, <1>5, <1>6, <1>7 DEF Counted

LEMMA TypeInvariant == Spec => []TypeOK
<1>1. TypeOK /\ [Next]_vars => TypeOK'
  BY Zenon, TypeStep
<1> QED BY <1>1, TypeInit, PTL DEF Spec

\* The queue tells the truth for any number of workers that overlap: what is
\* marked delivered was acknowledged, what is dead was POSTed as often as the
\* budget allows (attemptDelivery, and the MarkWebhookDelivery updates that name
\* the id alone).
THEOREM QueueTellsTheTruth == Spec => []OutcomeIsTrue
<1>1. DlvInv /\ TypeOK /\ TypeOK' /\ [Next]_vars => DlvInv'
  BY Zenon, DlvStep, Counting
<1>2. DlvInv => OutcomeIsTrue
  BY Zenon DEF DlvInv
<1>3. Init => DlvInv
  BY Zenon, DlvInit, Counting
<1> QED BY <1>1, <1>2, <1>3, TypeInvariant, PTL DEF Spec

\* The durable cursor passes no owed event without a delivery of it on the queue,
\* however many fan-outs overlap, fail and restart, unless two of them run the
\* three statements of initCursor at the very first start (fanOutOnce).
THEOREM CursorSkipsNothing == Spec /\ SafeSeeding => []NoEventSkipped
<1>1. FanInv /\ TypeOK /\ TypeOK' /\ [Next]_vars => FanInv'
  BY Zenon, FanStep
<1>2. FanInv => NoEventSkipped
  BY Zenon DEF FanInv
<1> QED BY <1>1, <1>2, FanInit, TypeInvariant, PTL DEF Spec
=============================================================================
