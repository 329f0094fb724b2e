# A TLA+ model of secsy-pki

secsy-pki is a certificate authority server written in Go (`src/server`). One or
more replicas share a PostgreSQL database (or one replica uses SQLite) and sign
with keys held in an HSM. The replicas do not talk to each other: everything that
keeps them in step is in the database. That is where its hard behaviours are,
and what this project models:

- almost every handler is a sequence of separate SQL statements, so requests on
  one or on several replicas interleave between any two of them;
- status columns move by compare-and-set in some places (approvals, claims of
  pre-authorizations, versions of a secret) and by unconditional `UPDATE` after a
  stale read in others (ACME orders, webhook deliveries, CA lineages);
- the clock is read before the transaction whose row it stamps;
- background jobs run on the replica that holds a PostgreSQL advisory lock, and
  the lock may be lost while they run;
- durable cursors give at-least-once processing across crashes and handovers;
- answers are cached per replica (OCSP), and events are pushed only by the replica
  that appended them, so what another replica does is seen late or not at all;
- an external device (the HSM) forgets what it was told is stored.


## Parts

Every package is listed in `PROJECT.json` under `components`, with its status.

| Part | State | Operations | What must hold | Module |
| --- | --- | --- | --- | --- |
| Approval engine (`approval`, `database/approval.go`) | request rows, votes | Guard, Approve, Reject, sweep | an approved operation runs at most once, after enough sign-offs of others; denial is final | `Approval` |
| Gated issuance (`issueapproval`) | the parked request, its result | Complete, claim, issue, record | a certificate is delivered only if it was issued under the request | `Approval` |
| Leader election (`leader`) | lock session, leadership, job generation | Run, Register, stepDown | jobs of one term only; no overlap of replicas without a lost session; failover | `LeaderElection` |
| Webhooks (`webhook`) | cursor, subscriptions, delivery queue | fan-out, delivery, enable, disable, delete, test | no owed event is skipped; outcomes are true; everything is settled | `WebhookDelivery` |
| ACME (`acme`) | orders, authorizations, challenges | newOrder, newAuthz, challenge, finalize, STAR, e-mail poller | certified names were validated for the order; claims are exclusive | `AcmeOrder` |
| Revocation records (`database/issue.go`, `hold.go`, `bulkrevoke.go`) | revocations, release markers, inventory | revoke, suspend, release, bulk | the three tables agree | `Revocation` |
| CRLs (`ca/crl.go`) | number counter, stored base and delta | generate, store | base plus delta miss nothing that was recorded | `Crl` |
| OCSP (`ca/ocsp.go`, `ocspcache.go`, `presign.go`) | cache per replica, batches | respond, presign, invalidate, expire | a stale answer has a cause and an end | `Ocsp` |
| CA rotation (`ca/rotation.go`) | CA rows and their links, keys, leaves | rotate, auto-rotate, retire, issue, renew | the lineage can be walked; the bundle covers the overlap; retiring spares leaves | `Rotation` |
| Stored secrets (`secret`, `database/secret.go`) | KEK lineage, registry row, history | store, put, roll back, re-wrap, rotate, retire | no put is lost, values and their keys are kept | `StoredSecrets` |
| Event log (`audit`, `database/event_log.go`) | hash chain | append | the chain verifies | `AuditLog` |
| SIEM export, anchors (`siem`, `anchor`) | export cursor, anchors | export, anchor | nothing is lost, anchors match the log | `AuditExport` |
| Event stream (`eventstream`, `grpcapi`) | subscriber ring, client cursor | subscribe, replay, publish, drain | no repeat; what is missed is reported | `EventStream` |
| HSM audit (`hsmaudit`) | device log, lease, file, store, tail | collect, provision | nothing is acknowledged that is not kept | `HsmAudit` |

How they interact: the leader runs the background jobs (approval sweep, webhook
worker, presigner, STAR renewer, e-mail poller, exporter, anchor job, monitor).
Handlers of every replica run at any time. ACME, the REST API, CMP and the command
line all write the revocation records, from which CRLs and OCSP answers are made
(`Crl` and `Ocsp` extend `Revocation`). The event log feeds the SIEM exporter,
the anchor job and the stream (`AuditExport` and `EventStream` extend `AuditLog`),
and the webhooks. The jobs are composed with the elector by what it allows: its
lock does not exclude two leaders when a session is lost (`OverlapNeedsLostSession`
is all that holds), so every module with a job has two workers that overlap.

## Modules

Common to all: a request, job or command in progress is a process with a program
counter and its local copies of what it has read. A SQL statement or a
transaction is one action. A process may fail or die between any two of them.
Where a configuration says `Scenarios <- MCScenarios`, the initial state chooses
a scenario (who does what, and the bounds), so that one run covers several
settings.

### Approval, ApprovalGate and their proofs

`Approval` is the engine of `approval/engine.go` and the completion of parked
issuance requests in `issueapproval`. `Procs` are calls in progress, on any
replica: `GuardFind`, `GuardRetire`, `GuardConsume`, `GuardCreate`;
`ApproveLoad`, `ApproveVote`, `ApproveCount`, `ApproveMark`; `RejectLoad`,
`RejectVeto`, `RejectMark`; `SweepList`, `SweepRow`; `CompleteGet`, `ClaimLoad`,
`Claim`, `IssueCertificate`, `RecordResult`. `Abort` ends a call anywhere.
Reading the clock and the query after it are one step. Audit records are best
effort in the code and are left out, apart from the terminal hook (`denied`).

`ApprovalGate` says what the gate promises without statements, callers or clocks:
submit, sign, authorize, consume, perform once, or refuse. `ImplementsGate` is its
specification under the mapping in `Approval` (status to phase, votes to
signatures, `ran` to `done`).

### LeaderElection, LeaderJobsProofs

`leader/leader.go` and `leader/lock.go`: one `Run` loop per replica, the advisory
lock held by a session, job goroutines by term. The lock's server side is
external: a backend may die, a connection may break unnoticed, an answer may time
out after the lock was granted, and PostgreSQL reaps the session of a dead client
later (`SessionReaped`). Its specification is `ElectionSpec`, so that a module can
extend it together with that of a job.

### WebhookDelivery, LeaderJobsProofs

`webhook/webhook.go`: the fan-out loop (cursor seeding, reading a batch of the
event log, listing subscriptions, inserting deliveries, moving the cursor) and the
delivery loop (listing due rows, loading the subscription, POST, marking), any
number of workers at a time. Operators disable, enable, delete and test
subscriptions; disabling and cancelling are two statements. Sequence 0 stands for
a test delivery. Back-off times are left out: a pending delivery is always due.

### AcmeOrder, AcmeProofs

`acme/order.go`, `issue.go`, `preauth.go`, `star.go`, `email.go`. `Refresh*` and
`StoreStatus` are `refreshOrderStatus`; `Match`, `MarkProcessing`, `Issue`,
`Record` are `handleFinalize`; `Attempt`, `CheckPasses`, `CheckFails`,
`StoreAuthz` a challenge; `MailReply` and `SendMail` the e-mail challenge;
`ListDue`, `Reissue`, `RecordRenewal` the STAR renewer. The mail poller's list and
load, and the two reads of a challenge and its authorization, are merged. A write
whose error the code ignores (`_ = s.db.Update...`) may be dropped and the handler
goes on (`Written`, in the scenarios with `drops`). `handleNewOrder` inserts the
order and its authorizations one by one, and the account's list of orders names the
order from the first insert on, so requests meet half-built orders; `hasty` records
the orders that a refresh found ready in that state. Wildcards, CSR rejection and
the `replaces` linkage are left out.

### Revocation, Crl, Ocsp, RevocationProofs

`Revocation` is shared: the three tables, the operations and their time stamps. An
operator stamps an operation (`Begin`) and commits it later (`Commit`); a bulk
revocation commits in batches with one stamp. A transaction is one step from the
statement that locks the revocation row on. `RevokeCertificate` locks none when its
`INSERT` meets a row, so its `UPDATE` statements are then steps of their own
(`Statement`); if a release deletes the row between two of them, the inventory is
written and the revocation is not (`RevokeNothingRecorded`, recorded in `lost`). The
plan of a bulk revocation and its stamp are one step, since re-planning is what a
refusal leads to. No two readings of the clock are equal, and replicas are taken to
share it: clock skew between them is not modelled. Expiry marking and retention of
inventory rows are left out.

`Crl` adds generators of base and delta CRLs for one scope. Partitions have their
own counters and rows, so one scope stands for all. Any stored CRL may be found
stale. A CRL carries, as history, what was recorded when it was listed.

`Ocsp` adds one replica's cache (several if `Replicas` has several), its
responders and its presigner. Changes through other replicas, ACME, CMP or the
command line are the changes with `Elsewhere`: they invalidate nothing here.
`missed` records which entries a change cannot reach or whose lookup it overtook.

### Rotation (proofs: KeyRotationProofs)

`ca/rotation.go` with the issuance and the renewal that follow its links. CA rows
are numbered in the order of their creation, and CA 1 is the intermediate the
lineage starts from. `Walk` and `Peek` are the two reads per link of
`ActiveIssuerID`; `LoadOld`, `CheckLabel`, `FindKey`, `GenerateKey`, `PersistCA`
and `Link` are `RotateIntermediate`, begun by an operator (`StartRotate`) or by
the monitor's scan (`AutoRotateDue`); `StartRetire`, `LoadPredecessor`,
`CountOutstanding`, `RevokeUnderParent` and `SetRetired` are `RetireIntermediate`;
`StartIssue` and `StartRenew` are the two ways to a leaf, of which only the first
follows the lineage. `rolloverLineage` is the bundle that is published. The
`retire_after` column is a hint for the operator and left out.

### StoredSecrets (proofs: KeyRotationProofs)

`secret/rotation.go` over `database/secret.go`: one KEK family, and one secret name,
whose registry row and version history are the state. `Store*`, `Put*`,
`RollbackGetVersion` and `DeleteStoredSecret` are the writers; `RewrapRing`,
`ListIds`, `ListRefs`, `RewrapGet`, `UpdateEnvelope` and `RewrapDone` the re-wrap
batch; `Rotate*` and `Retire*` the lineage. `RotateKEK` looks for the key of the next
version and generates it in two calls (`RotateFindKey`, `RotateGenerateKey`), and
either may fail. The key provider is modelled by its contract, that generating a
label that is taken fails (`keyprovider/keyprovider.go:323`); how a provider keeps it
is not. An envelope is the value it opens to and the KEK version that wraps it.
`written`, `puts`, `stale` and `forced` are history.

### AuditLog, AuditExport, EventStream and their proofs

`AuditLog` is `AppendEvent`: the last row is read and the next inserted under a
mutex of the process, so two replicas meet at the primary key only, and the hook
runs before the mutex is released. A `COMMIT` may also take effect and report an
error: the row is there, `AppendEvent` returns the error and no hook runs
(`ReturnError`; such rows are marked `quiet`). A hash is an injective record of
what it covers.

`AuditExport` adds `runWorker` of `siem/exporter.go` (list, deliver, move the
cursor) and `AnchorOnce` of `anchor/anchor.go` (head, latest anchor, time-stamp,
insert, and the event that records it, which is itself the next event). Anchors are
kept in the order of their insertion: the table allows two of the same sequence
number, which two jobs that overlap may store.

`EventStream` adds the `Publisher`, the ring of a subscriber that drops its oldest
event, and `StreamEvents`, which subscribes first, replays the log from the
client's cursor and then drains the ring. One client, which resumes where it was.

### HsmAudit, HsmAuditProofs

`hsmaudit` over `database/hsm_audit.go`: a cycle takes the lease, loads the tail,
fetches what the device holds, verifies that it continues the tail, appends it to
the file, stores it, moves the tail and only then acknowledges it to the device.
An entry is its epoch (how many factory resets came before) and its index; its
number is the index in a counter that wraps at `Modulus`. `Provision` and device
resets are actions. A lease may expire under its holder in the scenarios with
`steal`, and two operators may provision one device at a time in those with
`rivals`: `Provision` takes no lease. A device whose ring is full counts the boots
and authentications it could not log (`Overflow`, `unlogged`), and may log a command
that this build does not know (`odd`); `VerifySegment` refuses both.

`ConsumeLog` opens a session of its own and names an entry by its number, so it may
reach a device that was reset since the fetch and free entries nobody fetched
(`astray`). A write to the file may be cut short anywhere in a line, and what the
next write appends continues that line (`Torn`, `Malformed`); `unflushed` records
that a write failed.

## Runs

| Run | Configuration | Bounds and why | States |
| --- | --- | --- | --- |
| `approval` | `MCApproval` | 3 users: a maker and two checkers, thresholds 1 and 2; 2 calls race on 1 request; the clock passes the window | 455,735 |
| `leader` | `MCLeaderElection` | 2 replicas, 2 jobs (registered before and after winning), 3 disturbances: lose the lock, recover, lose it again | 179,664 |
| `webhook` | `MCWebhook` | 2 fan-out loops over 2 events, or 2 delivery loops with 1 event and 2 attempts, so that both may count the same attempt; 1 error or death | 175,420 |
| `acme` | `MCAcme` | 2 requests on 1 order for 2 names, on 1 STAR order with 2 certificates, on 1 with an expiry and an end-date, on 2 orders with 1 pre-authorized e-mail address, and on 1 order while writes are dropped | 4,145,523 |
| `crl` | `MCCrl` | 2 operators, 2 generators, 4 readings of the clock (hold, release, revoke, base), 2 numbers (a base and its delta) | @CRL@ |
| `ocsp` | `MCOcsp` | 1 responder, 1 presigner, 3 status changes | @OCSP@ |
| `rotation` | `MCRotation` | an operator and the monitor rotate beside a retirement; a rotation and a retirement beside a client with 2 leaves, or with 1 leaf, its hold and an error; 3 CAs (two rotations) | 2,141,757 |
| `secrets` | `MCSecrets` | 2 requests, 2 values, 3 KEK versions, 3 secret versions of which 2 are kept, 2 secrets of the same name | 1,899,618 |
| `secrets_rewrap` | `MCSecretsRewrap` | as `secrets`, 2 KEK versions | (violation) |
| `hsm_audit` | `MCHsmAudit` | server and command line with a respected lease and 1 error, with a stolen one, and with two provisionings at a time; the server alone with an unknown command and 1 error, and with 2 errors; a device ring of 2, 3 entries, 1 reset, a counter of 16 | 297,057 |
| `audit_export` | `MCAuditExport` | 2 replicas append 3 events; exporter and anchor job on one or on both; batches of 2, 2 errors or deaths | 118,821 |
| `event_stream` | `MCEventStream` | appends of one or of two replicas, 4 events, a ring of 1 and replay batches of 1, so that the ring drops and the replay loops; the stream ends once and is resumed | 1,002,122 |

Deadlock is checked for the approval engine and the elector. In the others the
bounded resources (events, certificates, clock readings, versions) run out and
nothing is left to do. Every module has a type invariant, `TypeOK` (`OcspTypeOK`
and `ElectionTypeOK` where a module is extended together with another). It holds
on these instances, is part of most of the inductive invariants below, and is not
listed as a property of a run.

What the passing runs show:

- **approval**: `AtMostOnce`, `FourEyes`, `DenialIsFinal`,
  `DeliveredWasIssued` and the refinement `ImplementsGate`. The compare-and-set on
  the status carries them: the status and the count that a call read may be stale
  when it writes.
- **leader**: `OneGeneration`, `OverlapNeedsLostSession`, `LockOutlivesJobs`;
  `Failover` and `DeposedLeaderStops` under fairness.
- **webhook**: the cursor does not pass an owed event (`NoEventSkipped`), a
  delivery marked delivered or dead is so (`OutcomeIsTrue`), and every owed event
  is settled (`OwedIsSettled`). With 3 events it holds as well (746,303 states).
- **acme**: every certified name was validated in its order
  (`CertifiedNamesWereValidated`), also when listings fail, writes are dropped and
  authorizations expire or change between the check and the signature, with one
  exception: orders that a refresh found ready while `newOrder` was still adding to
  them. See below. A valid order has its own certificate; a cancelled one no renewal
  deadline; a pre-authorization belongs to one order.
- **crl**: `InventoryIsBacked`: what the inventory calls held or revoked has a
  revocation row, unless a revocation raced a release (`lost`).
  `PairMissesOnlyInFlight`: because the time of a base is read before its entries,
  a base and its delta together miss a revocation only if it was stamped before the
  cut and committed after the listing, and a release only if that or the same race
  happened to it. With one serial a bulk revocation has one batch; the proofs cover
  any number.
- **ocsp**: a cached answer is wrong only for a reason (`WrongOnlyIfMissed`), and
  not for ever (`CacheSettles`). Expired certificates are excepted.
- **rotation**: `LineageIsSound` (links lead forward and back, a CA is active
  exactly while nothing succeeds it, no active CA is revoked), `BundleCoversLeaf`
  while no link has been replaced, and `RetirementSparesLeaves`, for the leaves
  that were recorded when the retirement began.
- **secrets**: the KEK lineage is linear (`OneActiveVersion`), the history follows
  the registry row (`HistoryMirrorsRow`), the compare-and-swap on the version loses
  no put (`NoPutLost`). `FreshWritesAreSafe` says what the re-wrap and the
  retirement rest on: values and their keys are kept as long as nobody stores an
  envelope under a version that was superseded since.
- **hsm_audit**: nothing is acknowledged to the device that the store and a file do
  not keep (`AcknowledgedIsKept`), but for the entries of an acknowledgement that
  went astray; of a file this is said when it has no torn line and has not outlived a
  reset, and while the entry counter is in its first half (see the claims below). An
  undisturbed device (`Disturbed` names what disturbs one) raises no false alarm
  (`NoFalseAlarm`) and has every entry collected (`EntriesAreCollected`), and the
  file of a process that restarts and whose writes did not fail is one chain
  (`FileIsOneChain`).
- **audit_export**: `ChainVerifies`, `CursorIsCovered` (the export cursor passes
  no event that was not delivered), `AnchorsAreSound` (anchors match the log, and
  an idle log is not anchored again although the anchor's own event extends it),
  and `EventsAreExportedAndAnchored`.
- **event_stream**: `NoRepeat`, `MissedIsReported` (with one replica, what a client
  misses it was told of, events whose `COMMIT` reported an error aside), and
  `QueuedIsDrained` (no wake-up is lost). `MissedIsReported` compares the number of
  events missed with the number of drops reported over the life of the client, so
  it bounds what is missed from above only: a drop of an event that the replay sends
  as well is reported although nothing was missed, and such a report may cover for
  another event. `QueuedIsDrained` is about a client that reads, that is, it takes
  `stream.Send` to return.

## Fairness

- Elector: `Run` keeps stepping (a goroutine on a timer), jobs return once their
  context is cancelled (which `stepDown` waits for without a timeout), and
  PostgreSQL eventually notices a dead client. Faults are bounded, not fair.
- Webhooks: a worker keeps running its loops, and one that died is started again
  (a leader is elected again). Errors are bounded; the endpoint may refuse for
  ever, which ends in dead-lettering.
- OCSP: a request or batch that was begun ends, since the calls have timeouts or
  fail, and a cached entry expires, since every entry has an expiry time. Nobody
  is required to ask, revoke or presign.
- Exporter and anchor job: an append that was begun returns, a leader starts the
  jobs again, and their tickers fire. Nobody is required to append.
- Stream: the handler and an append take their next step. For the handler this
  assumes that `stream.Send` returns: gRPC blocks it while the client's flow-control
  window is full, and a client that is gone ends the stream (`Disconnect`). Nobody
  is required to connect or to append.
- HSM collector: each process takes the next step of its cycle and begins another
  one, since `Run` has a timer beside its wake-ups. Nobody is required to
  provision, and the device is not required to log.

## Proofs

Eight modules of proofs, for any values of the constants. Each rests on the named
assumptions of the modules it is about, and on nothing else. Beside the types of
the bounds they ask that the sets of replicas (`AuditLogConstants`), of delivery
loops (`WebhookConstants`) and of HSM processes (`HsmAuditConstants`) are finite,
where a proof counts.

**ApprovalProofs** (`ApprovalConstants`): `TypeCorrect`, `OperationAtMostOnce`,
`FourEyesHold`, `DenialHolds`, `DeliveryHolds`, `TerminalIsFinal`
and `EngineImplementsGate`. None of the properties is inductive: a call's right to
write rests on what it read earlier. The invariant `IInv` has three parts beside
the types. `Rows` relates the columns of a request (a consumed one has enough
sign-offs and has not been denied, and so on). `Locals` says what each program
counter may rely on (a call at `approve` has seen enough votes, and votes only
grow). `Owner` says that at most one call holds a consumed request that has not
been performed. `GrowsStep` shows that rows only grow under every action, so that
what one call relies on survives the steps of the others (`LocalKept`). The
refinement maps every statement to one step of the gate or to none.

**LeaderJobsProofs** (`LeaderConstants`, `WebhookConstants`): of the elector,
`ElectionTypes`, `GenerationsNeverOverlap`, `OverlapOnlyAfterLoss`,
`FollowersHoldNoLock` and `LockGivenUpAfterJobs`. The invariant ties the program
counter of `Run` to leadership, running jobs and the holder of the lock. Since two
terms may overlap once a session is lost, the webhook worker is proved for any
number of loops that overlap: `QueueTellsTheTruth` and `CursorSkipsNothing`. A
delivery is dead when the attempts that were read before the POST say so, and
several loops may have read the same count. So the invariant of the delivery loops
(`DlvInv`) counts: the attempts of a row and the loops that have posted it and not
yet recorded the outcome are covered by the POSTs that were made. That of the
fan-out loops (`FanInv`) says that everything owed up to the position a loop is
about to store is on the queue. The second theorem has the hypothesis
`SafeSeeding`: the cursor was there before, or a single worker seeds it. Without
it the property fails (`MCWebhookLimits`).

**RevocationProofs** (`MaxReadsAssumption`): of the records and the CRLs,
`RecordsBackTheInventory` and `PairMissesNothingElse`, with `RevokeCertificate`
statement by statement and any number of revocations that race releases. The
invariant says what has happened `Since` a base was listed: whatever was not in
flight then and has changed is stamped after the cut, because the cut is read before
the listing and no two readings are equal. A generator that has stored its base or a
delta may be overtaken by others (`Generating`), so a pair is recognised by the
number of the base, which the counter gives once. Of the OCSP responder,
`StaleAnswersHaveACause`. The invariant says that what a responder has looked up
(`Answered`) and a presigner has collected (`Collected`) is still what the records
say, unless a change has overtaken it.

**KeyRotationProofs** (`BoundsAssumption`, `SecretConstants`): of the rollover of
an intermediate CA, `LineageStaysSound` and `RetirementIsSafe`. `Link` and
`SetRetired` write without looking at the row again, so the invariant says what
their callers have seen and what cannot change since: references exist
(`RefsExist`), a successor that was persisted is linked by the rotation that made
it only (`Linking`), and what a retirement has counted lies before it (`Founded`).
Of the KEK versions and the secrets under them, `LineageStaysLinear`,
`HistoryFollowsTheRow`, `PutsAreVersions` and `FreshRegistriesAreSafe`.
`UpdateEnvelope` compares KEK versions only, and `RetireSet` looks at nothing, so
the invariant carries along what every request has read (`Knows`): a ring is a
lineage of the past, an item of a batch is the row or an older version, what was
read under a KEK version is still what is there under it, and nothing is wrapped
under a version that was counted as unused. The last two hold only as long as
nothing was stored under a superseded version. `Grows` is what every step does to
the tables, and `KnowsKept` shows that it disturbs no other request.

**AcmeProofs** (`AcmeAssumption`): `AcmeTypes`, `ValidOrdersServe`,
`CanceledOrdersRest`, `ClaimsAreFinal` and `NamesWereValidated`, for any requests,
orders, names, authorizations and certificates. A request goes through up to a
dozen statements and most of its locals are not meant to be looked at in most of
them, so the proofs rest on one table (`Takes`, `RequestStep`): what each step
does to the request that takes it, and that it leaves every other request alone.
`ValidOrdersServe` needs only that a serial about to be stored is one that was
issued for this order. `NamesWereValidated` is the longest: `handleFinalize`
takes its decision, lists the names and signs in separate steps, from an order that
polls and challenges go on changing, while writes may be dropped. `Vetted` says that
an order stored as ready, and one that a request is about to store as ready or to
sign for (`Own`), has been found so with reason (`Judged`): its authorizations
are complete and each has passed a check (`Fit`), or the order is in `hasty`. The
names that are taken for its own are then proved ones (`Vouched`). A proof of control
is never taken back, and once `newOrder` is done with an order it gets no more
authorizations, so what was `Fit` stays so. The theorem has no hypothesis beside
`AcmeAssumption`: the exception for `hasty` orders is part of the property.

**AuditExportProofs** (`AuditLogConstants`, `AuditExportConstants`): `ChainIsOne`,
`ExportLosesNothing` and `AnchorsHold`. The log only grows, so a position and a
hash that were read once are right for ever (`Holds`, `Grows`); the primary key
makes the insert of the slower of two appends fail, and a `COMMIT` that reports an
error leaves a row like any other. What an exporter has delivered
and the cursor it is about to write are tied by the invariant, which lets two
exporters overlap. `AnchorsHold` also bounds the number of anchors of a single
anchor job by the number of events that are not its own records: between two
anchors there is such an event, since the record of an anchor alone is not
anchored (`AloneInv`).

**EventStreamProofs** (`AuditLogConstants`, `EventStreamConstants`):
`EventStreamTypes`, `NothingIsSentTwice` and `DropsAreReported`. The replay and
the ring overlap, and only the watermark `lastSeq` keeps an event from being sent
twice. `RepeatInv` says that it is ahead of everything the client was sent and
resumes from (`Ahead`), with any number of replicas. `MissedIsReported` takes
more, since a drop is counted when the event leaves the ring and the watermark
passes the event long before or after that. With `Home` as the only writer
(`Solo`), an event that was published and that the client was not sent is in the
ring, still to be replayed or sent, or in one of two sets: drops the handler has
already taken over as its `lag`, and drops the ring still counts. Events whose
`COMMIT` reported an error are owed to nobody (`Owed`). `Report` says
that each set is no larger than its counter and that what is queued comes before
what was dropped after it. A lag frame moves the first set to the client's
account. That the property is about one replica is its own condition: with two it
fails (`NoSilentGap`).

**HsmAuditProofs** (`HsmAuditConstants`): `HsmAuditTypes`, `AcknowledgedIsStored`,
`AcknowledgedEntriesAreKept`, `RespectedLeaseRaisesNoAlarm` and
`SoleWriterKeepsOneChain`, for any processes, failures, crashes and resets, writes
that are cut short, acknowledgements that go astray, unlogged boots and unknown
commands. `KeepInv` says what a job may rely on between fetching a segment and
acknowledging it (`Relies`): what it is about to move the tail over or to acknowledge
is stored and written, although another process may have stolen its lease. The file
half of `AcknowledgedIsKept` has the hypothesis `HalfRange` (the counter has not gone
half round), without which it fails (`MCHsmAuditLimits`); the store half
(`AcknowledgedIsStored`) has none. `QuietInv` is about a device that nothing has
disturbed and a lease that is respected (`Respected`): one process at a time is
between the lease and its release (`Cautious`), and the tail lies between what was
acknowledged and the head (`Between`), so that the next segment continues it even
where the number wraps. For the file of a process that writes alone, `ChainInv` says
that the file is what the position remembered in memory says it is, and `LoneInv`
that this position is in the epoch of the tail, or no further than a ring (`Young`),
and the job in the epoch of the tail (`Steady`), so that wrapped numbers are compared
within half the counter only.

Only model-checked:

- liveness (`Failover`, `DeposedLeaderStops`, `OwedIsSettled`, `CacheSettles`,
  `EntriesAreCollected`, `EventsAreExportedAndAnchored`, `QueuedIsDrained`),
  which is out of the prover's reach, as is `ENABLED`;
- `BundleCoversLeaf`: the bundle is a recursive walk along the links
  (`rolloverLineage`), and what it returns for every lineage takes an induction
  over data, which the installed provers cannot do.

## Where the code and its documentation disagree

`secrets_rewrap` is kept as a run. The comment of `UpdateStoredSecretEnvelope` says
that a re-wrap never clobbers newer ciphertext. It compares the KEK label, and a
put or a rollback may store another value under the same label in between: the
re-wrap then writes the old value over it. `findings` in `PROJECT.json` quotes the
lines.

The modules state more claims of comments and documents that TLC refutes. A
configuration with the suffix `Limits` checks one of them, its comment says which
others can be put in its place, and the hazards in `PROJECT.json` refer to them.

| Claim | Configuration | Why it fails |
| --- | --- | --- |
| `VetoBlocks` | `MCApprovalLimits` | a veto recorded while another approval completes the threshold is lost |
| `CompleteWindow`, `CompletersAgree` | `MCApprovalLimits` | the claim of a parked request does not look at the clock again; a second completer may read the row before the result is recorded |
| `ThresholdTakesEffect` | `MCApprovalLimits` | a call dies between the vote and the transition, and the same approver cannot vote again |
| `OneOpenRequest` | `MCApprovalLimits`, 2 requests | find and create are two statements |
| `ShutdownStopsJobsFirst` | `MCLeaderLimits` | a confirmation in flight at shutdown fails and closes the session under the jobs |
| `NoEventSkipped` from an unseeded cursor | `MCWebhookLimits`, `MCSeeding` | two workers seed at the first start, the later head wins |
| `TerminalStays`, `ResumedKeepsEvents` | `MCWebhookLimits` | updates by id after a cancellation; a cancellation decided before the subscription was enabled again |
| `EveryCertifiedNameWasValidated` | `MCAcmeLimits`, `MCPlain` | see below |
| `CanceledStays`, `RefreshKeepsTerminal`, `DeactivatedStays` | `MCAcmeLimits`, `MCStar` | a status computed from a stale copy is stored unconditionally; a polled STAR order is pending or ready again after it was cancelled |
| `OneCertificatePerOrder` | `MCAcmeLimits`, `MCTwice` | two finalize requests both read "ready" |
| `PermanentIsFinal` | `MCCrlLimits` | revoking a revoked certificate again with `certificateHold` turns it into a hold, which can be released |
| `PairCoversRevocations` | `MCCrlLimits` | a revocation stamped before the cut commits after the listing |
| `RevocationIsRecorded` | `MCCrlLimits` | a release deletes the row between the `INSERT` and the `UPDATE` of a revocation, which does not look at how many rows it changed |
| `RevokedHasNoMarker` | `MCCrlLimits` | a bulk revocation leaves the release marker |
| `PublishedNumberGrows` | `MCCrlLimits` | two replicas store in the other order than they numbered |
| `RevokedAtOnce` | `MCOcspLimits` | a response looked up before the revocation is cached after its invalidation |
| `UnknownIsNotIssued` | `MCOcspLimits` | the presigner leaves out a long expired certificate and then takes it for unknown |
| `NothingStranded` | `MCSecretsRewrap` | a store sealed under a version before it was superseded and counted commits after it is retired |
| `ForgottenIsStored` | `MCHsmAuditLimits` | an acknowledgement that reaches a device which was reset since the fetch frees entries of the new log |
| `SinkIsACopy` | `MCHsmAuditLimits` | a file that outlives a device reset drops entries by their number, without comparing them; the record after a torn line becomes part of it |
| `WrittenOnce` | `MCHsmAuditLimits` | each process knows only what it wrote itself, and a failed flush leaves the position behind the records |
| `TailCoversAcknowledged` | `MCHsmAuditLimits` | the slower of two drains that share a stolen lease moves the tail back |
| `AcknowledgedIsKept` past half the counter | `MCHsmAuditLimits`, `Modulus = 6`, `MaxHead = 5`, `MaxEpoch = 1` | a process whose file is half the counter behind takes new entries for old ones and does not write them |
| `RingIsAlwaysFreed` | `MCHsmAuditWrap` | after the counter wraps the store finds every number taken, and nothing is acknowledged any more; a full ring that could not log a boot is refused for good |
| `CursorIsHighWater` | `MCAuditLimits` | the slower of two exporters that overlap moves the cursor back, which repeats events |
| `NoSilentGap` | `MCEventStreamLimits` | the hook runs in the replica that appended: a stream of another replica passes the event and resumes behind it; no hook runs after a `COMMIT` that reports an error |
| `ResolvesToActive` | `MCRotationLimits`, `MCSequential` | a walk ends before a retired CA: retiring the middle of a lineage before its beginning cuts the beginning off |
| `BundleAlwaysCoversLeaf` | `MCRotationLimits`, `MCLonger` | a rotation that starts behind such a cut replaces a link |
| `OldChainCannotBreak` | `MCRotationLimits`, `MCScenarios` | a leaf whose issuer was resolved earlier is recorded after the retirement counted |
| `LabelsAreUnique` | `MCRotationLimits`, `MCOverlap` | the label is checked and the row inserted by different statements |
| `RetryCanRotate` | `MCRotationLimits`, `MCOverlap` | a rotation that failed leaves its key, and the retry derives the same label |
| `RetiredIsFinal` | `MCRotationLimits`, `MCOverlap` | the slower of two rotations links, and marks, a predecessor that was retired since |

### The exception of `CertifiedNamesWereValidated`

`handleNewOrder` inserts the order and its authorizations one by one, without a
transaction, and a status computed in between is computed from too few rows. The
account's list of orders names the order from the first insert on. `hasty` holds the
orders that a refresh found ready in that state, and the property exempts them. That
it has to, TLC shows by refuting `EveryCertifiedNameWasValidated` (`MCPlain`, one
name): a finalize finds the order without any authorization, hence ready; the
authorization is inserted before the finalize lists the names, and the certificate is
signed for a name that no check has passed for.

## Not modelled

`PROJECT.json` names every part that is left out. The repository is large, and
most of it is of three kinds that a state machine says little about:

- pure functions on certificates, keys and messages: encodings, linting, policy,
  attestation, format-preserving encryption, post-quantum and hybrid schemes;
- transports, handlers and commands, which decode, authorise, call one of the
  modelled parts and encode (EST, SCEP, CMP, BRSKI, WSTEP, REST, gRPC, the CLI);
- rows that are created, read, updated and deleted by single statements.

So the models cover the part of the code that coordinates, and a small share of
its lines. Parts with state of their own that are left out: the session pool and
the failover of the PKCS#11 provider, which are in-process and guarded by a
mutex; rate limits and quotas, whose counters are single statements or
mutex-guarded; retention and expiry marking, which delete or mark in batches what
no modelled property reads; renewal of evidence records, publication, backup,
discovery and the monitors, which are periodic jobs of the leader whose scheduling
is that of `LeaderElection`; deletion and import of CAs. What is not under the
server's control (the HSM, PostgreSQL, mail and HTTP endpoints) appears only
through how the code uses it.

Known exposures of modelled parts that the models do not cover, or for which the code
promises nothing: two `newOrder` requests with the same `replaces`
(`acme/order.go:660`); two requests in the PKCS#11 provider that both find a label
free and both generate it (`keyprovider/pkcs11.go:240`), which `Rotation` allows and
`StoredSecrets`, where the look-up and the generation are one step, does not; a
failed CRL regeneration after a bulk revocation, which a re-run does not repeat
(`ca/bulkrevoke.go:498`).
