------------------------------ MODULE HsmAudit ------------------------------
(***************************************************************************)
(* Collection of the HSM's audit log: internal/hsmaudit (collector.go,     *)
(* lease.go, logfile.go, verify.go, Provision of service.go) over          *)
(* database/hsm_audit.go.  A process, the server or an operator's command, *)
(* drains the device: it fetches the entries the device still holds,       *)
(* checks that they continue the stored chain, writes them to the          *)
(* append-only file, then to the store, moves the tail, and only then      *)
(* tells the device to forget them.  drainMu admits one drain per process, *)
(* an expiring lease one process at a time.                                *)
(*                                                                         *)
(* An entry is <<epoch, index>>: which factory reset it follows and its    *)
(* place in the device's chain.  Its digest identifies both; its number is *)
(* the index in a counter that wraps.  In force-audit mode a device whose  *)
(* ring is full refuses further operations, and counts the boots and the   *)
(* authentications it could not log.                                       *)
(***************************************************************************)
EXTENDS Integers, Sequences, FiniteSets, FiniteSetsExt

CONSTANTS Scenarios,   \* [procs, steal, rivals, odd, errors]: who drains, may a live
                       \* lease expire, may two operators provision at a time, which
                       \* entries log a command this build does not know, bound on
                       \* failures, crashes and restarts
          Modulus,     \* 65536: entry numbers are uint16
          Ring,        \* MaxLogEntries, 62
          MaxHead,     \* bound on the entries of one epoch
          MaxEpoch     \* bound on factory resets

Procs == UNION {s.procs : s \in Scenarios}

ASSUME HsmAuditConstants ==
    /\ \A s \in Scenarios :
          /\ IsFiniteSet(s.procs) /\ s.steal \in BOOLEAN /\ s.rivals \in BOOLEAN
          /\ 1 \notin s.odd /\ s.errors \in Nat
    /\ "free" \notin Procs /\ "dead" \notin Procs
    /\ Modulus \in Nat /\ Modulus > 5 /\ Ring \in Nat \ {0} /\ 2 * Ring <= Modulus
    /\ MaxHead \in Nat \ {0} /\ MaxEpoch \in Nat \ {0}

Entries == (1 .. MaxEpoch) \X (1 .. MaxHead)
None == <<>>

\* The other lines of the file: a resume record, the beginning of a line that a
\* short write cut off, and such a line with the one that was appended to it.
Resume == <<0, 0>>
Torn == <<0, 1>>
Malformed == <<0, 2>>
Lines == Entries \union {Resume, Torn, Malformed}

VARIABLES conf,
          epoch, head, consumed,  \* the device: entries consumed+1 .. head are held
          unlogged,  \* its counters of boots and authentications not logged
          lease,     \* hsm_collect_lease: its owner, "free", or "dead" with its owner
          tail,      \* hsm_audit_state: the tail entry, None before provisioning
          stored,    \* hsm_log_entries by number
          file,      \* the records of the append-only file
          last,      \* what each process's LogFile holds as its last entry
          job,       \* the cycle or the provisioning each process runs
          alarm,     \* a cycle found the chain broken
          unflushed, \* history: a file write was reported failed after some of it was made
          astray,    \* history: the entries of this epoch that an acknowledgement of another
                     \* entry, under the same number, told the device to forget
          errors

device == <<epoch, head, consumed, unlogged, astray>>
files == <<file, last, unflushed>>
vars == <<conf, device, lease, tail, stored, files, job, alarm, errors>>

Idle == [at |-> "idle", prov |-> FALSE, tail |-> None, ep |-> 0, from |-> 0, to |-> 0]

Init ==
    /\ conf \in Scenarios
    /\ epoch = 1 /\ head = 1 /\ consumed = 0 /\ unlogged = FALSE /\ astray = {}
    /\ lease = "free"
    /\ tail = None
    /\ stored = [n \in 1 .. Modulus - 1 |-> None]
    /\ file = <<>>
    /\ last = [p \in Procs |-> None]
    /\ job = [p \in Procs |-> Idle]
    /\ alarm = FALSE /\ unflushed = FALSE
    /\ errors = 0

Goto(p, at) == job' = [job EXCEPT ![p].at = at]

-----------------------------------------------------------------------------
(* Entry numbers.                                                          *)

\* The number the device gives an entry: 0 is never used.
Number(e) == 1 + ((e[2] - 1) % (Modulus - 1))

nextNumber(n) == IF n = Modulus - 1 THEN 1 ELSE n + 1

isForward(want, got) == ((got - want) % Modulus) < Modulus \div 2

\* The scan shared by trimToTail and trimWritten: the first entry of ep, among
\* from+1 .. to, that is at or past position pos, empty without one.
FirstForward(pos, ep, from, to) ==
    LET at == {i \in from + 1 .. to : isForward(Number(pos), Number(<<ep, i>>))}
    IN {i \in at : \A k \in at : i <= k}

\* The index after which the entries are new, or the reason there is none.
Trim(pos, ep, from, to) ==
    IF pos = None \/ from = to THEN {from}
    ELSE UNION {IF Number(<<ep, i>>) # Number(pos) THEN {i - 1}
                ELSE IF <<ep, i>> = pos THEN {i} ELSE {} : i \in FirstForward(pos, ep, from, to)}

\* Mutants: a segment that cannot be placed counts as held; nothing is trimmed.
HeldWhenUnplaced(pos, ep, from, to) ==
    IF Trim(pos, ep, from, to) = {} THEN {to} ELSE Trim(pos, ep, from, to)
WriteAll(pos, ep, from, to) == {from}

\* The entries past the tail, none when the segment cannot be placed.
trimToTail(pos, ep, from, to) == Trim(pos, ep, from, to)

\* The entries past the file's position, none when all are behind it.
trimWritten(pos, ep, from, to) == Trim(pos, ep, from, to)

\* The entry is offered with another digest under the position's number.
Contradicts(pos, ep, from, to) ==
    pos # None /\ \E i \in FirstForward(pos, ep, from, to) :
                     Number(<<ep, i>>) = Number(pos) /\ <<ep, i>> # pos

\* VerifySegment: the device could log everything, every command is known, and
\* the first new entry has the next number and a digest that hashes forward from
\* the tail's.  The device's own entries are consecutive.
VerifySegment(pos, ep, from, to) ==
    /\ ~unlogged
    /\ conf.odd \intersect (from + 1 .. to) = {}
    /\ from < to => /\ Number(<<ep, from + 1>>) = nextNumber(Number(pos))
                    /\ <<ep, from>> = pos

-----------------------------------------------------------------------------
(* The device.                                                             *)

\* An audited operation; force-audit refuses it when the ring is full.
Operate ==
    /\ head < MaxHead /\ head - consumed < Ring
    /\ head' = head + 1
    /\ UNCHANGED <<conf, epoch, consumed, unlogged, astray, lease, tail, stored, files, job, alarm, errors>>

\* A boot or an authentication that the full ring cannot log.
Overflow ==
    /\ head - consumed = Ring /\ ~unlogged
    /\ unlogged' = TRUE
    /\ UNCHANGED <<conf, epoch, head, consumed, astray, lease, tail, stored, files, job, alarm, errors>>

\* A factory reset: the log restarts at the device-init sentinel.
Reset ==
    /\ epoch < MaxEpoch
    /\ epoch' = epoch + 1 /\ head' = 1 /\ consumed' = 0 /\ unlogged' = FALSE /\ astray' = {}
    /\ UNCHANGED <<conf, lease, tail, stored, files, job, alarm, errors>>

-----------------------------------------------------------------------------
(* One drain cycle: Collect.                                               *)

\* Mutant: the WHERE clause is lost.
AcquireAnyway(p) ==
    /\ p \in conf.procs /\ job[p].at = "idle"
    /\ lease' = p
    /\ job' = [job EXCEPT ![p] = [Idle EXCEPT !.at = "load"]]
    /\ UNCHANGED <<conf, device, tail, stored, files, alarm, errors>>

\* AcquireCollectionLease: WHERE owner = ? OR expires_at <= ?.  A lease expires
\* when its holder is gone, and under steal while its holder is still at work.
Acquire(p) ==
    /\ p \in conf.procs /\ job[p].at = "idle"
    /\ \/ lease \in {"free", "dead", p}
       \/ lease \in Procs /\ (conf.steal \/ job[lease].at = "idle" \/ job[lease].prov)
    /\ lease' = p
    /\ job' = [job EXCEPT ![p] = [Idle EXCEPT !.at = "load"]]
    /\ UNCHANGED <<conf, device, tail, stored, files, alarm, errors>>

\* LoadAuditState: a device that is not provisioned is not drained.
LoadAuditState(p) ==
    /\ job[p].at = "load" /\ ~job[p].prov
    /\ IF tail = None
       THEN Goto(p, "release")
       ELSE job' = [job EXCEPT ![p] = [Idle EXCEPT !.at = "fetch", !.tail = tail]]
    /\ UNCHANGED <<conf, device, lease, tail, stored, files, alarm, errors>>

\* FetchLog, trimToTail and VerifySegment.  A segment that cannot be placed or
\* does not continue the tail is refused, and nothing is acknowledged.
FetchLog(p) ==
    /\ job[p].at = "fetch" /\ ~job[p].prov
    /\ LET fresh == trimToTail(job[p].tail, epoch, consumed, head)
           good == \E f \in fresh : VerifySegment(job[p].tail, epoch, f, head)
       IN /\ alarm' = (alarm \/ ~good)
          /\ IF ~good \/ consumed = head
             THEN Goto(p, "release")
             ELSE \E f \in fresh :
                     job' = [job EXCEPT ![p] =
                                [Idle EXCEPT !.at = IF f < head THEN "sink" ELSE "consume",
                                             !.ep = epoch, !.from = f, !.to = head]]
    /\ UNCHANGED <<conf, device, lease, tail, stored, files, errors>>

\* The records AppendEntries writes: a resume record where the entries do not
\* continue what this LogFile holds, then the entries.
Records(pos, ep, from, to) ==
    LET continues == IF pos = None THEN from = 0
                     ELSE Number(<<ep, from + 1>>) = nextNumber(Number(pos))
    IN (IF continues THEN <<>> ELSE <<Resume>>) \o [i \in 1 .. to - from |-> <<ep, from + i>>]

\* write, O_APPEND: what follows an unterminated line becomes part of it.
Appended(recs) ==
    LET n == Len(file)
    IN IF n > 0 /\ file[n] = Torn
       THEN [file EXCEPT ![n] = IF recs[1] = Torn THEN Torn ELSE Malformed] \o Tail(recs)
       ELSE file \o recs

\* The records of which a failed write leaves k: all of them when only the flush
\* failed, otherwise the first k and a part of the next.
Cut(recs, k) == IF k = Len(recs) THEN recs ELSE SubSeq(recs, 1, k) \o <<Torn>>

\* AppendEntries of the file, before the store; a contradiction fails the cycle.
\* A failed write or flush leaves the position unmoved.
AppendEntries(p) ==
    /\ job[p].at = "sink"
    /\ LET j == job[p]
           new == trimWritten(last[p], j.ep, j.from, j.to)
           recs == Records(last[p], j.ep, Min(new), j.to)
       IN IF Contradicts(last[p], j.ep, j.from, j.to)
          THEN /\ Goto(p, "release")
               /\ UNCHANGED <<files, errors>>
          ELSE \/ /\ ~ \E f \in new : f < j.to
                  /\ Goto(p, "append")
                  /\ UNCHANGED <<files, errors>>
               \/ /\ \E f \in new : f < j.to
                  /\ file' = Appended(recs)
                  /\ last' = [last EXCEPT ![p] = <<j.ep, j.to>>]
                  /\ Goto(p, "append")
                  /\ UNCHANGED <<unflushed, errors>>
               \/ /\ \E f \in new : f < j.to
                  /\ errors < conf.errors /\ errors' = errors + 1
                  /\ \E k \in 0 .. Len(recs) : file' = Appended(Cut(recs, k))
                  /\ unflushed' = TRUE
                  /\ Goto(p, "release")
                  /\ UNCHANGED last
    /\ UNCHANGED <<conf, device, lease, tail, stored, alarm>>

\* Mutant: an entry is stored once.
StoredTwice(e) == stored[Number(e)] # None

\* The number is taken by other content.
StoredOtherwise(e) == stored[Number(e)] \notin {None, e}

\* AppendLogEntries: idempotent by number, and all or nothing.
AppendLogEntries(p) ==
    /\ job[p].at = "append"
    /\ LET j == job[p]
           new == {<<j.ep, i>> : i \in j.from + 1 .. j.to}
       IN IF \E e \in new : StoredOtherwise(e)
          THEN /\ Goto(p, "release")
               /\ UNCHANGED stored
          ELSE /\ Goto(p, IF j.prov THEN "save" ELSE "tail")
               /\ stored' = [n \in DOMAIN stored |->
                                IF \E e \in new : Number(e) = n
                                THEN CHOOSE e \in new : Number(e) = n ELSE stored[n]]
    /\ UNCHANGED <<conf, device, lease, tail, files, alarm, errors>>

\* UpdateTail.
UpdateTail(p) ==
    /\ job[p].at = "tail"
    /\ tail' = <<job[p].ep, job[p].to>>
    /\ Goto(p, "consume")
    /\ UNCHANGED <<conf, device, lease, stored, files, alarm, errors>>

\* ConsumeLog, up to the number of the last entry fetched.  It opens a session of
\* its own (withClient), so it reaches a device that was reset since the fetch,
\* which forgets whatever it holds up to that number.
ConsumeLog(p) ==
    /\ job[p].at = "consume"
    /\ LET acknowledged == <<job[p].ep, job[p].to>>
           named == {i \in consumed + 1 .. head : Number(<<epoch, i>>) = Number(acknowledged)}
       IN \/ /\ named = {}
             /\ UNCHANGED <<consumed, astray>>
          \/ \E i \in named :
                /\ consumed' = i
                /\ astray' = astray \union IF <<epoch, i>> = acknowledged THEN {} ELSE consumed + 1 .. i
    /\ Goto(p, "release")
    /\ UNCHANGED <<conf, epoch, head, unlogged, lease, tail, stored, files, alarm, errors>>

\* ReleaseCollectionLease: WHERE owner = ?.  Provisioning holds no lease.
Release(p) ==
    /\ job[p].at = "release"
    /\ lease' = IF ~job[p].prov /\ lease = p THEN "free" ELSE lease
    /\ job' = [job EXCEPT ![p] = Idle]
    /\ UNCHANGED <<conf, device, tail, stored, files, alarm, errors>>

-----------------------------------------------------------------------------
(* Provision, up to the drain that ends it.                                *)

\* LoadAuditState finds none.  Provision takes neither drainMu nor the lease: what
\* keeps two operators from provisioning at a time is outside the code.
ProvisionLoad(p) ==
    /\ p \in conf.procs /\ job[p].at = "idle"
    /\ tail = None
    /\ conf.rivals \/ \A q \in Procs : job[q].at # "idle" => ~job[q].prov
    /\ job' = [job EXCEPT ![p] = [Idle EXCEPT !.at = "fetch", !.prov = TRUE]]
    /\ UNCHANGED <<conf, device, lease, tail, stored, files, alarm, errors>>

\* FetchLog: the device could log everything, the log begins at the sentinel
\* (CheckDeviceInitEntry) and every command is known (VerifyChainFromGenesis).
ProvisionFetch(p) ==
    /\ job[p].at = "fetch" /\ job[p].prov
    /\ IF unlogged \/ consumed # 0 \/ conf.odd \intersect (1 .. head) # {}
       THEN Goto(p, "release")
       ELSE job' = [job EXCEPT ![p] = [Idle EXCEPT !.at = "sink", !.prov = TRUE,
                                                   !.ep = epoch, !.to = head]]
    /\ UNCHANGED <<conf, device, lease, tail, stored, files, alarm, errors>>

\* SaveAuditState: the anchor is pinned once.  recordGenesis and ConsumeLog
\* follow; a failure of either leaves the device unacknowledged.
SaveAuditState(p) ==
    /\ job[p].at = "save"
    /\ IF tail = None \/ tail[1] = job[p].ep
       THEN tail' = <<job[p].ep, job[p].to>> /\ Goto(p, "consume")
       ELSE UNCHANGED tail /\ Goto(p, "release")
    /\ UNCHANGED <<conf, device, lease, stored, files, alarm, errors>>

-----------------------------------------------------------------------------
(* Failures.                                                               *)

\* readTail: the last entry of the file, past lines that are none or are torn.
ReadTail ==
    LET at == {i \in DOMAIN file : /\ file[i] \in Entries
                                   /\ \A k \in DOMAIN file : k > i => file[k] \notin Entries}
    IN IF at = {} THEN None ELSE file[CHOOSE i \in at : TRUE]

\* A statement or a device command fails: the cycle ends.  The release itself
\* may fail, and its error is dropped.
Fail(p) ==
    /\ errors < conf.errors /\ errors' = errors + 1
    /\ job[p].at # "idle"
    /\ IF job[p].at = "release" THEN job' = [job EXCEPT ![p] = Idle] ELSE Goto(p, "release")
    /\ UNCHANGED <<conf, device, lease, tail, stored, files, alarm>>

\* The process dies or exits; the next one opens the file afresh and is
\* another owner to the lease.
Restart(p) ==
    /\ p \in conf.procs
    /\ errors < conf.errors /\ errors' = errors + 1
    /\ job' = [job EXCEPT ![p] = Idle]
    /\ lease' = IF lease = p THEN "dead" ELSE lease
    /\ last' = [last EXCEPT ![p] = ReadTail]
    /\ UNCHANGED <<conf, device, tail, stored, file, unflushed, alarm>>

Cycle(p) ==
    \/ Acquire(p) \/ LoadAuditState(p) \/ FetchLog(p) \/ AppendEntries(p)
    \/ AppendLogEntries(p) \/ UpdateTail(p) \/ ConsumeLog(p) \/ Release(p)
    \/ ProvisionFetch(p) \/ SaveAuditState(p)

Next ==
    \/ Operate \/ Overflow \/ Reset
    \/ \E p \in Procs : Cycle(p) \/ ProvisionLoad(p) \/ Fail(p) \/ Restart(p)

Spec == Init /\ [][Next]_vars

\* The collector drains on a ticker (BackstopInterval) and every statement of a
\* cycle returns.
FairSpec == Spec /\ \A p \in Procs : WF_vars(Cycle(p))

-----------------------------------------------------------------------------

Jobs == [at : {"idle", "load", "fetch", "sink", "append", "save", "tail", "consume", "release"},
         prov : BOOLEAN, tail : Entries \union {None},
         ep : 0 .. MaxEpoch, from : 0 .. MaxHead, to : 0 .. MaxHead]

\* The types of the device, the tables and the processes.
TypeOK ==
    /\ conf \in Scenarios
    /\ epoch \in 1 .. MaxEpoch /\ consumed \in 0 .. head /\ head \in 1 .. MaxHead
    /\ head - consumed <= Ring /\ unlogged \in BOOLEAN /\ astray \subseteq 1 .. MaxHead
    /\ lease \in Procs \union {"free", "dead"}
    /\ tail \in Entries \union {None}
    /\ stored \in [1 .. Modulus - 1 -> Entries \union {None}]
    /\ file \in Seq(Lines)
    /\ last \in [Procs -> Entries \union {None}]
    /\ job \in [Procs -> Jobs]
    /\ alarm \in BOOLEAN /\ unflushed \in BOOLEAN /\ errors \in 0 .. conf.errors

\* The device is never told to forget an entry that is not in the store, nor one
\* that is not in an append-only file of its own without a torn line, even when a
\* lease is stolen, two operators provision, or a process dies (collectLocked:
\* sinks, store, then the device; "acknowledging it would destroy the only copy").
\* The one exception is an entry that an acknowledgement meant for another has
\* freed, because the device was reset between the fetch and ConsumeLog.  Of the
\* file it holds until the entry counter has gone half round: a process whose
\* LogFile is further behind takes new entries for old ones (trimWritten).
AcknowledgedIsKept ==
    \A i \in (1 .. consumed) \ astray :
        /\ stored[Number(<<epoch, i>>)] = <<epoch, i>>
        /\ (\A k \in DOMAIN file : file[k] = Resume \/ file[k][1] = epoch)
              => \E k \in DOMAIN file : file[k] = <<epoch, i>>

\* The same without the exception: "fetch, verify continuity, persist, and only then
\* acknowledge" (collector.go).
ForgottenIsStored == \A i \in 1 .. consumed : stored[Number(<<epoch, i>>)] = <<epoch, i>>

\* The same of any file: "a sink is a copy the deployment genuinely has rather than
\* one it merely attempted" (AddSink).
SinkIsACopy == \A i \in (1 .. consumed) \ astray : \E k \in DOMAIN file : file[k] = <<epoch, i>>

\* What may interrupt the chain of a device: a reset, an acknowledgement gone astray,
\* a lease that expires under its holder, two operators who provision at a time, and
\* what the device itself reports, an operation it could not log or a command that
\* this build does not know.
Disturbed ==
    \/ epoch > 1 \/ astray # {} \/ conf.steal \/ conf.rivals
    \/ unlogged \/ conf.odd \intersect (1 .. head) # {}

\* The collector never accuses its own CA: an undisturbed device always continues the
\* stored tail, after any failure or crash, whichever process drained it and however
\* late a provisioning acknowledges (drainMu and the lease; Tail).
NoFalseAlarm == alarm => Disturbed

\* The file of one process and of the one that replaces it is a single chain, as
\* VerifyLogFile's checkEntry reads it: each entry hashes forward from the line
\* before it, and no resume record admits a gap.  What the device delivers again
\* after a failure or a crash is not written again, and nothing is missed.
FileIsOneChain ==
    (Cardinality(conf.procs) = 1 /\ ~unflushed)
    => \A k \in 2 .. Len(file) : file[k] = <<file[k - 1][1], file[k - 1][2] + 1>>

\* The same of every writer: "Re-delivered entries ... are recognised and not
\* appended twice" (audit-log.md; AppendEntries).
WrittenOnce == \A k, l \in DOMAIN file : file[k] = file[l] => k = l \/ file[k] \notin Entries

\* A stolen lease "can at worst produce the interleaving above, which fails
\* closed": the tail never falls behind what the device was told to forget.
TailCoversAcknowledged == tail # None /\ tail[1] = epoch => consumed <= tail[2]

\* Every entry of a provisioned device is stored and its ring slot freed in the end,
\* so a full ring does not refuse operations for good, unless the device is disturbed
\* or its entry counter has come round (Run's backstop).  In those cases it can stay
\* full: VerifySegment refuses every later segment, or AppendLogEntries finds the
\* numbers taken.
EntriesAreCollected ==
    \A i \in 1 .. MaxHead :
        (tail # None /\ head >= i) ~> (consumed >= i \/ Disturbed \/ head >= Modulus)

\* The same of a device that is neither reset nor contended for, whatever it reports
\* and however far its counter is: "the backstop bounds how long any of that sits in
\* the ring" (BackstopInterval).
RingIsAlwaysFreed ==
    \A i \in 1 .. MaxHead :
        (tail # None /\ head >= i) ~> (consumed >= i \/ epoch > 1 \/ conf.steal \/ conf.rivals)
=============================================================================
