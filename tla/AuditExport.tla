----------------------------- MODULE AuditExport -----------------------------
(***************************************************************************)
(* The jobs that read the event log: the SIEM exporter (siem/exporter.go)  *)
(* with its durable cursor, and the anchoring of the chain's head          *)
(* (anchor/anchor.go), whose own record is the next event.  Both run under *)
(* the leader elector, so two replicas run them at once only while one     *)
(* still believes it leads.                                                *)
(***************************************************************************)
EXTENDS AuditLog

CONSTANTS Scenarios,   \* [writers, exporters, anchorers]: the replicas that
                       \* record other events and that run each job
          BatchSize

ASSUME AuditExportConstants ==
    /\ \A s \in Scenarios : UNION {s.writers, s.exporters, s.anchorers} \subseteq Replicas
    /\ BatchSize \in Nat \ {0}

VARIABLES conf,
          cursor,     \* siem_export_cursor of the sink
          delivered,  \* the sequence numbers the sink accepted
          worker,     \* runWorker in each replica, with its own cursor
          anchors,    \* audit_anchors, in the order of insertion
          anchor      \* AnchorOnce in each replica

siem == <<cursor, delivered, worker>>
anchoring == <<anchors, anchor>>
vars == <<log, app, errors, conf, siem, anchoring>>

Off == [at |-> "off"]

Init ==
    /\ LogInit
    /\ conf \in Scenarios
    /\ cursor = 0 /\ delivered = {}
    /\ worker = [r \in Replicas |-> Off]
    /\ anchors = <<>>
    /\ anchor = [r \in Replicas |-> Idle]

-----------------------------------------------------------------------------
(* Appends.                                                                *)

\* A request or a job of a replica records an event.
Record(r) ==
    /\ r \in conf.writers
    /\ ReadLast(r, "event")
    /\ UNCHANGED <<log, errors, conf, siem, anchoring>>

\* The append ends, well or not; record() of the anchor waits for it.
AppendStep(r) ==
    /\ Insert(r) \/ ReturnError(r) \/ HookDone(r)
    /\ IF app'[r] = Idle /\ app[r].act = "anchor"
       THEN anchor' = [anchor EXCEPT ![r] = Idle]
       ELSE UNCHANGED anchor
    /\ UNCHANGED <<conf, siem, anchors>>

-----------------------------------------------------------------------------
(* The SIEM exporter.                                                      *)

\* GetSIEMCursor; on an error the worker starts from the genesis.
StartWorker(r) ==
    /\ r \in conf.exporters /\ worker[r] = Off
    /\ \/ worker' = [worker EXCEPT ![r] = [at |-> "poll", cur |-> cursor]] /\ UNCHANGED errors
       \/ worker' = [worker EXCEPT ![r] = [at |-> "poll", cur |-> 0]] /\ Err
    /\ UNCHANGED <<log, app, conf, cursor, delivered, anchoring>>

\* The leadership is lost.
StopWorker(r) ==
    /\ worker[r] # Off
    /\ Err
    /\ worker' = [worker EXCEPT ![r] = Off]
    /\ UNCHANGED <<log, app, conf, cursor, delivered, anchoring>>

\* Mutant: the batch counts as everything up to the head.
ListToHead(r) ==
    /\ worker[r].at = "poll" /\ worker[r].cur < Len(log)
    /\ LET to == Min({Len(log), worker[r].cur + BatchSize})
       IN worker' = [worker EXCEPT ![r] = [at |-> "deliver", cur |-> worker[r].cur,
                                           batch |-> worker[r].cur + 1 .. to, to |-> Len(log)]]
    /\ UNCHANGED <<log, app, errors, conf, cursor, delivered, anchoring>>

\* MaxEventSeq and ListEventsSince, when the sink is behind the head.
ListEventsSince(r) ==
    /\ worker[r].at = "poll" /\ worker[r].cur < Len(log)
    /\ LET to == Min({Len(log), worker[r].cur + BatchSize})
       IN worker' = [worker EXCEPT ![r] = [at |-> "deliver", cur |-> worker[r].cur,
                                           batch |-> worker[r].cur + 1 .. to, to |-> to]]
    /\ UNCHANGED <<log, app, errors, conf, cursor, delivered, anchoring>>

\* Deliver: the sink takes the batch and acknowledges it, or takes it and the
\* acknowledgement is lost, or fails.  Without one the batch is read again.
Deliver(r) ==
    /\ worker[r].at = "deliver"
    /\ \/ /\ delivered' = delivered \union worker[r].batch
          /\ worker' = [worker EXCEPT ![r].at = "save"]
          /\ UNCHANGED errors
       \/ /\ delivered' \in {delivered, delivered \union worker[r].batch}
          /\ worker' = [worker EXCEPT ![r] = [at |-> "poll", cur |-> worker[r].cur]]
          /\ Err
    /\ UNCHANGED <<log, app, conf, cursor, anchoring>>

\* SetSIEMCursor: an unconditional upsert; on an error the cursor stays.
SetSIEMCursor(r) ==
    /\ worker[r].at = "save"
    /\ \/ /\ cursor' = worker[r].to
          /\ worker' = [worker EXCEPT ![r] = [at |-> "poll", cur |-> worker[r].to]]
          /\ UNCHANGED errors
       \/ /\ worker' = [worker EXCEPT ![r] = [at |-> "poll", cur |-> worker[r].cur]]
          /\ Err
          /\ UNCHANGED cursor
    /\ UNCHANGED <<log, app, conf, delivered, anchoring>>

-----------------------------------------------------------------------------
(* Anchoring: AnchorOnce, not forced.                                      *)

\* EventLogHead of a log that is not empty.
EventLogHead(r) ==
    /\ r \in conf.anchorers /\ anchor[r] = Idle /\ log # <<>>
    /\ anchor' = [anchor EXCEPT ![r] = [at |-> "latest", seq |-> Len(log), hash |-> Hash(Len(log)),
                                        act |-> log[Len(log)].act]]
    /\ UNCHANGED <<log, app, errors, conf, siem, anchors>>

\* Mutant: the record of any anchor is skipped.
AnyAnchorRecord(a, last) == a.seq = last.seq \/ a.act = "anchor"

\* The head is anchored, or is the record of the last anchor.
NothingNew(a, last) ==
    \/ a.seq = last.seq /\ a.hash = last.hash
    \/ a.seq = last.seq + 1 /\ a.act = "anchor"

\* LatestAuditAnchor, ORDER BY seq DESC.
LatestAuditAnchor(r) ==
    /\ anchor[r].at = "latest"
    /\ anchor' = [anchor EXCEPT ![r] =
          IF \E k \in DOMAIN anchors : /\ \A j \in DOMAIN anchors : anchors[j].seq <= anchors[k].seq
                                       /\ NothingNew(anchor[r], anchors[k])
          THEN Idle ELSE [anchor[r] EXCEPT !.at = "token"]]
    /\ UNCHANGED <<log, app, errors, conf, siem, anchors>>

\* Mutant: the hash is read again when the row is written.
InsertCurrentHash(r) ==
    /\ anchor[r].at = "token"
    /\ anchors' = Append(anchors, [seq |-> anchor[r].seq, hash |-> Hash(Len(log))])
    /\ anchor' = [anchor EXCEPT ![r] = [at |-> "record"]]
    /\ UNCHANGED <<log, app, errors, conf, siem>>

\* The clock, Timestamp and InsertAuditAnchor; a failure is recorded too.
InsertAuditAnchor(r) ==
    /\ anchor[r].at = "token"
    /\ \/ /\ anchors' = Append(anchors, [seq |-> anchor[r].seq, hash |-> anchor[r].hash])
          /\ UNCHANGED errors
       \/ Err /\ UNCHANGED anchors
    /\ anchor' = [anchor EXCEPT ![r] = [at |-> "record"]]
    /\ UNCHANGED <<log, app, conf, siem>>

\* record: its failure does not undo the anchor.  MaxSeq bounds the log.
RecordAnchor(r) ==
    /\ anchor[r].at = "record"
    /\ \/ /\ ReadLast(r, "anchor")
          /\ anchor' = [anchor EXCEPT ![r] = [at |-> "append"]]
       \/ /\ Len(log) = MaxSeq
          /\ anchor' = [anchor EXCEPT ![r] = Idle]
          /\ UNCHANGED app
    /\ UNCHANGED <<log, errors, conf, siem, anchors>>

\* The process dies between two statements of any of its jobs.
Crash(r) ==
    /\ Err
    /\ AppendDies(r)
    /\ worker' = [worker EXCEPT ![r] = Off]
    /\ anchor' = [anchor EXCEPT ![r] = Idle]
    /\ UNCHANGED <<log, conf, cursor, delivered, anchors>>

Export(r) ==
    \/ ListEventsSince(r) \/ Deliver(r) \/ SetSIEMCursor(r)

Anchor(r) ==
    \/ EventLogHead(r) \/ LatestAuditAnchor(r) \/ InsertAuditAnchor(r) \/ RecordAnchor(r)

Next ==
    \E r \in Replicas :
        \/ Record(r) \/ AppendStep(r)
        \/ StartWorker(r) \/ StopWorker(r) \/ Export(r)
        \/ Anchor(r) \/ Crash(r)

Spec == Init /\ [][Next]_vars

\* A statement in flight returns, a replica that leads starts its worker, the
\* worker polls and the anchor job runs on its ticker.
FairSpec ==
    /\ Spec
    /\ \A r \in Replicas :
          /\ WF_vars(AppendStep(r)) /\ WF_vars(StartWorker(r))
          /\ WF_vars(Export(r)) /\ WF_vars(Anchor(r))

-----------------------------------------------------------------------------

\* The types of the tables and of the jobs.
TypeOK ==
    /\ LogTypeOK
    /\ conf \in Scenarios
    /\ cursor \in 0 .. Len(log) /\ delivered \subseteq 1 .. Len(log)
    /\ \A r \in Replicas : worker[r].at \in {"off", "poll", "deliver", "save"}
    /\ \A r \in Replicas : anchor[r].at \in {"idle", "latest", "token", "record", "append"}

\* No event is lost on its way to the sink: everything at or below the durable
\* cursor, and below the cursor of any running worker, has been accepted, however
\* workers overlap, fail or die (runWorker: "never loses events").
CursorIsCovered ==
    /\ 1 .. cursor \subseteq delivered
    /\ \A r \in Replicas : worker[r] # Off => 1 .. worker[r].cur \subseteq delivered

\* Every anchor is of a row the log still holds, so VerifyAnchors never accuses a
\* log nobody altered (CheckAnchorAgainstChain), and an idle log is not anchored
\* again and again: one job takes no more anchors than there are other events,
\* whatever fails or dies (AnchorOnce: "so an idle log does not re-anchor itself
\* forever").
AnchorsAreSound ==
    /\ \A k \in DOMAIN anchors :
          anchors[k].seq <= Len(log) /\ Hash(anchors[k].seq) = anchors[k].hash
    /\ Cardinality(conf.anchorers) = 1
       => Len(anchors) <= Cardinality({i \in DOMAIN log : log[i].act = "event"})

\* Every event reaches the sink where an exporter runs, and is covered by an anchor
\* where the anchor job runs, in the end: workers that die are started again, and a
\* failed delivery, cursor write or time-stamp is retried.
EventsAreExportedAndAnchored ==
    \A i \in 1 .. MaxSeq :
        /\ (Len(log) >= i /\ conf.exporters # {}) ~> (i \in delivered)
        /\ (Len(log) >= i /\ log[i].act = "event" /\ conf.anchorers # {})
              ~> (\E k \in DOMAIN anchors : anchors[k].seq >= i)

\* "the persisted value is always a high-water mark of acknowledged events"
\* (SetSIEMCursor).
CursorIsHighWater == [][cursor' >= cursor]_cursor
=============================================================================
