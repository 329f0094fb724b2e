-------------------------- MODULE AuditExportProofs --------------------------
(* Proofs about the event log and the jobs that read it, for any replicas,   *)
(* scenarios, batch size, length of the log and number of failures.          *)
EXTENDS AuditExport, FiniteSetTheorems, TLAPS

Actions == {"event", "anchor"}
Hashes == {Genesis} \union (Nat \X Replicas \X Actions)
Row == [by : Replicas, act : Actions, prev : Hashes, quiet : BOOLEAN]
Appending == [at : {"insert", "hook", "return"}, act : Actions, seq : Nat, prev : Hashes]
Polling == [at : {"poll"}, cur : Nat]
Sending == [at : {"deliver", "save"}, cur : Nat, batch : SUBSET Nat, to : Nat]
Anchoring == [at : {"latest", "token"}, seq : Nat, hash : Hashes, act : Actions]
AnchorTail == [at : {"record", "append"}]
AnchorRow == [seq : Nat, hash : Hashes]

\* The hash of row n of a log, and that a log holds a row with that hash.
HashIn(l, n) == IF n = 0 THEN Genesis ELSE <<n, l[n].by, l[n].act>>
Holds(l, n, h) == n \in 0 .. Len(l) /\ HashIn(l, n) = h

\* An append in flight continues a row that the log holds.
LogInv ==
    /\ log \in Seq(Row)
    /\ app \in [Replicas -> {Idle} \union Appending]
    /\ \A r \in Replicas : app[r].at = "insert" =>
          app[r].seq > 0 /\ Holds(log, app[r].seq - 1, app[r].prev)
    /\ ChainVerifies

\* A worker has read the events that follow its cursor, and saves what it sent.
ExportInv ==
    /\ cursor \in Nat /\ delivered \in SUBSET Nat
    /\ worker \in [Replicas -> {Off} \union Polling \union Sending]
    /\ \A r \in Replicas : worker[r] \in Sending =>
          /\ worker[r].batch = worker[r].cur + 1 .. worker[r].to
          /\ worker[r].at = "save" => worker[r].batch \subseteq delivered
    /\ CursorIsCovered

\* Every anchor is of a row the log still holds, with the hash the row has
\* (InsertAuditAnchor, CheckAnchorAgainstChain).
AnchorsMatchTheLog == \A k \in DOMAIN anchors : Holds(log, anchors[k].seq, anchors[k].hash)

\* The same of what an anchor job has read.
AnchorInv ==
    /\ anchors \in Seq(AnchorRow)
    /\ anchor \in [Replicas -> {Idle} \union Anchoring \union AnchorTail]
    /\ \A r \in Replicas : anchor[r] \in Anchoring => Holds(log, anchor[r].seq, anchor[r].hash)
    /\ AnchorsMatchTheLog

\* There is an event among the rows of log l after m and up to n, and all of
\* them up to n.
EventIn(l, m, n) == \E i \in m + 1 .. n : l[i].act = "event"
EventsUpTo(l, n) == {i \in 1 .. n : l[i].act = "event"}

\* One anchor job, and the last row that it has anchored.
Alone == \A q, r \in conf.anchorers : q = r
LastSeq == IF anchors = <<>> THEN 0 ELSE anchors[Len(anchors)].seq

\* What the one job relies on: what follows the row it has read is events, and
\* what it is about to anchor, or to record, is news.
JobInv(r) ==
    /\ anchor[r] # Idle => r \in conf.anchorers /\ Len(log) > 0
    /\ app[r].at = "insert" /\ app[r].act = "anchor" =>
          /\ anchor[r].at = "append" /\ app[r].seq > 1
          /\ app[r].seq = LastSeq + 1 \/ EventIn(log, LastSeq, app[r].seq - 1)
    /\ anchor[r].at = "record" => Len(log) = LastSeq \/ EventIn(log, LastSeq, Len(log))
    /\ anchor[r].at \in {"latest", "token"} =>
          /\ anchor[r].seq >= LastSeq /\ anchor[r].seq > 0 /\ anchor[r].act = log[anchor[r].seq].act
          /\ \A i \in anchor[r].seq + 1 .. Len(log) : log[i].act = "event"
          /\ anchor[r].at = "token" \/ anchor[r].seq >= LastSeq + 2 =>
                EventIn(log, LastSeq, anchor[r].seq)

\* Every anchor of one job has an event of its own, since the one before.
AloneInv ==
    /\ LastSeq <= Len(log)
    /\ \A k \in DOMAIN anchors : anchors[k].seq <= LastSeq
    /\ Len(anchors) <= Cardinality(EventsUpTo(log, LastSeq))
    /\ Len(log) > 0 => log[1].act = "event"
    /\ Len(log) >= LastSeq + 2 => EventIn(log, LastSeq, Len(log))
    /\ \A r \in Replicas : JobInv(r)

-----------------------------------------------------------------------------
(* The log only grows.                                                     *)

\* A row keeps its place and its hash when another is appended.
LEMMA HoldsAfterAppend ==
    ASSUME NEW l \in Seq(Row), NEW row \in Row, NEW n, NEW h, Holds(l, n, h)
    PROVE  Holds(Append(l, row), n, h)
<1>. DEFINE m == Append(l, row)
<1>1. /\ Len(l) \in Nat /\ Len(m) = Len(l) + 1
      /\ \A i \in 1 .. Len(l) : m[i] = l[i]
  OBVIOUS
<1>2. n \in 0 .. Len(m) /\ (n # 0 => m[n] = l[n])
  BY <1>1 DEF Holds
<1>. QED  BY <1>2 DEF Holds, HashIn

\* The hash of a row is a hash.
LEMMA HashType ==
    ASSUME NEW l \in Seq(Row), NEW n \in 0 .. Len(l)
    PROVE  HashIn(l, n) \in Hashes
<1>1. CASE n = 0
  BY <1>1 DEF HashIn, Hashes
<1>2. CASE n # 0
  <2>1. n \in 1 .. Len(l) /\ n \in Nat
    BY <1>2
  <2>2. l[n] \in Row
    BY <2>1
  <2>. QED  BY <1>2, <2>1, <2>2 DEF HashIn, Hashes, Row
<1>. QED  BY <1>1, <1>2

\* What a step does to the log: nothing, or one row more.
Grows == log' = log \/ \E row \in Row : log' = Append(log, row)

\* What the log holds it keeps.
LEMMA HoldsKept ==
    ASSUME log \in Seq(Row), Grows
    PROVE  \A n, h : Holds(log, n, h) => Holds(log', n, h)
<1>1. CASE log' = log
  BY <1>1
<1>2. CASE \E row \in Row : log' = Append(log, row)
  <2>. PICK row \in Row : log' = Append(log, row)
    BY <1>2
  <2>. QED  BY HoldsAfterAppend
<1>. QED  BY <1>1, <1>2 DEF Grows

-----------------------------------------------------------------------------
(* The chain.                                                              *)

LEMMA LogInitially == Init => LogInv
  BY DEF Init, LogInit, LogInv, ChainVerifies, Idle

\* The chain in terms of the log as a value.
LEMMA ChainIn == ChainVerifies <=> \A i \in DOMAIN log : log[i].prev = HashIn(log, i - 1)
  BY DEF ChainVerifies, Hash, HashIn

\* An append that changes no row leaves the chain as it is.
LEMMA LogUntouched ==
    ASSUME LogInv, log' = log, app' \in [Replicas -> {Idle} \union Appending],
           \A r \in Replicas : app'[r].at = "insert" =>
              app'[r].seq > 0 /\ Holds(log, app'[r].seq - 1, app'[r].prev)
    PROVE  LogInv' /\ Grows
<1>1. ChainVerifies'
  BY DEF LogInv, ChainVerifies, Hash
<1>. QED  BY <1>1 DEF LogInv, Grows

\* AppendEvent reads the last row.
LEMMA ReadLastKeepsLog ==
    ASSUME LogInv, NEW r \in Replicas, NEW act \in Actions, ReadLast(r, act), log' = log
    PROVE  LogInv' /\ Grows
<1>. DEFINE new == [at |-> "insert", act |-> act, seq |-> Len(log) + 1,
                    prev |-> HashIn(log, Len(log))]
<1>1. Len(log) \in Nat /\ HashIn(log, Len(log)) \in Hashes
  BY HashType DEF LogInv
<1>2. new \in Appending
  BY <1>1 DEF Appending
<1>3. app' = [app EXCEPT ![r] = new]
  BY DEF ReadLast, Hash, HashIn
<1>4. app' \in [Replicas -> {Idle} \union Appending]
  BY <1>2, <1>3 DEF LogInv
<1>5. ASSUME NEW q \in Replicas, app'[q].at = "insert"
      PROVE  app'[q].seq > 0 /\ Holds(log, app'[q].seq - 1, app'[q].prev)
  <2>1. CASE q = r
    <3>1. app'[q] = new
      BY <2>1, <1>3 DEF LogInv
    <3>. QED  BY <3>1, <1>1 DEF Holds
  <2>2. CASE q # r
    BY <2>2, <1>3, <1>5 DEF LogInv
  <2>. QED  BY <2>1, <2>2
<1>. QED  BY <1>4, <1>5, LogUntouched

\* An append that ends without a row.
LEMMA IdleKeepsLog ==
    ASSUME LogInv, NEW r \in Replicas, app' = [app EXCEPT ![r] = Idle], log' = log
    PROVE  LogInv' /\ Grows
<1>1. app' \in [Replicas -> {Idle} \union Appending]
  BY DEF LogInv
<1>2. \A q \in Replicas : app'[q].at = "insert" => app'[q] = app[q]
  BY DEF LogInv, Idle
<1>. QED  BY <1>1, <1>2, LogUntouched DEF LogInv

\* What a COMMIT that takes effect does to the log and to its append.
LEMMA Committed ==
    ASSUME NEW r \in Replicas, app \in [Replicas -> {Idle} \union Appending], app[r].at = "insert",
           NEW next \in {"hook", "return"}, Commit(r, next)
    PROVE  /\ \E row \in Row : /\ row.prev = app[r].prev /\ row.act = app[r].act
                              /\ log' = Append(log, row)
           /\ app' \in [Replicas -> {Idle} \union Appending]
           /\ app'[r].at \in {"hook", "return"} /\ app'[r] # Idle
           /\ \A q \in Replicas \ {r} : app'[q] = app[q]
<1>. DEFINE row == [by |-> r, act |-> app[r].act, prev |-> app[r].prev, quiet |-> (next = "return")]
            new == [app[r] EXCEPT !.at = next]
<1>1. app[r] \in Appending
  BY DEF Idle
<1>2. row \in Row /\ row.prev = app[r].prev /\ row.act = app[r].act
  BY <1>1 DEF Appending, Row
<1>3. new \in Appending /\ new.at \in {"hook", "return"} /\ new # Idle
  BY <1>1 DEF Appending, Idle
<1>4. log' = Append(log, row) /\ app' = [app EXCEPT ![r] = new]
  BY Zenon DEF Commit
<1>. HIDE DEF row, new
<1>. QED  BY Zenon, <1>2, <1>3, <1>4

\* The insert of the next row.
LEMMA InsertKeepsLog ==
    ASSUME LogInv, NEW r \in Replicas, app[r].at = "insert", app[r].seq \notin DOMAIN log,
           NEW next \in {"hook", "return"}, Commit(r, next)
    PROVE  LogInv' /\ Grows
<1>1. app[r] \in Appending
  BY DEF LogInv, Idle
<1>2. PICK row \in Row : row.prev = app[r].prev /\ log' = Append(log, row)
  BY Zenon, Committed DEF LogInv
<1>3. log \in Seq(Row) /\ Len(log) \in Nat /\ Len(log') = Len(log) + 1
      /\ (\A i \in 1 .. Len(log) : log'[i] = log[i]) /\ log'[Len(log) + 1] = row
      /\ DOMAIN log = 1 .. Len(log) /\ DOMAIN log' = 1 .. Len(log) + 1
  BY <1>2 DEF LogInv
<1>4. Grows /\ log' \in Seq(Row)
  <2>1. Grows
    BY Zenon, <1>2, Zenon DEF Grows
  <2>2. log' \in Seq(Row)
    BY <1>2, <1>3
  <2>. QED  BY <2>1, <2>2
<1>. DEFINE Kept == \A n, h : Holds(log, n, h) => Holds(log', n, h)
<1>5. Kept
  BY <1>3, <1>4, HoldsKept
<1>6. app[r].seq = Len(log) + 1 /\ HashIn(log, Len(log)) = app[r].prev
  BY <1>1, <1>3 DEF LogInv, Holds, Appending
<1>7. /\ app' \in [Replicas -> {Idle} \union Appending] /\ app'[r].at \in {"hook", "return"}
      /\ \A q \in Replicas \ {r} : app'[q] = app[q]
  BY Zenon, Committed DEF LogInv
<1>8. app'[r].at # "insert"
  BY <1>7
<1>9. ASSUME NEW q \in Replicas, app'[q].at = "insert"
      PROVE  app'[q].seq > 0 /\ Holds(log', app'[q].seq - 1, app'[q].prev)
  <2>1. app'[q] = app[q]
    BY Zenon, <1>7, <1>8, <1>9 DEF LogInv
  <2>2. app[q].seq > 0 /\ Holds(log, app[q].seq - 1, app[q].prev)
    BY <1>9, <2>1 DEF LogInv
  <2>. QED  BY <2>1, <2>2, <1>5
<1>10. ChainVerifies'
  <2>1. ASSUME NEW i \in 1 .. Len(log) PROVE log'[i].prev = HashIn(log', i - 1)
    <3>1. Holds(log, i - 1, log[i].prev)
      BY <1>3, ChainIn DEF LogInv, Holds
    <3>. QED  BY <3>1, <1>3, <1>5 DEF Holds
  <2>2. log'[Len(log) + 1].prev = HashIn(log', Len(log))
    <3>1. Holds(log, Len(log), row.prev)
      BY <1>2, <1>3, <1>6 DEF Holds
    <3>. QED  BY <3>1, <1>3, <1>5 DEF Holds
  <2>3. \A i \in DOMAIN log' : log'[i].prev = HashIn(log', i - 1)
    BY <2>1, <2>2, <1>3
  <2>. QED  BY Zenon, <2>3 DEF ChainVerifies, Hash, HashIn
<1>. QED  BY <1>4, <1>7, <1>9, <1>10 DEF LogInv

\* Every step keeps the chain, and the log grows.
LEMMA LogStep == LogInv /\ [Next]_vars => LogInv' /\ Grows
<1>. SUFFICES ASSUME LogInv, [Next]_vars PROVE LogInv' /\ Grows
  OBVIOUS
<1>1. ASSUME NEW r \in Replicas, Record(r) PROVE LogInv' /\ Grows
  BY <1>1, ReadLastKeepsLog DEF Record, Actions
<1>2. ASSUME NEW r \in Replicas, AppendStep(r) PROVE LogInv' /\ Grows
  <2>1. CASE Insert(r) /\ app[r].seq \in DOMAIN log
    BY <2>1, IdleKeepsLog DEF Insert
  <2>2. CASE Insert(r) /\ app[r].seq \notin DOMAIN log
    <3>1. CASE Commit(r, "hook") \/ Commit(r, "return")
      BY Zenon, <2>2, <3>1, InsertKeepsLog DEF Insert
    <3>2. CASE app' = [app EXCEPT ![r] = Idle] /\ log' = log
      BY Zenon, <3>2, IdleKeepsLog
    <3>. QED  BY Zenon, <2>2, <3>1, <3>2 DEF Insert
  <2>3. CASE HookDone(r) \/ ReturnError(r)
    BY Zenon, <2>3, IdleKeepsLog DEF HookDone, ReturnError
  <2>. QED  BY <1>2, <2>1, <2>2, <2>3 DEF AppendStep
<1>3. ASSUME NEW r \in Replicas, RecordAnchor(r) PROVE LogInv' /\ Grows
  <2>1. CASE ReadLast(r, "anchor")
    BY <1>3, <2>1, ReadLastKeepsLog DEF RecordAnchor, Actions
  <2>2. CASE app' = app
    BY <1>3, <2>2, LogUntouched DEF RecordAnchor, LogInv
  <2>. QED  BY <1>3, <2>1, <2>2 DEF RecordAnchor
<1>4. ASSUME NEW r \in Replicas, Crash(r) PROVE LogInv' /\ Grows
  BY Zenon, <1>4, IdleKeepsLog DEF Crash, AppendDies
<1>5. ASSUME UNCHANGED <<log, app>> PROVE LogInv' /\ Grows
  BY <1>5, LogUntouched DEF LogInv
<1>6. ASSUME NEW r \in Replicas, StartWorker(r) \/ StopWorker(r) \/ Export(r)
      PROVE  UNCHANGED <<log, app>>
  BY <1>6 DEF StartWorker, StopWorker, Export, ListEventsSince, Deliver, SetSIEMCursor
<1>7. ASSUME NEW r \in Replicas, EventLogHead(r) \/ LatestAuditAnchor(r) \/ InsertAuditAnchor(r)
      PROVE  UNCHANGED <<log, app>>
  BY <1>7 DEF EventLogHead, LatestAuditAnchor, InsertAuditAnchor
<1>8. ASSUME UNCHANGED vars PROVE UNCHANGED <<log, app>>
  BY <1>8 DEF vars
<1>. QED  BY <1>1, <1>2, <1>3, <1>4, <1>5, <1>6, <1>7, <1>8 DEF Next, Anchor

-----------------------------------------------------------------------------
(* The exporter.                                                           *)

LEMMA ExportInitially == Init => ExportInv
  BY DEF Init, ExportInv, CursorIsCovered, Off, Sending

\* The smaller of two numbers is a number.
LEMMA MinIsNat ==
    ASSUME NEW a \in Nat, NEW b \in Nat PROVE Min({a, b}) \in Nat
<1>1. \E x \in {a, b} : \A y \in {a, b} : x <= y
  <2>1. CASE a <= b
    BY <2>1
  <2>2. CASE b <= a
    BY <2>2
  <2>. QED  BY <2>1, <2>2
<1>2. Min({a, b}) \in {a, b}
  BY <1>1 DEF Min
<1>. QED  BY <1>2

\* A worker that changes keeps the invariant if what it knows is true.
LEMMA WorkerChanges ==
    ASSUME ExportInv, NEW r \in Replicas, NEW w \in {Off} \union Polling \union Sending,
           worker' = [worker EXCEPT ![r] = w],
           cursor' \in Nat, 1 .. cursor' \subseteq delivered',
           delivered' \in SUBSET Nat, delivered \subseteq delivered',
           w # Off => 1 .. w.cur \subseteq delivered',
           w \in Sending => /\ w.batch = w.cur + 1 .. w.to
                            /\ w.at = "save" => w.batch \subseteq delivered'
    PROVE  ExportInv'
<1>1. worker' \in [Replicas -> {Off} \union Polling \union Sending]
  BY DEF ExportInv
<1>2. ASSUME NEW q \in Replicas
      PROVE  /\ worker'[q] # Off => 1 .. worker'[q].cur \subseteq delivered'
             /\ worker'[q] \in Sending =>
                   /\ worker'[q].batch = worker'[q].cur + 1 .. worker'[q].to
                   /\ worker'[q].at = "save" => worker'[q].batch \subseteq delivered'
  <2>1. CASE q = r
    <3>1. worker'[q] = w
      BY <2>1 DEF ExportInv
    <3>. QED  BY <3>1
  <2>2. CASE q # r
    <3>1. worker'[q] = worker[q]
      BY <2>2 DEF ExportInv
    <3>. QED  BY Zenon, <3>1 DEF ExportInv, CursorIsCovered
  <2>. QED  BY <2>1, <2>2
<1>. QED  BY <1>1, <1>2 DEF ExportInv, CursorIsCovered

\* A worker starts at the cursor, or at the genesis, or stops.
LEMMA StartStopKeeps ==
    ASSUME ExportInv, NEW r \in Replicas, NEW w \in {Off} \union Polling,
           worker' = [worker EXCEPT ![r] = w],
           UNCHANGED <<cursor, delivered>>,
           w # Off => 1 .. w.cur \subseteq delivered
    PROVE  ExportInv'
<1>1. w \notin Sending
  BY DEF Off, Polling, Sending
<1>. QED  BY <1>1, WorkerChanges DEF ExportInv, CursorIsCovered

\* What a worker holds while it polls or sends.
LEMMA WorkerKnows ==
    ASSUME ExportInv, NEW r \in Replicas
    PROVE  /\ worker[r].at = "poll" => worker[r] \in Polling /\ 1 .. worker[r].cur \subseteq delivered
           /\ worker[r].at \in {"deliver", "save"} =>
                 /\ worker[r] \in Sending /\ 1 .. worker[r].cur \subseteq delivered
                 /\ worker[r].batch = worker[r].cur + 1 .. worker[r].to
                 /\ worker[r].at = "save" => worker[r].batch \subseteq delivered
  BY DEF ExportInv, CursorIsCovered, Off, Polling, Sending

\* A worker that polls again where it was.
LEMMA PollAgainKeeps ==
    ASSUME ExportInv, NEW r \in Replicas, worker[r] \in Sending,
           1 .. worker[r].cur \subseteq delivered,
           worker' = [worker EXCEPT ![r] = [at |-> "poll", cur |-> worker[r].cur]],
           cursor' = cursor, delivered' \in SUBSET Nat, delivered \subseteq delivered'
    PROVE  ExportInv'
<1>. DEFINE w == [at |-> "poll", cur |-> worker[r].cur]
<1>1. w \in Polling /\ w \notin Sending /\ w.cur = worker[r].cur
  BY DEF Polling, Sending
<1>2. cursor' \in Nat /\ 1 .. cursor' \subseteq delivered'
  BY DEF ExportInv, CursorIsCovered
<1>3. worker' = [worker EXCEPT ![r] = w]
  OBVIOUS
<1>4. 1 .. w.cur \subseteq delivered'
  BY <1>1
<1>. HIDE DEF w
<1>. QED  BY Zenon, <1>1, <1>2, <1>3, <1>4, WorkerChanges

\* MaxEventSeq and ListEventsSince.
LEMMA ListKeeps ==
    ASSUME LogInv, ExportInv, NEW r \in Replicas, ListEventsSince(r)
    PROVE  ExportInv'
<1>. DEFINE to == Min({Len(log), worker[r].cur + BatchSize})
            w == [at |-> "deliver", cur |-> worker[r].cur,
                  batch |-> worker[r].cur + 1 .. to, to |-> to]
<1>1. worker[r] \in Polling /\ worker[r].cur \in Nat /\ 1 .. worker[r].cur \subseteq delivered
  BY WorkerKnows DEF ListEventsSince, Polling
<1>2. to \in Nat
  <2>1. Len(log) \in Nat /\ worker[r].cur + BatchSize \in Nat
    BY <1>1, AuditExportConstants DEF LogInv
  <2>. QED  BY <2>1, MinIsNat
<1>3. worker' = [worker EXCEPT ![r] = w] /\ UNCHANGED <<cursor, delivered>>
  BY DEF ListEventsSince
<1>. HIDE DEF to
<1>4. /\ w \in Sending /\ w.cur = worker[r].cur
      /\ w.batch = w.cur + 1 .. w.to /\ w.at # "save"
  BY <1>1, <1>2 DEF Sending
<1>. HIDE DEF w
<1>. QED  BY <1>1, <1>3, <1>4, WorkerChanges DEF ExportInv, CursorIsCovered

\* Deliver.
LEMMA DeliverKeeps ==
    ASSUME ExportInv, NEW r \in Replicas, Deliver(r)
    PROVE  ExportInv'
<1>1. /\ worker[r] \in Sending /\ 1 .. worker[r].cur \subseteq delivered
      /\ worker[r].batch = worker[r].cur + 1 .. worker[r].to
      /\ worker[r].batch \in SUBSET Nat
  BY WorkerKnows DEF Deliver, Sending
<1>2. /\ delivered' \in SUBSET Nat /\ delivered \subseteq delivered' /\ cursor' = cursor
      /\ cursor' \in Nat /\ 1 .. cursor' \subseteq delivered'
  BY <1>1 DEF Deliver, ExportInv, CursorIsCovered
<1>3. CASE delivered' = delivered \union worker[r].batch /\ worker' = [worker EXCEPT ![r].at = "save"]
  <2>. DEFINE w == [worker[r] EXCEPT !.at = "save"]
  <2>1. /\ w \in Sending /\ w.cur = worker[r].cur
        /\ w.batch = worker[r].batch /\ w.to = worker[r].to
    BY <1>1 DEF Sending
  <2>2. worker' = [worker EXCEPT ![r] = w]
    BY <1>3 DEF ExportInv
  <2>. HIDE DEF w
  <2>. QED  BY Zenon, <1>1, <1>2, <1>3, <2>1, <2>2, WorkerChanges
<1>4. CASE worker' = [worker EXCEPT ![r] = [at |-> "poll", cur |-> worker[r].cur]]
  BY Zenon, <1>1, <1>2, <1>4, PollAgainKeeps
<1>. QED  BY <1>3, <1>4 DEF Deliver

\* SetSIEMCursor: what is saved has been sent.
LEMMA SaveKeeps ==
    ASSUME ExportInv, NEW r \in Replicas, SetSIEMCursor(r)
    PROVE  ExportInv'
<1>1. /\ worker[r] \in Sending /\ 1 .. worker[r].cur \subseteq delivered
      /\ worker[r].cur + 1 .. worker[r].to \subseteq delivered
      /\ worker[r].cur \in Nat /\ worker[r].to \in Nat
  BY WorkerKnows DEF SetSIEMCursor, Sending
<1>2. 1 .. worker[r].to \subseteq delivered
  <2>. SUFFICES ASSUME NEW n \in 1 .. worker[r].to PROVE n \in delivered
    OBVIOUS
  <2>1. n \in 1 .. worker[r].cur \/ n \in worker[r].cur + 1 .. worker[r].to
    BY <1>1
  <2>. QED  BY <1>1, <2>1
<1>3. delivered' = delivered /\ delivered \in SUBSET Nat
  BY DEF SetSIEMCursor, ExportInv
<1>4. CASE cursor' = worker[r].to /\ worker' = [worker EXCEPT ![r] = [at |-> "poll", cur |-> worker[r].to]]
  <2>. DEFINE w == [at |-> "poll", cur |-> worker[r].to]
  <2>1. w \in Polling /\ w \notin Sending /\ w.cur = worker[r].to
    BY <1>1 DEF Polling, Sending
  <2>2. worker' = [worker EXCEPT ![r] = w]
    BY <1>4
  <2>. HIDE DEF w
  <2>. QED  BY Zenon, <1>1, <1>2, <1>3, <1>4, <2>1, <2>2, WorkerChanges
<1>5. CASE cursor' = cursor /\ worker' = [worker EXCEPT ![r] = [at |-> "poll", cur |-> worker[r].cur]]
  BY Zenon, <1>1, <1>3, <1>5, PollAgainKeeps
<1>. QED  BY <1>4, <1>5 DEF SetSIEMCursor

\* Every step keeps what the exporters know.
LEMMA ExportStep == LogInv /\ ExportInv /\ [Next]_vars => ExportInv'
<1>. SUFFICES ASSUME LogInv, ExportInv, [Next]_vars PROVE ExportInv'
  OBVIOUS
<1>1. ASSUME NEW r \in Replicas, StartWorker(r) PROVE ExportInv'
  <2>1. PICK c \in {0, cursor} : worker' = [worker EXCEPT ![r] = [at |-> "poll", cur |-> c]]
    BY <1>1 DEF StartWorker
  <2>. DEFINE w == [at |-> "poll", cur |-> c]
  <2>2. c \in Nat /\ 1 .. c \subseteq delivered
    BY DEF ExportInv, CursorIsCovered
  <2>3. w \in Polling /\ w.cur = c
    BY <2>2 DEF Polling
  <2>4. worker' = [worker EXCEPT ![r] = w] /\ UNCHANGED <<cursor, delivered>>
    BY <1>1, <2>1 DEF StartWorker
  <2>. HIDE DEF w
  <2>. QED  BY Zenon, <2>2, <2>3, <2>4, StartStopKeeps
<1>2. ASSUME NEW r \in Replicas, StopWorker(r) \/ Crash(r) PROVE ExportInv'
  BY <1>2, StartStopKeeps DEF StopWorker, Crash
<1>3. ASSUME NEW r \in Replicas, Export(r) PROVE ExportInv'
  BY <1>3, ListKeeps, DeliverKeeps, SaveKeeps DEF Export
<1>4. ASSUME UNCHANGED siem PROVE ExportInv'
  BY <1>4 DEF siem, ExportInv, CursorIsCovered
<1>5. ASSUME NEW r \in Replicas, Record(r) \/ AppendStep(r) \/ Anchor(r) PROVE UNCHANGED siem
  BY <1>5 DEF Record, AppendStep, Anchor, EventLogHead, LatestAuditAnchor, InsertAuditAnchor,
              RecordAnchor
<1>6. ASSUME UNCHANGED vars PROVE UNCHANGED siem
  BY <1>6 DEF vars
<1>. QED  BY <1>1, <1>2, <1>3, <1>4, <1>5, <1>6 DEF Next

-----------------------------------------------------------------------------
(* The anchors.                                                            *)

LEMMA AnchorInitially == Init => AnchorInv
  BY DEF Init, AnchorInv, AnchorsMatchTheLog, Idle, Anchoring

\* An anchor job that changes keeps the invariant if what it has read is true.
LEMMA AnchorChanges ==
    ASSUME LogInv, AnchorInv, Grows, NEW r \in Replicas,
           NEW w \in {Idle} \union Anchoring \union AnchorTail,
           anchor' = [anchor EXCEPT ![r] = w],
           w \in Anchoring => Holds(log, w.seq, w.hash),
           anchors' = anchors
           \/ \E a \in AnchorRow : Holds(log, a.seq, a.hash) /\ anchors' = Append(anchors, a)
    PROVE  AnchorInv'
<1>1. \A n, h : Holds(log, n, h) => Holds(log', n, h)
  BY HoldsKept DEF LogInv
<1>2. anchor' \in [Replicas -> {Idle} \union Anchoring \union AnchorTail]
  BY DEF AnchorInv
<1>3. ASSUME NEW q \in Replicas, anchor'[q] \in Anchoring
      PROVE  Holds(log', anchor'[q].seq, anchor'[q].hash)
  <2>1. CASE q = r
    <3>1. anchor'[q] = w
      BY <2>1 DEF AnchorInv
    <3>. QED  BY <1>1, <1>3, <3>1
  <2>2. CASE q # r
    <3>1. anchor'[q] = anchor[q]
      BY <2>2 DEF AnchorInv
    <3>. QED  BY <1>1, <1>3, <3>1 DEF AnchorInv
  <2>. QED  BY <2>1, <2>2
<1>4. anchors' \in Seq(AnchorRow) /\ AnchorsMatchTheLog'
  <2>1. CASE anchors' = anchors
    BY Zenon, <1>1, <2>1 DEF AnchorInv, AnchorsMatchTheLog
  <2>2. ASSUME NEW a \in AnchorRow, Holds(log, a.seq, a.hash), anchors' = Append(anchors, a)
        PROVE  anchors' \in Seq(AnchorRow) /\ AnchorsMatchTheLog'
    <3>1. anchors \in Seq(AnchorRow)
      BY Zenon DEF AnchorInv
    <3>2. /\ anchors' \in Seq(AnchorRow)
          /\ \A k \in DOMAIN anchors' : (k \in DOMAIN anchors /\ anchors'[k] = anchors[k]) \/ anchors'[k] = a
      BY <2>2, <3>1
    <3>. QED  BY Zenon, <1>1, <2>2, <3>2 DEF AnchorInv, AnchorsMatchTheLog
  <2>. QED  BY Zenon, <2>1, <2>2
<1>. QED  BY Zenon, <1>2, <1>3, <1>4 DEF AnchorInv

\* A job that forgets what it has read.
LEMMA AnchorForgets ==
    ASSUME LogInv, AnchorInv, Grows, NEW r \in Replicas, NEW w \in {Idle} \union AnchorTail,
           anchor' = [anchor EXCEPT ![r] = w], anchors' = anchors
    PROVE  AnchorInv'
<1>1. w \notin Anchoring
  BY DEF Idle, AnchorTail, Anchoring
<1>. QED  BY Zenon, <1>1, AnchorChanges DEF AnchorInv

\* EventLogHead reads a row that the log holds.
LEMMA HeadKeeps ==
    ASSUME LogInv, AnchorInv, Grows, NEW r \in Replicas, EventLogHead(r)
    PROVE  AnchorInv'
<1>. DEFINE w == [at |-> "latest", seq |-> Len(log), hash |-> HashIn(log, Len(log)),
                  act |-> log[Len(log)].act]
<1>1. Len(log) \in Nat /\ Len(log) # 0 /\ HashIn(log, Len(log)) \in Hashes
  <2>1. log \in Seq(Row) /\ log # <<>>
    BY DEF EventLogHead, LogInv
  <2>2. Len(log) \in Nat /\ Len(log) # 0
    BY <2>1
  <2>. QED  BY <2>1, <2>2, HashType
<1>2. log[Len(log)].act \in Actions
  <2>1. log[Len(log)] \in Row
    BY <1>1 DEF LogInv
  <2>. QED  BY <2>1 DEF Row
<1>3. w \in Anchoring /\ w.seq = Len(log) /\ w.hash = HashIn(log, Len(log))
  BY <1>1, <1>2 DEF Anchoring
<1>4. anchor' = [anchor EXCEPT ![r] = w] /\ anchors' = anchors
  BY DEF EventLogHead, Hash, HashIn
<1>. HIDE DEF w
<1>5. Holds(log, w.seq, w.hash)
  BY <1>1, <1>3 DEF Holds
<1>. QED  BY Zenon, <1>3, <1>4, <1>5, AnchorChanges DEF AnchorInv

\* LatestAuditAnchor: the job ends, or keeps what it has read.
LEMMA LatestKeeps ==
    ASSUME LogInv, AnchorInv, Grows, NEW r \in Replicas, LatestAuditAnchor(r)
    PROVE  AnchorInv'
<1>1. CASE anchor' = [anchor EXCEPT ![r] = Idle]
  BY <1>1, AnchorForgets DEF LatestAuditAnchor
<1>2. CASE anchor' = [anchor EXCEPT ![r] = [anchor[r] EXCEPT !.at = "token"]]
  <2>. DEFINE w == [anchor[r] EXCEPT !.at = "token"]
  <2>1. anchor[r] \in Anchoring
    BY DEF LatestAuditAnchor, AnchorInv, Idle, AnchorTail
  <2>2. w \in Anchoring /\ w.seq = anchor[r].seq /\ w.hash = anchor[r].hash
    BY <2>1 DEF Anchoring
  <2>3. anchor' = [anchor EXCEPT ![r] = w] /\ anchors' = anchors
    BY Zenon, <1>2 DEF LatestAuditAnchor
  <2>4. Holds(log, anchor[r].seq, anchor[r].hash)
    BY <2>1 DEF AnchorInv
  <2>. HIDE DEF w
  <2>. QED  BY Zenon, <2>2, <2>3, <2>4, AnchorChanges DEF AnchorInv
<1>. QED  BY Zenon, <1>1, <1>2 DEF LatestAuditAnchor

\* InsertAuditAnchor stores what was read, not what the head is by now.
LEMMA TokenKeeps ==
    ASSUME LogInv, AnchorInv, Grows, NEW r \in Replicas, InsertAuditAnchor(r)
    PROVE  AnchorInv'
<1>. DEFINE w == [at |-> "record"]
            a == [seq |-> anchor[r].seq, hash |-> anchor[r].hash]
<1>1. anchor[r] \in Anchoring /\ Holds(log, anchor[r].seq, anchor[r].hash)
  BY DEF InsertAuditAnchor, AnchorInv, Idle, AnchorTail
<1>2. w \in AnchorTail /\ w \notin Anchoring
  BY DEF AnchorTail, Anchoring
<1>3. a \in AnchorRow /\ Holds(log, a.seq, a.hash)
  BY <1>1 DEF Anchoring, AnchorRow
<1>4. anchors' = anchors \/ anchors' = Append(anchors, a)
  BY DEF InsertAuditAnchor
<1>5. anchor' = [anchor EXCEPT ![r] = w]
  BY DEF InsertAuditAnchor
<1>. HIDE DEF w, a
<1>. QED  BY Zenon, <1>2, <1>3, <1>4, <1>5, AnchorChanges

\* Every step keeps what the anchor jobs and the anchors say of the log.
LEMMA AnchorStep == LogInv /\ AnchorInv /\ [Next]_vars => AnchorInv'
<1>. SUFFICES ASSUME LogInv, AnchorInv, [Next]_vars PROVE AnchorInv'
  OBVIOUS
<1>1. Grows
  BY LogStep
<1>2. ASSUME NEW r \in Replicas, anchor' = [anchor EXCEPT ![r] = Idle], anchors' = anchors
      PROVE  AnchorInv'
  BY Zenon, <1>1, <1>2, AnchorForgets
<1>3. ASSUME UNCHANGED <<anchor, anchors>> PROVE AnchorInv'
  <2>1. \A n, h : Holds(log, n, h) => Holds(log', n, h)
    BY <1>1, HoldsKept DEF LogInv
  <2>. QED  BY <1>3, <2>1 DEF AnchorInv, AnchorsMatchTheLog
<1>4. ASSUME NEW r \in Replicas, AppendStep(r) PROVE AnchorInv'
  BY <1>2, <1>3, <1>4 DEF AppendStep
<1>5. ASSUME NEW r \in Replicas, Crash(r) PROVE AnchorInv'
  BY Zenon, <1>2, <1>5 DEF Crash
<1>6. ASSUME NEW r \in Replicas, RecordAnchor(r) PROVE AnchorInv'
  <2>1. [at |-> "append"] \in AnchorTail
    BY DEF AnchorTail
  <2>2. CASE anchor' = [anchor EXCEPT ![r] = [at |-> "append"]]
    BY Zenon, <1>1, <1>6, <2>1, <2>2, AnchorForgets DEF RecordAnchor
  <2>. QED  BY <1>2, <1>6, <2>2 DEF RecordAnchor
<1>7. ASSUME NEW r \in Replicas, Record(r) \/ StartWorker(r) \/ StopWorker(r) \/ Export(r)
      PROVE  UNCHANGED <<anchor, anchors>>
  BY <1>7 DEF Record, StartWorker, StopWorker, Export, ListEventsSince, Deliver, SetSIEMCursor,
              anchoring
<1>8. ASSUME UNCHANGED vars PROVE UNCHANGED <<anchor, anchors>>
  BY <1>8 DEF vars, anchoring
<1>. QED  BY <1>1, <1>3, <1>4, <1>5, <1>6, <1>7, <1>8, HeadKeeps, LatestKeeps, TokenKeeps
          DEF Next, Anchor

-----------------------------------------------------------------------------
(* One anchor job.                                                         *)

\* The rows of a log that grows.
LEMMA RowsKept ==
    ASSUME NEW l \in Seq(Row), NEW row \in Row, NEW m \in Nat, NEW n \in 0 .. Len(l)
    PROVE  /\ EventIn(l, m, n) => EventIn(Append(l, row), m, n)
           /\ EventsUpTo(Append(l, row), n) = EventsUpTo(l, n)
           /\ m <= Len(l) /\ row.act = "event" => EventIn(Append(l, row), m, Len(l) + 1)
<1>1. /\ Len(l) \in Nat /\ \A i \in 1 .. Len(l) : Append(l, row)[i] = l[i]
      /\ Append(l, row)[Len(l) + 1] = row
  OBVIOUS
<1>2. \A i : (i \in m + 1 .. n => i \in 1 .. Len(l)) /\ (i \in 1 .. n => i \in 1 .. Len(l))
  BY <1>1
<1>3. m <= Len(l) => Len(l) + 1 \in m + 1 .. Len(l) + 1
  BY <1>1
<1>. QED  BY Zenon, <1>1, <1>2, <1>3 DEF EventIn, EventsUpTo

\* An event after m is one more than there are up to m.
LEMMA OneMore ==
    ASSUME NEW l, NEW m \in Nat, NEW n \in Nat, EventIn(l, m, n), NEW c \in Nat,
           c <= Cardinality(EventsUpTo(l, m))
    PROVE  c + 1 <= Cardinality(EventsUpTo(l, n))
<1>. DEFINE S == EventsUpTo(l, m)
            T == EventsUpTo(l, n)
<1>1. PICK e \in m + 1 .. n : l[e].act = "event"
  BY Zenon DEF EventIn
<1>2. e \notin 1 .. m /\ e \in 1 .. n /\ 1 .. m \subseteq 1 .. n
  BY <1>1
<1>3. e \notin S /\ S \union {e} \subseteq T /\ S \subseteq 1 .. m /\ T \subseteq 1 .. n
  BY Zenon, <1>1, <1>2 DEF EventsUpTo
<1>. HIDE DEF S, T
<1>4. IsFiniteSet(1 .. m) /\ IsFiniteSet(1 .. n)
  BY FS_Interval
<1>5. IsFiniteSet(S) /\ IsFiniteSet(T)
  BY Zenon, <1>3, <1>4, FS_Subset
<1>6. Cardinality(S \union {e}) = Cardinality(S) + 1 /\ IsFiniteSet(S \union {e})
  BY Zenon, <1>3, <1>5, FS_AddElement
<1>7. Cardinality(S \union {e}) <= Cardinality(T)
  BY Zenon, <1>3, <1>5, FS_Subset
<1>8. Cardinality(S) \in Nat /\ Cardinality(T) \in Nat
  BY Zenon, <1>5, FS_CardinalityType
<1>9. c <= Cardinality(S)
  BY Zenon DEF S
<1>10. c + 1 <= Cardinality(T)
  BY <1>6, <1>7, <1>8, <1>9
<1>. QED  BY Zenon, <1>10 DEF T

LEMMA AloneInitially == Init => AloneInv
<1>. SUFFICES ASSUME Init PROVE AloneInv
  OBVIOUS
<1>1. /\ log = <<>> /\ anchors = <<>> /\ LastSeq = 0 /\ Len(log) = 0 /\ Len(anchors) = 0
      /\ DOMAIN anchors = {}
      /\ \A r \in Replicas : anchor[r] = Idle /\ app[r] = Idle
  BY DEF Init, LogInit, LastSeq
<1>2. EventsUpTo(log, 0) = {}
  BY DEF EventsUpTo
<1>3. Cardinality({}) = 0
  BY Zenon, FS_EmptySet
<1>a. Idle.at = "idle"
  BY DEF Idle
<1>4. \A r \in Replicas : JobInv(r)
  BY Zenon, <1>1, <1>a DEF JobInv
<1>. QED  BY <1>1, <1>2, <1>3, <1>4 DEF AloneInv

\* The types of what the job reads.
LEMMA AloneTypes ==
    ASSUME LogInv, AnchorInv
    PROVE  /\ Len(log) \in Nat /\ Len(anchors) \in Nat /\ LastSeq \in Nat
           /\ \A r \in Replicas : anchor[r].at \in {"latest", "token"} =>
                 anchor[r] \in Anchoring /\ anchor[r].seq \in Nat /\ anchor[r].seq <= Len(log)
           /\ \A r \in Replicas : app[r].at = "insert" =>
                 app[r].seq \in Nat /\ app[r].seq > 0 /\ app[r].seq - 1 <= Len(log)
<1>1. log \in Seq(Row) /\ anchors \in Seq(AnchorRow)
  BY Zenon DEF LogInv, AnchorInv
<1>2. Len(log) \in Nat /\ Len(anchors) \in Nat
  BY <1>1
<1>3. LastSeq \in Nat
  <2>1. CASE anchors # <<>>
    <3>1. anchors[Len(anchors)] \in AnchorRow
      BY <1>1, <2>1
    <3>. QED  BY Zenon, <2>1, <3>1 DEF LastSeq, AnchorRow
  <2>. QED  BY <2>1 DEF LastSeq
<1>4. ASSUME NEW r \in Replicas, anchor[r].at \in {"latest", "token"}
      PROVE  anchor[r] \in Anchoring /\ anchor[r].seq \in Nat /\ anchor[r].seq <= Len(log)
  <2>1. anchor[r] \in Anchoring
    BY <1>4 DEF AnchorInv, Idle, AnchorTail
  <2>2. anchor[r].seq \in Nat /\ anchor[r].seq \in 0 .. Len(log)
    BY Zenon, <2>1 DEF AnchorInv, Anchoring, Holds
  <2>. QED  BY <1>2, <2>1, <2>2
<1>5. ASSUME NEW r \in Replicas, app[r].at = "insert"
      PROVE  app[r].seq \in Nat /\ app[r].seq > 0 /\ app[r].seq - 1 <= Len(log)
  <2>1. app[r] \in Appending
    BY <1>5 DEF LogInv, Idle
  <2>2. app[r].seq \in Nat /\ app[r].seq > 0 /\ app[r].seq - 1 \in 0 .. Len(log)
    BY Zenon, <1>5, <2>1 DEF LogInv, Appending, Holds
  <2>. QED  BY <1>2, <2>2
<1>. QED  BY Zenon, <1>2, <1>3, <1>4, <1>5

\* Nothing is appended and nothing is anchored, and one replica moves.
LEMMA JobMoves ==
    ASSUME AloneInv, UNCHANGED <<log, anchors, conf>>, NEW r \in Replicas,
           \A q \in Replicas \ {r} : app'[q] = app[q] /\ anchor'[q] = anchor[q],
           JobInv(r)'
    PROVE  AloneInv'
<1>1. LastSeq' = LastSeq
  BY Zenon DEF LastSeq
<1>2. ASSUME NEW q \in Replicas \ {r} PROVE JobInv(q)'
  <2>1. JobInv(q) /\ app'[q] = app[q] /\ anchor'[q] = anchor[q]
    BY Zenon DEF AloneInv
  <2>. QED  BY <1>1, <2>1 DEF JobInv
<1>. QED  BY Zenon, <1>1, <1>2 DEF AloneInv

\* An append that ends without a row, a job that gives up, and both.
LEMMA JobRests ==
    ASSUME AloneInv, LogInv, AnchorInv, UNCHANGED <<log, anchors, conf>>, NEW r \in Replicas,
           NEW x \in {Idle, app[r]}, app' = [app EXCEPT ![r] = x],
           NEW y \in {Idle, anchor[r]}, anchor' = [anchor EXCEPT ![r] = y],
           x = Idle \/ y = anchor[r] \/ anchor[r].at # "append"
    PROVE  AloneInv'
<1>1. LastSeq' = LastSeq /\ JobInv(r) /\ Idle.at = "idle"
  BY Zenon DEF LastSeq, AloneInv, Idle
<1>2. app'[r] = x /\ anchor'[r] = y
  BY Zenon DEF LogInv, AnchorInv
<1>3. \A q \in Replicas \ {r} : app'[q] = app[q] /\ anchor'[q] = anchor[q]
  BY Zenon DEF LogInv, AnchorInv
<1>4. JobInv(r)'
  BY <1>1, <1>2 DEF JobInv
<1>. QED  BY Zenon, <1>3, <1>4, JobMoves

\* A request or another job records an event.
LEMMA RecordCounts ==
    ASSUME AloneInv, LogInv, NEW r \in Replicas, Record(r)
    PROVE  AloneInv'
<1>1. PICK x : x = [at |-> "insert", act |-> "event", seq |-> Len(log) + 1, prev |-> Hash(Len(log))]
  BY Zenon
<1>2. x.act # "anchor"
  BY <1>1
<1>3. app' = [app EXCEPT ![r] = x] /\ UNCHANGED <<log, anchors, conf, anchor>>
  BY Zenon, <1>1 DEF Record, ReadLast, anchoring
<1>4. app'[r] = x /\ \A q \in Replicas \ {r} : app'[q] = app[q]
  BY Zenon, <1>3 DEF LogInv
<1>5. LastSeq' = LastSeq /\ JobInv(r)
  BY Zenon, <1>3 DEF LastSeq, AloneInv
<1>6. JobInv(r)'
  BY <1>2, <1>3, <1>4, <1>5 DEF JobInv
<1>. QED  BY Zenon, <1>3, <1>4, <1>6, JobMoves

\* A row is inserted: an event, or the record of the one job.
LEMMA RowCounts ==
    ASSUME AloneInv, LogInv, AnchorInv, Alone, NEW r \in Replicas, app[r].at = "insert",
           app[r].seq \notin DOMAIN log, UNCHANGED <<anchors, anchor, conf>>,
           NEW next \in {"hook", "return"}, Commit(r, next)
    PROVE  AloneInv'
<1>1. app[r] \in Appending
  BY DEF LogInv, Idle
<1>2. PICK row \in Row : row.act = app[r].act /\ log' = Append(log, row)
  BY Zenon, Committed DEF LogInv
<1>3. /\ log \in Seq(Row) /\ Len(log) \in Nat /\ Len(log') = Len(log) + 1
      /\ (\A i \in 1 .. Len(log) : log'[i] = log[i]) /\ log'[Len(log) + 1] = row
  BY <1>2 DEF LogInv
<1>4. app[r].seq = Len(log) + 1
  BY <1>1, <1>3 DEF LogInv, Holds, Appending
<1>5. /\ LastSeq' = LastSeq /\ LastSeq \in Nat /\ LastSeq <= Len(log)
      /\ \A q \in Replicas : JobInv(q)
  BY Zenon, AloneTypes DEF LastSeq, AloneInv
<1>6. /\ EventsUpTo(log', LastSeq) = EventsUpTo(log, LastSeq)
      /\ \A n \in 0 .. Len(log) : EventIn(log, LastSeq, n) => EventIn(log', LastSeq, n)
      /\ row.act = "event" => EventIn(log', LastSeq, Len(log) + 1)
  <2>1. LastSeq \in 0 .. Len(log)
    BY <1>3, <1>5
  <2>2. EventsUpTo(log', LastSeq) = EventsUpTo(log, LastSeq)
    BY <1>2, <1>3, <1>5, <2>1, RowsKept
  <2>3. row.act = "event" => EventIn(log', LastSeq, Len(log) + 1)
    BY Zenon, <1>2, <1>3, <1>5, <2>1, RowsKept
  <2>4. ASSUME NEW n \in 0 .. Len(log), EventIn(log, LastSeq, n) PROVE EventIn(log', LastSeq, n)
    BY Zenon, <1>2, <1>3, <1>5, <2>4, RowsKept
  <2>. QED  BY Zenon, <2>2, <2>3, <2>4
<1>7. \A n : EventIn(log, LastSeq, n) /\ n = Len(log) => EventIn(log', LastSeq, Len(log) + 1)
  BY <1>3, <1>5 DEF EventIn
<1>8. \/ row.act = "event"
      \/ /\ row.act = "anchor" /\ anchor[r].at = "append" /\ Len(log) > 0
         /\ Len(log) = LastSeq \/ EventIn(log, LastSeq, Len(log))
         /\ \A q \in Replicas : anchor[q] # Idle => q = r
  <2>1. row.act \in {"event", "anchor"}
    BY Zenon DEF Row, Actions
  <2>2. CASE row.act = "anchor"
    <3>1. /\ anchor[r].at = "append" /\ app[r].seq > 1
          /\ app[r].seq = LastSeq + 1 \/ EventIn(log, LastSeq, app[r].seq - 1)
      BY Zenon, <1>2, <1>5, <2>2 DEF JobInv
    <3>2. Len(log) > 0 /\ app[r].seq - 1 = Len(log) /\ (app[r].seq = LastSeq + 1 => Len(log) = LastSeq)
      BY <1>3, <1>4, <1>5, <3>1
    <3>3. \A q \in Replicas : anchor[q] # Idle => q = r
      <4>1. anchor[r] # Idle
        BY <3>1 DEF Idle
      <4>. QED  BY Zenon, <1>5, <4>1 DEF JobInv, Alone
    <3>. QED  BY Zenon, <2>2, <3>1, <3>2, <3>3
  <2>. QED  BY Zenon, <2>1, <2>2
<1>9. /\ log'[1].act = "event"
      /\ Len(log) + 1 >= LastSeq + 2 => EventIn(log', LastSeq, Len(log) + 1)
  <2>1. CASE Len(log) = 0
    BY <1>3, <1>5, <1>8, <2>1
  <2>2. CASE Len(log) > 0
    <3>1. log[1].act = "event" /\ log'[1] = log[1]
      BY <1>3, <2>2 DEF AloneInv
    <3>2. Len(log) + 1 >= LastSeq + 2 => Len(log) # LastSeq
      BY <1>3, <1>5
    <3>. QED  BY Zenon, <1>6, <1>7, <1>8, <3>1, <3>2
  <2>. QED  BY <1>3, <2>1, <2>2
<1>10. ASSUME NEW q \in Replicas PROVE JobInv(q)'
  <2>1. app'[q].at = "insert" => q # r /\ app'[q] = app[q]
    <3>1. app'[r].at \in {"hook", "return"} /\ (q # r => app'[q] = app[q])
      BY Zenon, Committed DEF LogInv
    <3>. QED  BY <3>1
  <2>2. JobInv(q) /\ Idle.at = "idle" /\ Len(log) + 1 > 0
    BY <1>3, <1>5 DEF Idle
  <2>3. app[q].at = "insert" => app[q].seq - 1 \in 0 .. Len(log)
    BY <1>3, AloneTypes
  <2>4. anchor[q].at = "record" => EventIn(log', LastSeq, Len(log) + 1)
    BY Zenon, <1>6, <1>8, <2>2
  <2>5. ASSUME anchor[q].at \in {"latest", "token"}
        PROVE  /\ anchor[q].act = log'[anchor[q].seq].act
               /\ \A i \in anchor[q].seq + 1 .. Len(log) + 1 : log'[i].act = "event"
               /\ EventIn(log, LastSeq, anchor[q].seq) => EventIn(log', LastSeq, anchor[q].seq)
    <3>1. anchor[q].seq \in Nat /\ anchor[q].seq <= Len(log) /\ anchor[q].seq > 0
      BY Zenon, <2>2, <2>5, AloneTypes DEF JobInv
    <3>2. row.act = "event"
      BY Zenon, <1>8, <2>2, <2>5
    <3>3. /\ anchor[q].act = log[anchor[q].seq].act
          /\ \A i \in anchor[q].seq + 1 .. Len(log) : log[i].act = "event"
      BY Zenon, <2>2, <2>5 DEF JobInv
    <3>4. anchor[q].seq \in 0 .. Len(log) /\ anchor[q].seq \in 1 .. Len(log)
      BY <1>3, <3>1
    <3>5. \A i \in anchor[q].seq + 1 .. Len(log) + 1 :
             \/ i = Len(log) + 1
             \/ i \in anchor[q].seq + 1 .. Len(log) /\ i \in 1 .. Len(log)
      BY <1>3, <3>1
    <3>. QED  BY Zenon, <1>3, <1>6, <3>2, <3>3, <3>4, <3>5
  <2>. QED  BY Zenon, <1>3, <1>5, <1>6, <2>1, <2>2, <2>3, <2>4, <2>5 DEF JobInv
<1>11. LastSeq <= Len(log) + 1
  BY <1>3, <1>5
<1>. QED  BY Zenon, <1>3, <1>5, <1>6, <1>9, <1>10, <1>11 DEF AloneInv

\* EventLogHead: no row follows the head.
LEMMA HeadCounts ==
    ASSUME AloneInv, LogInv, AnchorInv, NEW r \in Replicas, EventLogHead(r)
    PROVE  AloneInv'
<1>1. PICK y : y = [at |-> "latest", seq |-> Len(log), hash |-> Hash(Len(log)),
                    act |-> log[Len(log)].act]
  BY Zenon
<1>2. y.at = "latest" /\ y.seq = Len(log) /\ y.act = log[Len(log)].act
  BY Zenon, <1>1
<1>3. /\ UNCHANGED <<log, anchors, conf, app>> /\ anchor' = [anchor EXCEPT ![r] = y]
      /\ r \in conf.anchorers /\ log # <<>> /\ anchor[r].at # "append"
  <2>1. Idle.at # "append"
    BY Zenon DEF Idle
  <2>. QED  BY Zenon, <1>1, <2>1 DEF EventLogHead
<1>4. anchor'[r] = y /\ \A q \in Replicas \ {r} : anchor'[q] = anchor[q]
  BY Zenon, <1>3 DEF AnchorInv
<1>5. /\ LastSeq' = LastSeq /\ LastSeq \in Nat /\ LastSeq <= Len(log) /\ JobInv(r)
      /\ Len(log) >= LastSeq + 2 => EventIn(log, LastSeq, Len(log))
  BY Zenon, <1>3, AloneTypes DEF LastSeq, AloneInv
<1>6. Len(log) > 0 /\ Len(log) >= LastSeq /\ Len(log) + 1 .. Len(log) = {}
  <2>1. log \in Seq(Row)
    BY Zenon DEF LogInv
  <2>. QED  BY <1>3, <1>5, <2>1
<1>7. JobInv(r)'
  BY Zenon, <1>2, <1>3, <1>4, <1>5, <1>6 DEF JobInv
<1>. QED  BY Zenon, <1>3, <1>4, <1>7, JobMoves

\* LatestAuditAnchor: the job goes on only if an event follows its last anchor.
LEMMA LatestCounts ==
    ASSUME AloneInv, LogInv, AnchorInv, NEW r \in Replicas, LatestAuditAnchor(r)
    PROVE  AloneInv'
<1>1. UNCHANGED <<log, anchors, conf, app>> /\ anchor[r].at = "latest"
  BY Zenon DEF LatestAuditAnchor
<1>2. app' = [app EXCEPT ![r] = app[r]]
  BY <1>1 DEF LogInv
<1>3. CASE anchor' = [anchor EXCEPT ![r] = Idle]
  BY Zenon, <1>1, <1>2, <1>3, JobRests
<1>4. CASE /\ anchor' = [anchor EXCEPT ![r] = [anchor[r] EXCEPT !.at = "token"]]
           /\ ~ \E k \in DOMAIN anchors : /\ \A j \in DOMAIN anchors : anchors[j].seq <= anchors[k].seq
                                          /\ NothingNew(anchor[r], anchors[k])
  <2>1. PICK y : y = [anchor[r] EXCEPT !.at = "token"]
    BY Zenon
  <2>2. /\ anchor[r] \in Anchoring /\ anchor[r].seq \in Nat /\ anchor[r].seq <= Len(log)
        /\ LastSeq \in Nat /\ Len(log) \in Nat
    BY Zenon, <1>1, AloneTypes
  <2>3. y.at = "token" /\ y.seq = anchor[r].seq /\ y.act = anchor[r].act
    BY Zenon, <2>1, <2>2 DEF Anchoring
  <2>4. anchor'[r] = y /\ \A q \in Replicas \ {r} : anchor'[q] = anchor[q]
    BY Zenon, <1>4, <2>1 DEF AnchorInv
  <2>5. LastSeq' = LastSeq /\ JobInv(r)
    BY Zenon, <1>1 DEF LastSeq, AloneInv
  <2>6. /\ anchor[r].seq >= LastSeq /\ anchor[r].seq > 0 /\ anchor[r].act = log[anchor[r].seq].act
        /\ anchor[r].seq >= LastSeq + 2 => EventIn(log, LastSeq, anchor[r].seq)
    BY Zenon, <1>1, <2>5 DEF JobInv
  <2>7. EventIn(log, LastSeq, anchor[r].seq)
    <3>1. CASE anchors = <<>>
      <4>1. LastSeq = 0 /\ 1 \in 0 + 1 .. anchor[r].seq /\ Len(log) > 0
        BY <2>2, <2>6, <3>1 DEF LastSeq
      <4>2. log[1].act = "event"
        BY Zenon, <4>1 DEF AloneInv
      <4>. QED  BY Zenon, <4>1, <4>2 DEF EventIn
    <3>2. CASE anchors # <<>>
      <4>1. PICK k \in DOMAIN anchors : LastSeq = anchors[k].seq
        <5>1. Len(anchors) \in DOMAIN anchors
          BY <3>2 DEF AnchorInv
        <5>. QED  BY Zenon, <3>2, <5>1 DEF LastSeq
      <4>2. ~NothingNew(anchor[r], anchors[k])
        BY Zenon, <1>4, <4>1 DEF AloneInv
      <4>3. anchor[r].seq # LastSeq
        <5>1. Holds(log, anchors[k].seq, anchors[k].hash) /\ Holds(log, anchor[r].seq, anchor[r].hash)
          BY Zenon, <2>2 DEF AnchorInv, AnchorsMatchTheLog
        <5>. QED  BY Zenon, <4>1, <4>2, <5>1 DEF NothingNew, Holds
      <4>4. anchor[r].seq = LastSeq + 1 => log[anchor[r].seq].act = "event"
        <5>1. anchor[r].act \in {"event", "anchor"}
          BY Zenon, <2>2 DEF Anchoring, Actions
        <5>. QED  BY Zenon, <2>6, <4>1, <4>2, <5>1 DEF NothingNew
      <4>5. anchor[r].seq = LastSeq + 1 => anchor[r].seq \in LastSeq + 1 .. anchor[r].seq
        BY <2>2
      <4>6. anchor[r].seq = LastSeq + 1 \/ anchor[r].seq >= LastSeq + 2
        BY <2>2, <2>6, <4>3
      <4>. QED  BY Zenon, <2>6, <4>4, <4>5, <4>6 DEF EventIn
    <3>. QED  BY Zenon, <3>1, <3>2
  <2>8. JobInv(r)'
    <3>1. \A i \in anchor[r].seq + 1 .. Len(log) : log[i].act = "event"
      BY Zenon, <1>1, <2>5 DEF JobInv
    <3>2. r \in conf.anchorers /\ Len(log) > 0 /\ ~(app[r].at = "insert" /\ app[r].act = "anchor")
      <4>1. anchor[r] # Idle
        BY <1>1 DEF Idle
      <4>. QED  BY Zenon, <1>1, <2>5, <4>1 DEF JobInv
    <3>. QED  BY Zenon, <1>1, <2>3, <2>4, <2>5, <2>6, <2>7, <3>1, <3>2 DEF JobInv
  <2>. QED  BY Zenon, <1>1, <2>4, <2>8, JobMoves
<1>. QED  BY Zenon, <1>3, <1>4 DEF LatestAuditAnchor

\* InsertAuditAnchor: the anchor has an event that no other anchor has.
LEMMA TokenCounts ==
    ASSUME AloneInv, LogInv, AnchorInv, Alone, NEW r \in Replicas, InsertAuditAnchor(r)
    PROVE  AloneInv'
<1>1. PICK y : y = [at |-> "record"]
  BY Zenon
<1>2. UNCHANGED <<log, conf, app>> /\ anchor[r].at = "token" /\ anchor' = [anchor EXCEPT ![r] = y]
  BY Zenon, <1>1 DEF InsertAuditAnchor
<1>3. y.at = "record" /\ Idle.at = "idle"
  BY Zenon, <1>1 DEF Idle
<1>4. anchor'[r] = y /\ \A q \in Replicas \ {r} : anchor'[q] = anchor[q]
  BY Zenon, <1>2 DEF AnchorInv
<1>5. /\ anchor[r] \in Anchoring /\ anchor[r].seq \in Nat /\ anchor[r].seq <= Len(log)
      /\ LastSeq \in Nat /\ Len(log) \in Nat /\ Len(anchors) \in Nat
  BY Zenon, <1>2, AloneTypes
<1>6. JobInv(r) /\ anchor[r] # Idle /\ LastSeq <= Len(log)
  <2>1. anchor[r] # Idle
    BY <1>2 DEF Idle
  <2>. QED  BY Zenon, <2>1 DEF AloneInv
<1>7. /\ r \in conf.anchorers /\ Len(log) > 0 /\ ~(app[r].at = "insert" /\ app[r].act = "anchor")
      /\ EventIn(log, LastSeq, anchor[r].seq) /\ anchor[r].seq >= LastSeq
      /\ \A i \in anchor[r].seq + 1 .. Len(log) : log[i].act = "event"
  BY Zenon, <1>2, <1>6 DEF JobInv
<1>8. CASE anchors' = anchors
  <2>1. LastSeq' = LastSeq
    BY Zenon, <1>8 DEF LastSeq
  <2>2. EventIn(log, LastSeq, Len(log))
    BY <1>5, <1>7 DEF EventIn
  <2>3. JobInv(r)'
    BY Zenon, <1>2, <1>3, <1>4, <1>7, <2>1, <2>2 DEF JobInv
  <2>. QED  BY Zenon, <1>2, <1>4, <1>8, <2>3, JobMoves
<1>9. CASE anchors' = Append(anchors, [seq |-> anchor[r].seq, hash |-> anchor[r].hash])
  <2>1. PICK a : a = [seq |-> anchor[r].seq, hash |-> anchor[r].hash]
    BY Zenon
  <2>2. a \in AnchorRow /\ a.seq = anchor[r].seq
    BY <1>5, <2>1 DEF Anchoring, AnchorRow
  <2>3. /\ Len(anchors') = Len(anchors) + 1 /\ LastSeq' = anchor[r].seq
        /\ \A k \in DOMAIN anchors' : (k \in DOMAIN anchors /\ anchors'[k] = anchors[k]) \/ anchors'[k] = a
    <3>1. anchors \in Seq(AnchorRow) /\ anchors' = Append(anchors, a)
      BY Zenon, <1>9, <2>1 DEF AnchorInv
    <3>2. /\ Len(anchors') = Len(anchors) + 1 /\ anchors'[Len(anchors')] = a /\ anchors' # <<>>
          /\ \A k \in DOMAIN anchors' : (k \in DOMAIN anchors /\ anchors'[k] = anchors[k]) \/ anchors'[k] = a
      BY <2>2, <3>1
    <3>. QED  BY Zenon, <2>2, <3>2 DEF LastSeq
  <2>4. \A k \in DOMAIN anchors' : anchors'[k].seq <= anchor[r].seq
    <3>1. \A k \in DOMAIN anchors : anchors[k].seq <= LastSeq /\ anchors[k].seq \in Nat
      <4>1. \A k \in DOMAIN anchors : anchors[k] \in AnchorRow
        BY DEF AnchorInv
      <4>. QED  BY Zenon, <4>1 DEF AloneInv, AnchorRow
    <3>2. \A n \in Nat : n <= LastSeq => n <= anchor[r].seq
      BY <1>5, <1>7
    <3>3. anchor[r].seq <= anchor[r].seq
      BY <1>5
    <3>. QED  BY Zenon, <2>2, <2>3, <3>1, <3>2, <3>3
  <2>5. Len(anchors) + 1 <= Cardinality(EventsUpTo(log, anchor[r].seq))
    <3>1. Len(anchors) <= Cardinality(EventsUpTo(log, LastSeq))
      BY Zenon DEF AloneInv
    <3>. QED  BY Zenon, <1>5, <1>7, <3>1, OneMore
  <2>6. Len(log) = anchor[r].seq \/ EventIn(log, anchor[r].seq, Len(log))
    <3>1. Len(log) = anchor[r].seq \/ Len(log) \in anchor[r].seq + 1 .. Len(log)
      BY <1>5
    <3>. QED  BY Zenon, <1>7, <3>1 DEF EventIn
  <2>7. Len(log) >= anchor[r].seq + 2 => EventIn(log, anchor[r].seq, Len(log))
    <3>1. Len(log) >= anchor[r].seq + 2 => Len(log) # anchor[r].seq
      BY <1>5
    <3>. QED  BY Zenon, <2>6, <3>1
  <2>8. JobInv(r)'
    BY Zenon, <1>2, <1>3, <1>4, <1>7, <2>3, <2>6 DEF JobInv
  <2>9. ASSUME NEW q \in Replicas \ {r} PROVE JobInv(q)'
    <3>1. JobInv(q)
      BY Zenon DEF AloneInv
    <3>2. anchor[q] = Idle
      BY Zenon, <1>7, <3>1 DEF JobInv, Alone
    <3>3. ~(app[q].at = "insert" /\ app[q].act = "anchor")
      BY Zenon, <1>3, <3>1, <3>2 DEF JobInv
    <3>. QED  BY Zenon, <1>2, <1>3, <1>4, <3>2, <3>3 DEF JobInv
  <2>10. Len(log) > 0 => log[1].act = "event"
    BY Zenon DEF AloneInv
  <2>. QED  BY Zenon, <1>2, <1>5, <2>3, <2>4, <2>5, <2>7, <2>8, <2>9, <2>10 DEF AloneInv
<1>. QED  BY Zenon, <1>8, <1>9 DEF InsertAuditAnchor

\* record: nothing but events has followed what was anchored.
LEMMA RecordAnchorCounts ==
    ASSUME AloneInv, LogInv, AnchorInv, NEW r \in Replicas, RecordAnchor(r)
    PROVE  AloneInv'
<1>1. UNCHANGED <<log, anchors, conf>> /\ anchor[r].at = "record"
  BY Zenon DEF RecordAnchor
<1>2. CASE anchor' = [anchor EXCEPT ![r] = Idle] /\ app' = app
  <2>1. app' = [app EXCEPT ![r] = app[r]]
    BY <1>2 DEF LogInv
  <2>. QED  BY Zenon, <1>1, <1>2, <2>1, JobRests
<1>3. CASE anchor' = [anchor EXCEPT ![r] = [at |-> "append"]] /\ ReadLast(r, "anchor")
  <2>1. PICK y : y = [at |-> "append"]
    BY Zenon
  <2>2. PICK x : x = [at |-> "insert", act |-> "anchor", seq |-> Len(log) + 1, prev |-> Hash(Len(log))]
    BY Zenon
  <2>3. y.at = "append" /\ x.seq = Len(log) + 1
    BY Zenon, <2>1, <2>2
  <2>4. anchor'[r] = y /\ app'[r] = x
    BY Zenon, <1>3, <2>1, <2>2 DEF AnchorInv, LogInv, ReadLast
  <2>5. \A q \in Replicas \ {r} : anchor'[q] = anchor[q] /\ app'[q] = app[q]
    BY Zenon, <1>3 DEF AnchorInv, LogInv, ReadLast
  <2>6. LastSeq' = LastSeq /\ JobInv(r) /\ anchor[r] # Idle /\ Len(log) \in Nat
    <3>1. anchor[r] # Idle
      BY <1>1 DEF Idle
    <3>. QED  BY Zenon, <1>1, <3>1, AloneTypes DEF LastSeq, AloneInv
  <2>7. /\ r \in conf.anchorers /\ Len(log) > 0
        /\ Len(log) = LastSeq \/ EventIn(log, LastSeq, Len(log))
    BY Zenon, <1>1, <2>6 DEF JobInv
  <2>8. x.seq > 1 /\ (x.seq = LastSeq + 1 \/ EventIn(log, LastSeq, x.seq - 1))
    <3>2. x.seq - 1 = Len(log) /\ x.seq > 1
      BY <2>3, <2>6, <2>7
    <3>3. CASE Len(log) = LastSeq
      BY Zenon, <2>3, <3>2, <3>3
    <3>4. CASE EventIn(log, LastSeq, Len(log))
      BY Zenon, <3>2, <3>4
    <3>. QED  BY Zenon, <2>7, <3>3, <3>4
  <2>9. JobInv(r)'
    BY Zenon, <1>1, <2>3, <2>4, <2>6, <2>7, <2>8 DEF JobInv
  <2>. QED  BY Zenon, <1>1, <2>5, <2>9, JobMoves
<1>. QED  BY Zenon, <1>2, <1>3 DEF RecordAnchor

\* An append ends: a row more, or none.
LEMMA AppendCounts ==
    ASSUME AloneInv, LogInv, AnchorInv, Alone, NEW r \in Replicas, AppendStep(r)
    PROVE  AloneInv'
<1>1. UNCHANGED <<anchors, conf>> /\ (anchor' = anchor \/ anchor' = [anchor EXCEPT ![r] = Idle])
  BY Zenon DEF AppendStep
<1>2. CASE app' = [app EXCEPT ![r] = Idle] /\ log' = log
  <2>1. anchor = [anchor EXCEPT ![r] = anchor[r]]
    BY DEF AnchorInv
  <2>2. PICK y \in {Idle, anchor[r]} : anchor' = [anchor EXCEPT ![r] = y]
    BY Zenon, <1>1, <2>1
  <2>. QED  BY Zenon, <1>1, <1>2, <2>2, JobRests
<1>3. ASSUME app[r].at = "insert", app[r].seq \notin DOMAIN log,
             NEW next \in {"hook", "return"}, Commit(r, next)
      PROVE  AloneInv'
  <2>1. app'[r] # Idle
    BY Zenon, <1>3, Committed DEF LogInv
  <2>2. anchor' = anchor
    BY Zenon, <2>1 DEF AppendStep
  <2>. QED  BY Zenon, <1>1, <1>3, <2>2, RowCounts
<1>. QED  BY Zenon, <1>2, <1>3 DEF AppendStep, Insert, HookDone, ReturnError

LEMMA ConfStays == [Next]_vars => conf' = conf
  BY Zenon DEF Next, vars, Record, AppendStep, StartWorker, StopWorker, Export, ListEventsSince,
     Deliver, SetSIEMCursor, Anchor, EventLogHead, LatestAuditAnchor, InsertAuditAnchor,
     RecordAnchor, Crash

LEMMA AloneStep ==
    ASSUME LogInv, AnchorInv, Alone, AloneInv, [Next]_vars
    PROVE  AloneInv' /\ Alone'
<1>1. ASSUME UNCHANGED <<log, app, anchors, anchor, conf>> PROVE AloneInv'
  <2>1. LastSeq' = LastSeq
    BY Zenon, <1>1 DEF LastSeq
  <2>. QED  BY Zenon, <1>1, <2>1 DEF AloneInv, JobInv
<1>2. ASSUME NEW r \in Replicas, StartWorker(r) \/ StopWorker(r) \/ Export(r)
      PROVE  UNCHANGED <<log, app, anchors, anchor, conf>>
  BY Zenon, <1>2 DEF StartWorker, StopWorker, Export, ListEventsSince, Deliver, SetSIEMCursor, anchoring
<1>3. ASSUME NEW r \in Replicas, Crash(r) PROVE AloneInv'
  BY Zenon, <1>3, JobRests DEF Crash, AppendDies
<1>4. UNCHANGED vars => UNCHANGED <<log, app, anchors, anchor, conf>>
  BY Zenon DEF vars, anchoring
<1>5. AloneInv'
  BY Zenon, <1>1, <1>2, <1>3, <1>4, RecordCounts, AppendCounts, HeadCounts, LatestCounts,
     TokenCounts, RecordAnchorCounts DEF Next, Anchor
<1>. QED  BY Zenon, <1>5, ConfStays DEF Alone

-----------------------------------------------------------------------------
(* The theorems.                                                           *)

\* The inductive invariant: the chain, what the exporters and what the anchor
\* jobs know of it.  AloneInv is added where there is one anchor job.
IInv == LogInv /\ ExportInv /\ AnchorInv

LEMMA Invariance == Spec => []IInv
<1>1. Init => IInv
  BY LogInitially, ExportInitially, AnchorInitially DEF IInv
<1>2. IInv /\ [Next]_vars => IInv'
  BY LogStep, ExportStep, AnchorStep DEF IInv
<1>. QED  BY <1>1, <1>2, PTL DEF Spec

\* However many replicas append, and whichever of them fail or die in between,
\* the log is one hash chain (AppendEvent, VerifyFullChain).
THEOREM ChainIsOne == Spec => []ChainVerifies
<1>1. IInv => ChainVerifies
  BY DEF IInv, LogInv
<1>. QED  BY <1>1, Invariance, PTL

\* However many exporters overlap, fail and restart, nothing at or below the
\* durable cursor, or the cursor of a running worker, was left out (runWorker,
\* SetSIEMCursor).
THEOREM ExportLosesNothing == Spec => []CursorIsCovered
<1>1. IInv => CursorIsCovered
  BY DEF IInv, ExportInv
<1>. QED  BY <1>1, Invariance, PTL

\* However the log grows while a time stamp is fetched, every anchor is of a row
\* that the log holds, with the hash of that row; and one anchor job, whatever
\* fails or dies, takes no more anchors than there are other events (AnchorOnce).
THEOREM AnchorsHold == Spec => []AnchorsAreSound
<1>1. conf \in Scenarios /\ [Next]_vars => (conf \in Scenarios)'
  BY Zenon, ConfStays
<1>2. Init => conf \in Scenarios
  BY Zenon DEF Init
<1>3. LogInv /\ AnchorInv /\ (Alone => AloneInv) /\ [Next]_vars => (Alone => AloneInv)'
  <2>1. Alone' /\ [Next]_vars => Alone
    BY Zenon, ConfStays DEF Alone
  <2>. QED  BY Zenon, <2>1, AloneStep
<1>4. IInv => LogInv /\ AnchorInv
  BY Zenon DEF IInv
<1>5. conf \in Scenarios /\ LogInv /\ AnchorInv /\ (Alone => AloneInv) => AnchorsAreSound
  <2>. SUFFICES ASSUME conf \in Scenarios, LogInv, AnchorInv, Alone => AloneInv
                PROVE  AnchorsAreSound
    BY Zenon
  <2>1. ASSUME NEW k \in DOMAIN anchors
        PROVE  anchors[k].seq <= Len(log) /\ Hash(anchors[k].seq) = anchors[k].hash
    <3>1. Holds(log, anchors[k].seq, anchors[k].hash) /\ Len(log) \in Nat
      BY Zenon, <2>1, AloneTypes DEF AnchorInv, AnchorsMatchTheLog
    <3>. QED  BY <3>1 DEF Holds, HashIn, Hash
  <2>2. ASSUME Cardinality(conf.anchorers) = 1
        PROVE  Len(anchors) <= Cardinality({i \in DOMAIN log : log[i].act = "event"})
    <3>1. Alone
      <4>1. conf.anchorers \in SUBSET Replicas
        BY Zenon, AuditExportConstants
      <4>2. IsFiniteSet(conf.anchorers)
        BY Zenon, <4>1, FS_Subset, AuditLogConstants
      <4>3. \E x : conf.anchorers = {x}
        BY Zenon, <2>2, <4>2, FS_Singleton
      <4>. QED  BY Zenon, <4>3 DEF Alone
    <3>2. /\ Len(anchors) <= Cardinality(EventsUpTo(log, LastSeq)) /\ LastSeq <= Len(log)
          /\ Len(log) \in Nat /\ LastSeq \in Nat /\ Len(anchors) \in Nat
      BY Zenon, <3>1, AloneTypes DEF AloneInv
    <3>3. PICK E : E = {i \in DOMAIN log : log[i].act = "event"}
      BY Zenon
    <3>4. EventsUpTo(log, LastSeq) \subseteq E /\ E \subseteq 1 .. Len(log)
      <4>1. DOMAIN log = 1 .. Len(log) /\ 1 .. LastSeq \subseteq DOMAIN log
        BY <3>2 DEF LogInv
      <4>2. E \subseteq DOMAIN log
        BY Zenon, <3>3
      <4>3. ASSUME NEW i \in EventsUpTo(log, LastSeq) PROVE i \in E
        <5>1. i \in 1 .. LastSeq /\ log[i].act = "event"
          BY Zenon, <4>3 DEF EventsUpTo
        <5>2. i \in DOMAIN log
          BY <4>1, <5>1
        <5>. QED  BY Zenon, <3>3, <5>1, <5>2
      <4>. QED  BY <4>1, <4>2, <4>3
    <3>5. IsFiniteSet(1 .. Len(log))
      BY <3>2, FS_Interval
    <3>6. /\ Cardinality(EventsUpTo(log, LastSeq)) <= Cardinality(E)
          /\ IsFiniteSet(E) /\ IsFiniteSet(EventsUpTo(log, LastSeq))
      BY Zenon, <3>4, <3>5, FS_Subset
    <3>7. Cardinality(EventsUpTo(log, LastSeq)) \in Nat /\ Cardinality(E) \in Nat
      BY Zenon, <3>6, FS_CardinalityType
    <3>8. Len(anchors) <= Cardinality(E)
      BY <3>2, <3>6, <3>7
    <3>. QED  BY Zenon, <3>3, <3>8
  <2>. QED  BY Zenon, <2>1, <2>2 DEF AnchorsAreSound
<1>. QED  BY <1>1, <1>2, <1>3, <1>4, <1>5, AloneInitially, Invariance, PTL DEF Spec
==============================================================================
