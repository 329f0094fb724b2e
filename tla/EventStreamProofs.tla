------------------------- MODULE EventStreamProofs -------------------------
(***************************************************************************)
(* The live feed of the event log, for any number of replicas and events,  *)
(* any ring and any replay batch.  RepeatInv: what is still to be sent is  *)
(* ahead of what was sent.  ReportInv, with one replica: an event that was *)
(* published and is behind neither the replay nor the ring was dropped,    *)
(* and every drop is counted until the client has been told.               *)
(***************************************************************************)
EXTENDS EventStream, TLAPS

-----------------------------------------------------------------------------
(* The inductive invariants.                                               *)

Acts == {"mine", "other"}
Hashes == {Genesis} \union (Nat \X Replicas \X Acts)
Row == [by : Replicas, act : Acts, prev : Hashes, quiet : BOOLEAN]
Appending == [at : {"insert", "hook", "return", "notify"}, act : Acts, seq : Nat, prev : Hashes]
Rings == [ring : Seq(Nat), dropped : Nat, notify : BOOLEAN]
Replaying == [at : {"replay"}, last : Nat, todo : Seq(Nat), more : BOOLEAN]
Living == [at : {"live", "drain", "send"}, last : Nat, todo : Seq(Nat), lag : Nat]
Clients == [cursor : Nat, got : Seq(Nat), lag : Nat, from : Nat]

\* The log, and an append whose row it holds once the hook runs.
LogInv ==
    /\ log \in Seq(Row)
    /\ app \in [Replicas -> {Idle} \union Appending]
    /\ \A r \in Replicas :
          /\ app[r].at = "insert" => app[r].seq \in 1 .. Len(log) + 1
          /\ app[r].at \in {"hook", "return", "notify"} => app[r].seq \in 1 .. Len(log)

\* Events of log l that the client's filter lets through, and ascending numbers.
Mine(l, s) == \A i \in DOMAIN s : s[i] \in 1 .. Len(l) /\ l[s[i]].act = "mine"
Ordered(s) == \A i, j \in DOMAIN s : i < j => s[i] < s[j]

\* The replay is about to send the events that follow the watermark, the ring
\* holds events that match, and the client is not ahead of the stream.
Ahead(l, c, st) ==
    /\ Mine(l, c.got) /\ Ordered(c.got)
    /\ \A i \in DOMAIN c.got : c.got[i] <= c.cursor
    /\ c.cursor <= Len(l)
    /\ st # Off => c.cursor <= st.last /\ st.last <= Len(l)
    /\ st \in Replaying => \A i \in DOMAIN st.todo : st.todo[i] = st.last + i /\ st.todo[i] <= Len(l)
    /\ st \in Living => Mine(l, st.todo)

RepeatInv ==
    /\ LogInv
    /\ sub \in Rings /\ stream \in {Off} \union Replaying \union Living /\ client \in Clients
    /\ Mine(log, sub.ring)
    /\ Ahead(log, client, stream)

\* The newest event whose append is past its hook, with one replica.
Published == IF app[Home].at \in {"hook", "return"} THEN Len(log) - 1 ELSE Len(log)

In(s) == {s[i] : i \in DOMAIN s}
Few(S, k) == IsFiniteSet(S) /\ Cardinality(S) <= k

\* Events that match, and whose COMMIT did not report an error.
Owed(l, n) == l[n].act = "mine" /\ ~l[n].quiet

\* The events up to k that a client was not sent.
Unsent(l, c, k) == {n \in c.from + 1 .. k : Owed(l, n) /\ n \notin In(c.got)}

\* Every event that matches and is published, after the first s, is in S.
Within(l, c, s, p, S) == \A n \in c.from + 1 .. p : Owed(l, n) /\ n > s => n \in S

\* A replay: what follows the events that it will have sent is in the ring, or
\* was dropped.
ReplayReport(l, c, s, st, p) ==
    \E k \in Nat, B \in SUBSET Nat :
        /\ ~st.more => k <= st.last + Len(st.todo)
        /\ Few(B, s.dropped)
        /\ Within(l, c, k, p, B \union In(s.ring))

\* A live stream: what follows the watermark is to be sent, in the ring, or was
\* dropped: before what is to be sent (A), or between that and the ring (B).
LiveReport(l, c, s, st, p) ==
    \E A, B \in SUBSET Nat :
        /\ Few(Unsent(l, c, st.last) \union A, c.lag + st.lag) /\ Few(B, s.dropped)
        /\ Within(l, c, st.last, p, A \union In(st.todo) \union B \union In(s.ring))
        /\ Ordered(st.todo) /\ \A i \in DOMAIN st.todo : /\ \A b \in B \union In(s.ring) : st.todo[i] < b
                                                         /\ st.todo[i] <= p
        /\ st.at # "send" => st.todo = <<>> /\ st.lag = 0

\* The ring holds published events in order, and the client was told of as many
\* drops as there are events behind the watermark that it was not sent.
Report(l, c, s, st, p) ==
    /\ Ordered(s.ring) /\ \A i \in DOMAIN s.ring : s.ring[i] <= p
    /\ Few(Unsent(l, c, IF st = Off THEN c.cursor ELSE st.last), c.lag)
    /\ st \in Replaying => ReplayReport(l, c, s, st, p)
    /\ st \in Living => LiveReport(l, c, s, st, p)

\* Only Home appends, the event of its hook is the newest, and an append that
\* skips the hook has an error to return.
Solo ==
    /\ writers = {Home}
    /\ \A r \in Replicas : r # Home => app[r] = Idle
    /\ app[Home].at \in {"hook", "return", "notify"} => app[Home].seq = Len(log)
    /\ app[Home].at = "return" => log[Len(log)].quiet

ReportInv == Solo /\ Report(log, client, sub, stream, Published)

-----------------------------------------------------------------------------
(* The log only grows.                                                     *)

Longer(l, m) == Len(l) <= Len(m) /\ \A i \in 1 .. Len(l) : m[i] = l[i]

LEMMA Appended ==
    ASSUME NEW l \in Seq(Row), NEW row \in Row
    PROVE  /\ Append(l, row) \in Seq(Row) /\ Len(Append(l, row)) = Len(l) + 1
           /\ Longer(l, Append(l, row))
BY DEF Longer

\* What matches goes on to match.
LEMMA MineKept ==
    ASSUME NEW l \in Seq(Row), NEW m \in Seq(Row), Longer(l, m), NEW s, Mine(l, s)
    PROVE  Mine(m, s)
<1> SUFFICES ASSUME NEW i \in DOMAIN s PROVE s[i] \in 1 .. Len(m) /\ m[s[i]].act = "mine"
  BY Zenon DEF Mine
<1>1. s[i] \in 1 .. Len(l) /\ l[s[i]].act = "mine"
  BY Zenon DEF Mine
<1>2. m[s[i]] = l[s[i]]
  BY Zenon, <1>1 DEF Longer
<1>3. s[i] \in 1 .. Len(m)
  BY <1>1 DEF Longer
<1> QED BY Zenon, <1>1, <1>2, <1>3

\* The fields of a record that is updated.
LEMMA Fields ==
    /\ \A a \in Appending :
          /\ a.at \in {"insert", "hook", "return", "notify"} /\ a.act \in Acts
          /\ a.seq \in Nat /\ a.prev \in Hashes
    /\ \A a \in Appending : \A x \in {"insert", "hook", "return", "notify"} :
          /\ [a EXCEPT !.at = x] \in Appending /\ [a EXCEPT !.at = x].at = x
          /\ [a EXCEPT !.at = x].seq = a.seq /\ [a EXCEPT !.at = x].act = a.act
    /\ Idle.at = "idle" /\ Idle \notin Appending
BY DEF Appending, Idle

LEMMA HashType ==
    ASSUME log \in Seq(Row), NEW n \in 0 .. Len(log)
    PROVE  Hash(n) \in Hashes
<1>1. CASE n = 0
  BY Zenon, <1>1 DEF Hash, Hashes
<1>2. CASE n # 0
  <2>1. n \in 1 .. Len(log) /\ n \in Nat
    BY <1>2
  <2>2. log[n] \in Row
    BY <2>1
  <2> QED BY <1>2, <2>1, <2>2 DEF Hash, Hashes, Row
<1> QED BY Zenon, <1>1, <1>2

LEMMA LogBegins == LogInit => LogInv
BY DEF LogInit, LogInv, Idle, Row

\* The row of an append: inserted, and the hook runs or the error is returned.
RowOf(r, next) == [by |-> r, act |-> app[r].act, prev |-> app[r].prev, quiet |-> (next = "return")]

Stored(r, next) ==
    /\ app[r].at = "insert" /\ app[r].seq \notin DOMAIN log
    /\ log' = Append(log, RowOf(r, next)) /\ app' = [app EXCEPT ![r] = [app[r] EXCEPT !.at = next]]

LEMMA InsertIs ==
    ASSUME NEW r, Insert(r)
    PROVE  (log' = log /\ app' = [app EXCEPT ![r] = Idle]) \/ \E next \in {"hook", "return"} : Stored(r, next)
BY Zenon DEF Insert, Commit, Stored, RowOf

LEMMA RowIs ==
    ASSUME NEW r \in Replicas, app[r] \in Appending, NEW next \in {"hook", "return"}
    PROVE  /\ RowOf(r, next) \in Row /\ RowOf(r, next).act = app[r].act
           /\ next = "return" => RowOf(r, next).quiet
<1>1. app[r].act \in Acts /\ app[r].prev \in Hashes
  BY Zenon, Fields
<1> QED BY Zenon, <1>1 DEF RowOf, Row

\* An append inserts the row it has read, or none.
LEMMA LogStep ==
    ASSUME LogInv, [Next]_vars
    PROVE  /\ LogInv' /\ Longer(log, log')
           /\ log' # log => \E r \in Replicas :
                 /\ Insert(r) /\ app[r].at = "insert" /\ app[r].seq = Len(log) + 1
                 /\ Len(log') = Len(log) + 1 /\ log'[Len(log) + 1].act = app[r].act
<1>0. /\ Len(log) \in Nat /\ Longer(log, log) /\ log \in Seq(Row)
      /\ \A r \in Replicas : app[r] \in {Idle} \union Appending
  BY DEF LogInv, Longer
\* The append of r goes on, the log stays.
<1>1. ASSUME NEW r \in Replicas, log' = log, NEW a \in {Idle} \union Appending,
             app' = [app EXCEPT ![r] = a],
             a.at = "insert" => a.seq \in 1 .. Len(log) + 1,
             a.at \in {"hook", "return", "notify"} => a.seq \in 1 .. Len(log)
      PROVE  LogInv' /\ Longer(log, log')
  <2>1. app' \in [Replicas -> {Idle} \union Appending]
    BY Zenon, <1>1 DEF LogInv
  <2>2. \A q \in Replicas : app'[q] = IF q = r THEN a ELSE app[q]
    BY Zenon, <1>1 DEF LogInv
  <2> QED BY Zenon, <1>0, <1>1, <2>1, <2>2 DEF LogInv
<1>2. ASSUME NEW r \in Replicas, Record(r) PROVE LogInv' /\ log' = log
  <2>1. PICK act \in Acts : ReadLast(r, act)
    BY Zenon, <1>2 DEF Record, Acts
  <2>2. PICK a : a = [at |-> "insert", act |-> act, seq |-> Len(log) + 1, prev |-> Hash(Len(log))]
    BY Zenon
  <2>3. app' = [app EXCEPT ![r] = a] /\ log' = log
    BY Zenon, <1>2, <2>1, <2>2 DEF Record, ReadLast
  <2>4. Hash(Len(log)) \in Hashes /\ Len(log) + 1 \in Nat /\ Len(log) + 1 \in 1 .. Len(log) + 1
    <3>1. Len(log) \in 0 .. Len(log)
      BY <1>0
    <3>2. Hash(Len(log)) \in Hashes
      BY Zenon, <1>0, <3>1, HashType
    <3> QED BY <1>0, <3>2
  <2>5. a \in Appending /\ a.at = "insert" /\ a.seq \in 1 .. Len(log) + 1
    BY <2>2, <2>4 DEF Appending
  <2> QED BY Zenon, <1>1, <2>3, <2>5
<1>3. ASSUME NEW r \in Replicas, ReturnStep(r) \/ Publish(r) \/ Notify(r) PROVE LogInv' /\ log' = log
  <2>1. /\ log' = log /\ app[r].at \in {"hook", "return", "notify"}
        /\ app' = [app EXCEPT ![r] = Idle] \/ app' = [app EXCEPT ![r] = [app[r] EXCEPT !.at = "notify"]]
    BY Zenon, <1>3 DEF ReturnStep, ReturnError, Publish, Notify
  <2>2. app[r] \in Appending /\ app[r].seq \in 1 .. Len(log)
    BY Zenon, <1>0, <2>1, Fields DEF LogInv
  <2>3. CASE app' = [app EXCEPT ![r] = Idle]
    BY Zenon, <1>1, <2>1, <2>3, Fields
  <2>4. CASE app' = [app EXCEPT ![r] = [app[r] EXCEPT !.at = "notify"]]
    BY Zenon, <1>1, <2>1, <2>2, <2>4, Fields
  <2> QED BY Zenon, <2>1, <2>3, <2>4
<1>4. ASSUME NEW r \in Replicas, Insert(r), log' = log PROVE LogInv'
  <2>1. \/ app' = [app EXCEPT ![r] = Idle]
        \/ \E next \in {"hook", "return"} : log' = Append(log, RowOf(r, next))
    BY Zenon, <1>4, InsertIs DEF Stored
  <2>2. app' = [app EXCEPT ![r] = Idle]
    <3>1. ASSUME NEW x PROVE Append(log, x) # log
      <4>1. Len(Append(log, x)) = Len(log) + 1
        BY <1>0
      <4> QED BY <1>0, <4>1
    <3> QED BY Zenon, <1>4, <2>1, <3>1
  <2> QED BY Zenon, <1>1, <1>4, <2>2, Fields
<1>5. ASSUME NEW r \in Replicas, Insert(r), log' # log
      PROVE  /\ LogInv' /\ Longer(log, log')
             /\ app[r].at = "insert" /\ app[r].seq = Len(log) + 1 /\ Len(log') = Len(log) + 1
             /\ log'[Len(log) + 1].act = app[r].act
  <2>0. PICK next \in {"hook", "return"} : Stored(r, next)
    BY Zenon, <1>5, InsertIs
  <2>1. PICK row : row = RowOf(r, next)
    BY Zenon
  <2>2. /\ app[r].at = "insert" /\ app[r].seq \notin DOMAIN log
        /\ log' = Append(log, row) /\ app' = [app EXCEPT ![r] = [app[r] EXCEPT !.at = next]]
    BY Zenon, <2>0, <2>1 DEF Stored
  <2>3. app[r] \in Appending /\ app[r].seq \in 1 .. Len(log) + 1
    BY Zenon, <1>0, <2>2, Fields DEF LogInv
  <2>4. row \in Row /\ row.act = app[r].act
    BY Zenon, <2>1, <2>3, RowIs
  <2>5. log' \in Seq(Row) /\ Len(log') = Len(log) + 1 /\ Longer(log, log')
    BY Zenon, <1>0, <2>2, <2>4, Appended
  <2>6. app[r].seq = Len(log) + 1
    <3>1. DOMAIN log = 1 .. Len(log)
      BY <1>0
    <3> QED BY <1>0, <2>2, <2>3, <3>1
  <2>7. log'[Len(log) + 1] = row
    BY <1>0, <2>2, <2>4
  <2>8. PICK a : a = [app[r] EXCEPT !.at = next]
    BY Zenon
  <2>9. a \in Appending /\ a.at # "insert" /\ a.seq = Len(log) + 1
    <3>1. next \in {"insert", "hook", "return", "notify"} /\ next # "insert"
      OBVIOUS
    <3> QED BY Zenon, <2>3, <2>6, <2>8, <3>1, Fields
  <2>10. /\ app' \in [Replicas -> {Idle} \union Appending]
         /\ \A q \in Replicas : app'[q] = IF q = r THEN a ELSE app[q]
    BY Zenon, <2>2, <2>8, <2>9 DEF LogInv
  <2>11. /\ Len(log') + 1 \in Nat /\ 1 .. Len(log) \subseteq 1 .. Len(log')
         /\ 1 .. Len(log) + 1 \subseteq 1 .. Len(log') + 1
         /\ Len(log) + 1 \in 1 .. Len(log')
    BY <1>0, <2>5
  <2>12. \A q \in Replicas : /\ app'[q].at = "insert" => app'[q].seq \in 1 .. Len(log') + 1
                             /\ app'[q].at \in {"hook", "return", "notify"} => app'[q].seq \in 1 .. Len(log')
    BY Zenon, <2>9, <2>10, <2>11 DEF LogInv
  <2> QED BY Zenon, <2>2, <2>4, <2>5, <2>6, <2>7, <2>8, <2>10, <2>12 DEF LogInv
<1>6. CASE UNCHANGED <<log, app>>
  BY Zenon, <1>0, <1>6 DEF LogInv
<1>7. CASE Subscribe \/ Handler \/ Heartbeat \/ Disconnect \/ UNCHANGED vars
  <2>1. UNCHANGED <<log, app>>
    BY Zenon, <1>7 DEF Subscribe, Handler, Heartbeat, Disconnect, ReplayPage, ReplaySend, ReplayDone, Wake,
       Drain, SendLag, SendEvent, vars
  <2> QED BY Zenon, <1>6, <2>1
<1>8. ASSUME NEW r \in Replicas, Insert(r)
      PROVE  /\ LogInv' /\ Longer(log, log')
             /\ log' # log => /\ app[r].at = "insert" /\ app[r].seq = Len(log) + 1
                              /\ Len(log') = Len(log) + 1
                              /\ log'[Len(log) + 1].act = app[r].act
  BY Zenon, <1>0, <1>4, <1>5, <1>8
<1>9. CASE \E r \in Replicas : Insert(r)
  BY Zenon, <1>8, <1>9
<1>10. CASE \E r \in Replicas : Record(r) \/ ReturnStep(r) \/ Publish(r) \/ Notify(r)
  BY Zenon, <1>0, <1>2, <1>3, <1>10
<1> QED BY Zenon, <1>7, <1>9, <1>10 DEF Next, AppendEvent, AppendStep

-----------------------------------------------------------------------------
(* Sequences of events.                                                    *)

LEMMA MineAppend ==
    ASSUME NEW l, NEW s \in Seq(Nat), Mine(l, s), NEW n \in Nat, n \in 1 .. Len(l), l[n].act = "mine"
    PROVE  Append(s, n) \in Seq(Nat) /\ Mine(l, Append(s, n))
<1>1. /\ Append(s, n) \in Seq(Nat) /\ DOMAIN Append(s, n) = DOMAIN s \union {Len(s) + 1}
      /\ \A i \in DOMAIN s : Append(s, n)[i] = s[i]
      /\ Append(s, n)[Len(s) + 1] = n
  OBVIOUS
<1>2. \A i \in DOMAIN Append(s, n) : i \in DOMAIN s \/ Append(s, n)[i] = n
  BY Zenon, <1>1
<1> QED BY Zenon, <1>1, <1>2 DEF Mine

LEMMA TailIs ==
    ASSUME NEW s \in Seq(Nat), s # <<>>
    PROVE  /\ Len(s) \in Nat \ {0} /\ Head(s) = s[1] /\ 1 \in DOMAIN s /\ Head(s) \in Nat
           /\ Tail(s) \in Seq(Nat) /\ Len(Tail(s)) = Len(s) - 1
           /\ \A i \in DOMAIN Tail(s) : i \in Nat \ {0} /\ i + 1 \in DOMAIN s /\ Tail(s)[i] = s[i + 1]
OBVIOUS

LEMMA TailFrom ==
    ASSUME NEW s \in Seq(Nat), s # <<>>
    PROVE  \A i \in DOMAIN Tail(s) : \E j \in DOMAIN s : Tail(s)[i] = s[j]
BY Zenon, TailIs

LEMMA MineTail ==
    ASSUME NEW l, NEW s \in Seq(Nat), Mine(l, s), s # <<>>
    PROVE  Mine(l, Tail(s)) /\ Head(s) \in 1 .. Len(l) /\ l[Head(s)].act = "mine"
<1>1. Head(s) = s[1] /\ 1 \in DOMAIN s
  BY Zenon, TailIs
<1> QED BY Zenon, <1>1, TailFrom DEF Mine

LEMMA NoneMine == ASSUME NEW l PROVE Mine(l, <<>>) /\ <<>> \in Seq(Nat)
<1>1. <<>> \in Seq(Nat) /\ DOMAIN <<>> = {}
  OBVIOUS
<1> QED BY Zenon, <1>1 DEF Mine

LEMMA OrderedAppend ==
    ASSUME NEW s \in Seq(Nat), NEW n \in Nat, Ordered(s), \A i \in DOMAIN s : s[i] < n
    PROVE  Ordered(Append(s, n))
<1>1. /\ DOMAIN s = 1 .. Len(s) /\ Len(s) \in Nat /\ DOMAIN Append(s, n) = 1 .. Len(s) + 1
      /\ \A i \in DOMAIN s : Append(s, n)[i] = s[i]
      /\ Append(s, n)[Len(s) + 1] = n
  OBVIOUS
<1> SUFFICES ASSUME NEW i \in DOMAIN Append(s, n), NEW j \in DOMAIN Append(s, n), i < j
             PROVE  Append(s, n)[i] < Append(s, n)[j]
  BY Zenon DEF Ordered
<1>2. i \in DOMAIN s /\ (j \in DOMAIN s \/ j = Len(s) + 1)
  BY <1>1
<1> QED BY Zenon, <1>1, <1>2 DEF Ordered

\* The three states of the handler and their fields.
LEMMA Kinds ==
    /\ \A st \in {Off} \union Replaying \union Living :
          /\ st.at = "replay" => st \in Replaying
          /\ st.at \in {"live", "drain", "send"} => st \in Living
          /\ st = Off => st \notin Replaying \union Living
    /\ \A st \in Replaying : /\ st \notin Living /\ st.at = "replay"
                             /\ st.last \in Nat /\ st.todo \in Seq(Nat) /\ st.more \in BOOLEAN
    /\ \A st \in Living : /\ st \notin Replaying /\ st.at \in {"live", "drain", "send"}
                          /\ st.last \in Nat /\ st.todo \in Seq(Nat) /\ st.lag \in Nat
    /\ \A s \in Rings : s.ring \in Seq(Nat) /\ s.dropped \in Nat /\ s.notify \in BOOLEAN
    /\ \A c \in Clients : c.cursor \in Nat /\ c.got \in Seq(Nat) /\ c.lag \in Nat /\ c.from \in Nat
    /\ Empty \in Rings /\ Empty.ring = <<>> /\ Empty.dropped = 0
<1>1. <<>> \in Seq(Nat)
  OBVIOUS
<1>2. Empty \in Rings /\ Empty.ring = <<>> /\ Empty.dropped = 0
  BY <1>1 DEF Empty, Rings
<1>3. /\ \A st \in Replaying : /\ st \notin Living /\ st.at = "replay"
                               /\ st.last \in Nat /\ st.todo \in Seq(Nat) /\ st.more \in BOOLEAN
      /\ \A st \in Living : /\ st \notin Replaying /\ st.at \in {"live", "drain", "send"}
                            /\ st.last \in Nat /\ st.todo \in Seq(Nat) /\ st.lag \in Nat
  BY DEF Replaying, Living
<1>4. /\ \A s \in Rings : s.ring \in Seq(Nat) /\ s.dropped \in Nat /\ s.notify \in BOOLEAN
      /\ \A c \in Clients : c.cursor \in Nat /\ c.got \in Seq(Nat) /\ c.lag \in Nat /\ c.from \in Nat
  BY DEF Rings, Clients
<1>5. Off.at = "off"
  BY DEF Off
<1>6. ASSUME NEW st \in {Off} \union Replaying \union Living
      PROVE  /\ st.at = "replay" => st \in Replaying
             /\ st.at \in {"live", "drain", "send"} => st \in Living
             /\ st = Off => st \notin Replaying \union Living
  BY Zenon, <1>3, <1>5
<1> QED BY Zenon, <1>2, <1>3, <1>4, <1>6

\* A state of the handler, the client or the subscriber, by its fields.
IsLiving(z, x, n, t, g) == z \in Living /\ z.at = x /\ z.last = n /\ z.todo = t /\ z.lag = g
IsReplaying(z, n, t, m) == z \in Replaying /\ z.at = "replay" /\ z.last = n /\ z.todo = t /\ z.more = m
IsClient(z, n, t, g, f) == z \in Clients /\ z.cursor = n /\ z.got = t /\ z.lag = g /\ z.from = f
IsRing(z, t, n, b) == z \in Rings /\ z.ring = t /\ z.dropped = n /\ z.notify = b

\* What an update of each leaves.
LEMMA Updates ==
    /\ \A st \in Living, x \in {"live", "drain", "send"} :
          IsLiving([st EXCEPT !.at = x], x, st.last, st.todo, st.lag)
    /\ \A st \in Living, x \in {"live", "drain", "send"}, t \in Seq(Nat), g \in Nat :
          IsLiving([st EXCEPT !.at = x, !.todo = t, !.lag = g], x, st.last, t, g)
    /\ \A st \in Living, g \in Nat : IsLiving([st EXCEPT !.lag = g], st.at, st.last, st.todo, g)
    /\ \A st \in Living, t \in Seq(Nat) :
          IsLiving([st EXCEPT !.todo = t], st.at, st.last, t, st.lag)
    /\ \A st \in Living, t \in Seq(Nat), n \in Nat :
          IsLiving([st EXCEPT !.todo = t, !.last = n], st.at, n, t, st.lag)
    /\ \A st \in Replaying, t \in Seq(Nat), m \in BOOLEAN :
          IsReplaying([st EXCEPT !.todo = t, !.more = m], st.last, t, m)
    /\ \A st \in Replaying, t \in Seq(Nat), n \in Nat :
          IsReplaying([st EXCEPT !.last = n, !.todo = t], n, t, st.more)
    /\ \A c \in Clients, t \in Seq(Nat), n \in Nat :
          IsClient([c EXCEPT !.cursor = n, !.got = t], n, t, c.lag, c.from)
    /\ \A c \in Clients, n \in Nat : IsClient([c EXCEPT !.cursor = n], n, c.got, c.lag, c.from)
    /\ \A c \in Clients, n \in Nat : IsClient([c EXCEPT !.lag = n], c.cursor, c.got, n, c.from)
    /\ \A c \in Clients, n \in Nat :
          IsClient([c EXCEPT !.from = n, !.lag = 0], c.cursor, c.got, 0, n)
    /\ \A s \in Rings, t \in Seq(Nat), n \in Nat :
          IsRing([s EXCEPT !.ring = t, !.dropped = n], t, n, s.notify)
    /\ \A s \in Rings, t \in Seq(Nat) : IsRing([s EXCEPT !.ring = t], t, s.dropped, s.notify)
    /\ \A s \in Rings, b \in BOOLEAN : IsRing([s EXCEPT !.notify = b], s.ring, s.dropped, b)
<1>1. ASSUME NEW st \in Living, NEW x \in {"live", "drain", "send"}
      PROVE  IsLiving([st EXCEPT !.at = x], x, st.last, st.todo, st.lag)
  BY Zenon DEF Living, IsLiving
<1>2. ASSUME NEW st \in Living, NEW x \in {"live", "drain", "send"}, NEW t \in Seq(Nat), NEW g \in Nat
      PROVE  IsLiving([st EXCEPT !.at = x, !.todo = t, !.lag = g], x, st.last, t, g)
  BY Zenon DEF Living, IsLiving
<1>3. ASSUME NEW st \in Living, NEW g \in Nat
      PROVE  IsLiving([st EXCEPT !.lag = g], st.at, st.last, st.todo, g)
  BY Zenon DEF Living, IsLiving
<1>4. ASSUME NEW st \in Living, NEW t \in Seq(Nat)
      PROVE  IsLiving([st EXCEPT !.todo = t], st.at, st.last, t, st.lag)
  BY Zenon DEF Living, IsLiving
<1>5. ASSUME NEW st \in Living, NEW t \in Seq(Nat), NEW n \in Nat
      PROVE  IsLiving([st EXCEPT !.todo = t, !.last = n], st.at, n, t, st.lag)
  BY Zenon DEF Living, IsLiving
<1>6. ASSUME NEW st \in Replaying, NEW t \in Seq(Nat), NEW m \in BOOLEAN
      PROVE  IsReplaying([st EXCEPT !.todo = t, !.more = m], st.last, t, m)
  BY Zenon DEF Replaying, IsReplaying
<1>7. ASSUME NEW st \in Replaying, NEW t \in Seq(Nat), NEW n \in Nat
      PROVE  IsReplaying([st EXCEPT !.last = n, !.todo = t], n, t, st.more)
  BY Zenon DEF Replaying, IsReplaying
<1>8. ASSUME NEW c \in Clients, NEW t \in Seq(Nat), NEW n \in Nat
      PROVE  IsClient([c EXCEPT !.cursor = n, !.got = t], n, t, c.lag, c.from)
  BY Zenon DEF Clients, IsClient
<1>9. ASSUME NEW c \in Clients, NEW n \in Nat
      PROVE  IsClient([c EXCEPT !.cursor = n], n, c.got, c.lag, c.from)
  BY Zenon DEF Clients, IsClient
<1>10. ASSUME NEW c \in Clients, NEW n \in Nat
      PROVE  IsClient([c EXCEPT !.lag = n], c.cursor, c.got, n, c.from)
  BY Zenon DEF Clients, IsClient
<1>11. ASSUME NEW c \in Clients, NEW n \in Nat
      PROVE  IsClient([c EXCEPT !.from = n, !.lag = 0], c.cursor, c.got, 0, n)
  BY 0 \in Nat, Zenon DEF Clients, IsClient
<1>12. ASSUME NEW s \in Rings, NEW t \in Seq(Nat), NEW n \in Nat
      PROVE  IsRing([s EXCEPT !.ring = t, !.dropped = n], t, n, s.notify)
  BY Zenon DEF Rings, IsRing
<1>13. ASSUME NEW s \in Rings, NEW t \in Seq(Nat)
      PROVE  IsRing([s EXCEPT !.ring = t], t, s.dropped, s.notify)
  BY Zenon DEF Rings, IsRing
<1>14. ASSUME NEW s \in Rings, NEW b \in BOOLEAN
      PROVE  IsRing([s EXCEPT !.notify = b], s.ring, s.dropped, b)
  BY Zenon DEF Rings, IsRing
<1> QED BY Zenon, <1>1, <1>2, <1>3, <1>4, <1>5, <1>6, <1>7, <1>8, <1>9, <1>10, <1>11, <1>12, <1>13, <1>14

\* A stream begins.
LEMMA Begins ==
    /\ \A n \in Nat :
          IsReplaying([at |-> "replay", last |-> n, todo |-> <<>>, more |-> TRUE], n, <<>>, TRUE)
    /\ \A n \in Nat : IsLiving([at |-> "live", last |-> n, todo |-> <<>>, lag |-> 0], "live", n, <<>>, 0)
<1>1. <<>> \in Seq(Nat)
  OBVIOUS
<1> QED BY <1>1 DEF Replaying, Living, IsReplaying, IsLiving

-----------------------------------------------------------------------------
(* Nothing is sent twice.                                                  *)

\* The log grows behind the client.
LEMMA AheadKept ==
    ASSUME NEW l \in Seq(Row), NEW m \in Seq(Row), Longer(l, m), NEW c \in Clients,
           NEW st \in {Off} \union Replaying \union Living, Ahead(l, c, st)
    PROVE  Ahead(m, c, st)
<1>1. Len(l) \in Nat /\ Len(m) \in Nat /\ Len(l) <= Len(m)
  BY DEF Longer
<1>2. Mine(m, c.got)
  BY Zenon, MineKept DEF Ahead
<1>3. c.cursor <= Len(m)
  <2>1. c.cursor \in Nat /\ c.cursor <= Len(l)
    BY Zenon, Kinds DEF Ahead
  <2> QED BY <1>1, <2>1
<1>4. st # Off => c.cursor <= st.last /\ st.last <= Len(m)
  <2>1. st # Off => st.last \in Nat /\ st.last <= Len(l) /\ c.cursor <= st.last
    BY Zenon, Kinds DEF Ahead
  <2> QED BY <1>1, <2>1
<1>5. st \in Replaying => \A i \in DOMAIN st.todo : st.todo[i] = st.last + i /\ st.todo[i] <= Len(m)
  <2>1. ASSUME st \in Replaying, NEW i \in DOMAIN st.todo
        PROVE  st.todo[i] = st.last + i /\ st.todo[i] <= Len(m)
    <3>1. st.todo \in Seq(Nat) /\ st.todo[i] = st.last + i /\ st.todo[i] <= Len(l)
      BY Zenon, <2>1, Kinds DEF Ahead
    <3>2. st.todo[i] \in Nat
      BY <2>1, <3>1
    <3> QED BY <1>1, <3>1, <3>2
  <2> QED BY Zenon, <2>1
<1>6. st \in Living => Mine(m, st.todo)
  BY Zenon, MineKept DEF Ahead
<1> QED BY Zenon, <1>2, <1>3, <1>4, <1>5, <1>6 DEF Ahead

\* The client is sent an event it does not know of.
LEMMA Sent ==
    ASSUME NEW l \in Seq(Row), NEW c \in Clients, NEW st, Ahead(l, c, st),
           NEW n \in 1 .. Len(l), l[n].act = "mine", c.cursor < n,
           NEW d, IsClient(d, n, Append(c.got, n), c.lag, c.from)
    PROVE  /\ Mine(l, d.got) /\ Ordered(d.got) /\ \A i \in DOMAIN d.got : d.got[i] <= d.cursor
           /\ d.cursor <= Len(l)
<1>1. n \in Nat /\ n <= Len(l)
  OBVIOUS
<1>2. c.got \in Seq(Nat) /\ c.cursor \in Nat /\ Mine(l, c.got) /\ Ordered(c.got)
  BY Zenon, Kinds DEF Ahead
<1>3. \A i \in DOMAIN c.got : c.got[i] < n /\ c.got[i] <= n
  <2> TAKE i \in DOMAIN c.got
  <2>1. c.got[i] \in Nat
    BY <1>2
  <2>2. c.got[i] <= c.cursor
    BY Zenon DEF Ahead
  <2> QED BY <1>1, <1>2, <2>1, <2>2
<1>4. d.got = Append(c.got, n) /\ d.cursor = n
  BY Zenon DEF IsClient
<1>5. \A i \in DOMAIN d.got : d.got[i] <= n
  <2>1. /\ DOMAIN d.got = DOMAIN c.got \union {Len(c.got) + 1} /\ d.got[Len(c.got) + 1] = n
        /\ \A i \in DOMAIN c.got : d.got[i] = c.got[i]
    BY SMTT(30), <1>1, <1>2, <1>4
  <2>2. n <= n
    BY <1>1
  <2> QED BY Zenon, <1>3, <2>1, <2>2
<1> QED BY Zenon, <1>1, <1>2, <1>3, <1>4, <1>5, MineAppend, OrderedAppend

LEMMA RepeatInit == Init => RepeatInv
<1> SUFFICES ASSUME Init PROVE RepeatInv
  OBVIOUS
<1>1. LogInv /\ sub \in Rings /\ sub.ring = <<>> /\ stream = Off
  BY Zenon, LogBegins, Kinds DEF Init
<1>2. log = <<>> /\ Len(log) = 0
  BY DEF Init, LogInit
<1>3. client \in Clients /\ client.cursor = 0 /\ client.got = <<>>
  <2>1. <<>> \in Seq(Nat)
    OBVIOUS
  <2> QED BY <2>1 DEF Init, Clients
<1>4. DOMAIN client.got = {}
  BY <1>3
<1>5. Ahead(log, client, stream)
  <2>1. client.cursor <= Len(log)
    BY <1>2, <1>3
  <2> QED BY Zenon, <1>1, <1>4, <2>1, Kinds DEF Ahead, Mine, Ordered
<1> QED BY Zenon, <1>1, <1>3, <1>5, NoneMine DEF RepeatInv

LEMMA RepeatStep ==
    ASSUME RepeatInv, [Next]_vars
    PROVE  RepeatInv'
<1>0. /\ LogInv /\ LogInv' /\ Longer(log, log') /\ log \in Seq(Row) /\ log' \in Seq(Row)
      /\ sub \in Rings /\ stream \in {Off} \union Replaying \union Living /\ client \in Clients
      /\ Mine(log, sub.ring) /\ Ahead(log, client, stream)
  BY Zenon, LogStep DEF RepeatInv, LogInv
<1>1. Len(log) \in Nat
  BY <1>0
<1>keep. ASSUME UNCHANGED <<sub, stream, client>> PROVE RepeatInv'
  <2>1. Mine(log', sub.ring) /\ Ahead(log', client, stream)
    BY Zenon, <1>0, MineKept, AheadKept
  <2> QED BY Zenon, <1>0, <1>keep, <2>1 DEF RepeatInv
<1>move. ASSUME log' = log, sub' \in Rings, Mine(log, sub'.ring), Ahead(log, client', stream'),
                stream' \in {Off} \union Replaying \union Living, client' \in Clients
         PROVE  RepeatInv'
  BY Zenon, <1>0, <1>move DEF RepeatInv
<1>2. ASSUME NEW r \in Replicas, Record(r) \/ AppendStep(r) \/ ReturnStep(r) PROVE RepeatInv'
  BY Zenon, <1>2, <1>keep DEF Record, AppendStep, ReturnStep
<1>3. ASSUME NEW r \in Replicas, Publish(r) PROVE RepeatInv'
  <2>1. CASE UNCHANGED sub
    BY Zenon, <1>3, <1>keep, <2>1 DEF Publish
  <2>2. CASE ~UNCHANGED sub
    <3> DEFINE n == app[r].seq
    <3>1. /\ app[r].at = "hook" /\ log[n].act = "mine" /\ sub' = DropOldest(sub, n)
          /\ UNCHANGED <<log, stream, client>>
      BY Zenon, <1>3, <2>2 DEF Publish, Matches
    <3>2. n \in 1 .. Len(log)
      BY Zenon, <1>0, <3>1 DEF LogInv
    <3>3. n \in Nat /\ sub.ring \in Seq(Nat) /\ sub.dropped \in Nat
      BY <1>0, <3>2, Kinds
    <3> HIDE DEF n
    <3>4. CASE Len(sub.ring) = Cap
      <4>1. sub.ring # <<>>
        BY <3>4, EventStreamConstants
      <4>2. Tail(sub.ring) \in Seq(Nat) /\ Mine(log, Tail(sub.ring))
        BY Zenon, <1>0, <3>3, <4>1, MineTail, TailIs
      <4>3. Append(Tail(sub.ring), n) \in Seq(Nat) /\ Mine(log, Append(Tail(sub.ring), n))
        BY Zenon, <3>1, <3>2, <3>3, <4>2, MineAppend
      <4>4. sub.dropped + 1 \in Nat
        BY <3>3
      <4>5. IsRing(sub', Append(Tail(sub.ring), n), sub.dropped + 1, sub.notify)
        BY Zenon, <1>0, <3>1, <3>4, <4>3, <4>4, Updates DEF DropOldest
      <4> QED BY Zenon, <1>0, <1>move, <3>1, <4>3, <4>5 DEF IsRing
    <3>5. CASE Len(sub.ring) # Cap
      <4>3. Append(sub.ring, n) \in Seq(Nat) /\ Mine(log, Append(sub.ring, n))
        BY Zenon, <1>0, <3>1, <3>2, <3>3, MineAppend
      <4>5. IsRing(sub', Append(sub.ring, n), sub.dropped, sub.notify)
        BY Zenon, <1>0, <3>1, <3>5, <4>3, Updates DEF DropOldest
      <4> QED BY Zenon, <1>0, <1>move, <3>1, <4>3, <4>5 DEF IsRing
    <3> QED BY Zenon, <3>4, <3>5
  <2> QED BY Zenon, <2>1, <2>2
<1>4. ASSUME NEW r \in Replicas, Notify(r) PROVE RepeatInv'
  <2>1. UNCHANGED <<log, stream, client>> /\ (sub' = sub \/ sub' = [sub EXCEPT !.notify = TRUE])
    BY Zenon, <1>4 DEF Notify
  <2>2. sub' \in Rings /\ sub'.ring = sub.ring
    <3>1. CASE sub' = sub
      BY Zenon, <1>0, <3>1
    <3>2. CASE sub' = [sub EXCEPT !.notify = TRUE]
      BY Zenon, <1>0, <3>2, Updates DEF IsRing
    <3> QED BY Zenon, <2>1, <3>1, <3>2
  <2> QED BY Zenon, <1>0, <1>move, <2>1, <2>2
<1>5. ASSUME Subscribe PROVE RepeatInv'
  <2>1. stream = Off /\ log' = log /\ sub' = Empty /\ sub' \in Rings /\ Mine(log, sub'.ring)
    BY Zenon, <1>5, Kinds, NoneMine DEF Subscribe
  <2>2. client.cursor \in Nat /\ client.cursor <= Len(log) /\ <<>> \in Seq(Nat)
    BY Zenon, <1>0, Kinds, NoneMine DEF Ahead
  <2>3. CASE client.cursor > 0
    <3>1. /\ stream' = [at |-> "replay", last |-> client.cursor, todo |-> <<>>, more |-> TRUE]
          /\ client' = client
      BY Zenon, <1>5, <2>3 DEF Subscribe
    <3>2. IsReplaying(stream', client.cursor, <<>>, TRUE)
      BY Zenon, <2>2, <3>1, Begins
    <3>3. client.cursor <= client.cursor /\ DOMAIN <<>> = {}
      BY <2>2
    <3>4. Ahead(log, client', stream')
      BY Zenon, <1>0, <2>2, <3>1, <3>2, <3>3, Kinds DEF IsReplaying, Ahead
    <3> QED BY Zenon, <1>0, <1>move, <2>1, <3>1, <3>2, <3>4 DEF IsReplaying
  <2>4. CASE ~(client.cursor > 0)
    <3>1. /\ stream' = [at |-> "live", last |-> 0, todo |-> <<>>, lag |-> 0]
          /\ client' = [client EXCEPT !.from = Len(log), !.lag = 0]
      BY Zenon, <1>5, <2>4 DEF Subscribe
    <3>2. IsLiving(stream', "live", 0, <<>>, 0) /\ IsClient(client', client.cursor, client.got, 0, Len(log))
      <4>1. 0 \in Nat
        OBVIOUS
      <4> QED BY Zenon, <1>0, <1>1, <3>1, <4>1, Updates, Begins
    <3>3. client.cursor <= 0 /\ 0 <= Len(log)
      BY <1>1, <2>2, <2>4
    <3>4. Ahead(log, client', stream')
      BY Zenon, <1>0, <2>2, <3>2, <3>3, Kinds, NoneMine DEF IsLiving, IsClient, Ahead
    <3> QED BY Zenon, <1>0, <1>move, <2>1, <3>2, <3>4 DEF IsLiving, IsClient
  <2> QED BY Zenon, <2>3, <2>4
<1>6. ASSUME ReplayPage PROVE RepeatInv'
  <2> DEFINE to == Min({Len(log), stream.last + Batch})
             t == [i \in 1 .. to - stream.last |-> stream.last + i]
  <2>1. /\ stream.at = "replay" /\ UNCHANGED <<log, sub, client>>
        /\ stream' = [stream EXCEPT !.todo = t, !.more = (to - stream.last = Batch)]
    BY Zenon, <1>6 DEF ReplayPage
  <2>2. /\ stream \in Replaying /\ stream # Off /\ stream.last \in Nat /\ stream.last <= Len(log)
        /\ client.cursor <= stream.last
    BY Zenon, <1>0, <2>1, Kinds DEF Ahead
  <2>3. to \in Nat /\ stream.last <= to /\ to <= Len(log)
    <3>1. stream.last + Batch \in Nat /\ stream.last <= stream.last + Batch
      BY <2>2, EventStreamConstants
    <3>2. to \in {Len(log), stream.last + Batch} /\ \A y \in {Len(log), stream.last + Batch} : to <= y
      <4>1. CASE Len(log) <= stream.last + Batch
        BY <1>1, <3>1, <4>1 DEF Min
      <4>2. CASE ~(Len(log) <= stream.last + Batch)
        BY <1>1, <3>1, <4>2 DEF Min
      <4> QED BY Zenon, <4>1, <4>2
    <3> HIDE DEF to
    <3> QED BY <1>1, <2>2, <3>1, <3>2
  <2>4. t \in Seq(Nat) /\ \A i \in DOMAIN t : t[i] = stream.last + i /\ t[i] <= Len(log)
    <3> HIDE DEF to
    <3>1. to - stream.last \in Nat
      BY <2>2, <2>3
    <3>2. /\ DOMAIN t = 1 .. to - stream.last
          /\ \A i \in 1 .. to - stream.last : t[i] = stream.last + i /\ t[i] \in Nat /\ t[i] <= Len(log)
      BY <1>1, <2>2, <2>3, <3>1
    <3>3. t \in Seq(Nat)
      BY <2>2, <3>1
    <3> QED BY Zenon, <3>2, <3>3
  <2> HIDE DEF to, t
  <2>5. IsReplaying(stream', stream.last, t, to - stream.last = Batch)
    <3>1. (to - stream.last = Batch) \in BOOLEAN
      OBVIOUS
    <3> QED BY Zenon, <2>1, <2>2, <2>4, <3>1, Updates
  <2>6. Ahead(log, client', stream')
    BY Zenon, <1>0, <2>1, <2>2, <2>4, <2>5, Kinds DEF IsReplaying, Ahead
  <2> QED BY Zenon, <1>0, <1>move, <2>1, <2>5, <2>6 DEF IsReplaying
<1>7. ASSUME ReplaySend PROVE RepeatInv'
  <2> DEFINE n == Head(stream.todo)
  <2>1. /\ stream.at = "replay" /\ stream.todo # <<>> /\ UNCHANGED <<log, sub>>
        /\ stream' = [stream EXCEPT !.last = n, !.todo = Tail(stream.todo)]
        /\ client' = IF log[n].act = "mine"
                     THEN [client EXCEPT !.cursor = n, !.got = Append(client.got, n)] ELSE client
    BY Zenon, <1>7 DEF ReplaySend, Matches
  <2>2. /\ stream \in Replaying /\ stream # Off /\ stream.last \in Nat /\ stream.last <= Len(log)
        /\ client.cursor <= stream.last
        /\ stream.todo \in Seq(Nat) /\ client.cursor \in Nat /\ client.got \in Seq(Nat)
        /\ stream.more \in BOOLEAN
        /\ \A i \in DOMAIN stream.todo : stream.todo[i] = stream.last + i /\ stream.todo[i] <= Len(log)
    BY Zenon, <1>0, <2>1, Kinds DEF Ahead
  <2>3. n = stream.last + 1 /\ n \in Nat /\ n <= Len(log)
    BY Zenon, <2>1, <2>2, TailIs
  <2>4. /\ Tail(stream.todo) \in Seq(Nat)
        /\ \A i \in DOMAIN Tail(stream.todo) :
              Tail(stream.todo)[i] = n + i /\ Tail(stream.todo)[i] <= Len(log)
    <3>1. Tail(stream.todo) \in Seq(Nat)
      BY Zenon, <2>1, <2>2, TailIs
    <3>2. ASSUME NEW i \in DOMAIN Tail(stream.todo)
          PROVE  Tail(stream.todo)[i] = n + i /\ Tail(stream.todo)[i] <= Len(log)
      <4>1. i \in Nat \ {0} /\ i + 1 \in DOMAIN stream.todo /\ Tail(stream.todo)[i] = stream.todo[i + 1]
        BY Zenon, <2>1, <2>2, TailIs
      <4>2. Tail(stream.todo)[i] = stream.last + (i + 1) /\ Tail(stream.todo)[i] <= Len(log)
        BY Zenon, <2>2, <4>1
      <4>3. stream.last + (i + 1) = (stream.last + 1) + i
        <5>1. stream.last \in Nat /\ i \in Nat
          BY Zenon, <2>2, <4>1
        <5> HIDE DEF n
        <5> QED BY <5>1
      <4> QED BY Zenon, <2>3, <4>2, <4>3
    <3> QED BY Zenon, <3>1, <3>2
  <2> HIDE DEF n
  <2>5. IsReplaying(stream', n, Tail(stream.todo), stream.more)
    BY Zenon, <2>1, <2>2, <2>3, <2>4, Updates
  <2>6. client.cursor < n /\ client.cursor <= n /\ n \in 1 .. Len(log) /\ n <= n
    BY <1>1, <2>2, <2>3
  <2>7. CASE log[n].act = "mine"
    <3>1. Append(client.got, n) \in Seq(Nat)
      BY <2>2, <2>3
    <3>2. IsClient(client', n, Append(client.got, n), client.lag, client.from)
      BY Zenon, <1>0, <2>1, <2>3, <2>7, <3>1, Updates
    <3>3. /\ Mine(log, client'.got) /\ Ordered(client'.got)
          /\ \A i \in DOMAIN client'.got : client'.got[i] <= client'.cursor
          /\ client'.cursor <= Len(log)
      BY Zenon, <1>0, <2>6, <2>7, <3>2, Sent
    <3>4. Ahead(log, client', stream')
      BY Zenon, <2>3, <2>4, <2>5, <2>6, <3>2, <3>3, Kinds DEF IsReplaying, IsClient, Ahead
    <3> QED BY Zenon, <1>0, <1>move, <2>1, <2>5, <3>2, <3>4 DEF IsReplaying, IsClient
  <2>8. CASE log[n].act # "mine"
    <3>4. Ahead(log, client', stream')
      BY Zenon, <1>0, <2>1, <2>3, <2>4, <2>5, <2>6, <2>8, Kinds DEF IsReplaying, Ahead
    <3> QED BY Zenon, <1>0, <1>move, <2>1, <2>5, <2>8, <3>4 DEF IsReplaying
  <2> QED BY Zenon, <2>7, <2>8
<1>8. ASSUME ReplayDone PROVE RepeatInv'
  <2>1. /\ stream.at = "replay" /\ UNCHANGED <<log, sub, client>>
        /\ stream' = [at |-> "live", last |-> stream.last, todo |-> <<>>, lag |-> 0]
    BY Zenon, <1>8 DEF ReplayDone
  <2>2. /\ stream \in Replaying /\ stream # Off /\ stream.last \in Nat /\ stream.last <= Len(log)
        /\ client.cursor <= stream.last
    BY Zenon, <1>0, <2>1, Kinds DEF Ahead
  <2>4. IsLiving(stream', "live", stream.last, <<>>, 0)
    BY Zenon, <2>1, <2>2, Begins
  <2>5. Ahead(log, client', stream')
    BY Zenon, <1>0, <2>1, <2>2, <2>4, Kinds, NoneMine DEF IsLiving, Ahead
  <2> QED BY Zenon, <1>0, <1>move, <2>1, <2>4, <2>5 DEF IsLiving
\* The stream is live: the watermark and the client are as they were.
<1>live. ASSUME log' = log, client' = client, stream \in Living, stream' \in Living,
                stream'.last = stream.last,
                Mine(log, stream'.todo), sub' \in Rings, Mine(log, sub'.ring)
         PROVE  RepeatInv'
  <2>1. Ahead(log, client', stream')
    BY Zenon, <1>0, <1>live, Kinds DEF Ahead
  <2> QED BY Zenon, <1>0, <1>live, <1>move, <2>1
<1>9. ASSUME Wake PROVE RepeatInv'
  <2>1. /\ stream.at = "live" /\ UNCHANGED <<log, client>> /\ sub' = [sub EXCEPT !.notify = FALSE]
        /\ stream' = [stream EXCEPT !.at = "drain"]
    BY Zenon, <1>9 DEF Wake
  <2>2. stream \in Living /\ Mine(log, stream.todo)
    BY Zenon, <1>0, <2>1, Kinds DEF Ahead
  <2>3. IsLiving(stream', "drain", stream.last, stream.todo, stream.lag)
    BY Zenon, <2>1, <2>2, Updates, Kinds
  <2>4. IsRing(sub', sub.ring, sub.dropped, FALSE)
    BY Zenon, <1>0, <2>1, Updates, Kinds
  <2> QED BY Zenon, <1>0, <1>live, <2>1, <2>2, <2>3, <2>4 DEF IsLiving, IsRing
<1>10. ASSUME Drain PROVE RepeatInv'
  <2>1. /\ stream.at = "drain" /\ UNCHANGED <<log, client>>
        /\ sub' = [sub EXCEPT !.ring = <<>>, !.dropped = 0]
        /\ stream' = [stream EXCEPT !.at = "send", !.todo = sub.ring, !.lag = sub.dropped]
    BY Zenon, <1>10 DEF Drain
  <2>2. stream \in Living /\ 0 \in Nat
    BY <1>0, <2>1, Kinds
  <2>3. IsLiving(stream', "send", stream.last, sub.ring, sub.dropped)
    BY Zenon, <1>0, <2>1, <2>2, Updates, Kinds
  <2>4. IsRing(sub', <<>>, 0, sub.notify)
    BY Zenon, <1>0, <2>1, <2>2, Updates, Kinds, NoneMine
  <2> QED BY Zenon, <1>0, <1>live, <2>1, <2>2, <2>3, <2>4, NoneMine DEF IsLiving, IsRing
<1>11. ASSUME SendLag PROVE RepeatInv'
  <2>1. /\ stream.at = "send" /\ UNCHANGED <<log, sub>>
        /\ client' = [client EXCEPT !.lag = client.lag + stream.lag]
        /\ stream' = [stream EXCEPT !.lag = 0]
    BY Zenon, <1>11 DEF SendLag
  <2>2. stream \in Living /\ stream # Off /\ stream.lag \in Nat /\ client.lag \in Nat
    BY Zenon, <1>0, <2>1, Kinds
  <2>3. 0 \in Nat /\ client.lag + stream.lag \in Nat
    BY <2>2
  <2>4. IsLiving(stream', stream.at, stream.last, stream.todo, 0)
    BY Zenon, <2>1, <2>2, <2>3, Updates
  <2>5. IsClient(client', client.cursor, client.got, client.lag + stream.lag, client.from)
    BY Zenon, <1>0, <2>1, <2>3, Updates
  <2>6. Ahead(log, client', stream')
    BY Zenon, <1>0, <2>2, <2>4, <2>5, Kinds DEF IsLiving, IsClient, Ahead
  <2> QED BY Zenon, <1>0, <1>move, <2>1, <2>4, <2>5, <2>6 DEF IsLiving, IsClient
<1>12. ASSUME SendEvent PROVE RepeatInv'
  <2>1. stream.at = "send" /\ UNCHANGED <<log, sub>>
    BY Zenon, <1>12 DEF SendEvent
  <2>2. /\ stream \in Living /\ stream # Off /\ stream.last \in Nat /\ stream.todo \in Seq(Nat)
        /\ Mine(log, stream.todo)
        /\ client.cursor <= stream.last /\ stream.last <= Len(log) /\ client.cursor \in Nat
        /\ client.got \in Seq(Nat)
    BY Zenon, <1>0, <2>1, Kinds DEF Ahead
  <2>3. CASE stream.todo = <<>>
    <3>1. client' = client /\ stream' = [stream EXCEPT !.at = "live"]
      BY Zenon, <1>12, <2>3 DEF SendEvent
    <3>2. IsLiving(stream', "live", stream.last, stream.todo, stream.lag)
      BY Zenon, <2>2, <3>1, Updates, Kinds
    <3> QED BY Zenon, <1>0, <1>live, <2>1, <2>2, <3>1, <3>2 DEF IsLiving
  <2>4. CASE stream.todo # <<>>
    <3> DEFINE n == Head(stream.todo)
    <3>1. \/ /\ n > stream.last /\ stream' = [stream EXCEPT !.todo = Tail(stream.todo), !.last = n]
             /\ client' = [client EXCEPT !.cursor = n, !.got = Append(client.got, n)]
          \/ stream' = [stream EXCEPT !.todo = Tail(stream.todo)] /\ client' = client
      BY Zenon, <1>12, <2>4 DEF SendEvent, NotReplayed
    <3>2. /\ n \in 1 .. Len(log) /\ n \in Nat /\ log[n].act = "mine"
          /\ Tail(stream.todo) \in Seq(Nat) /\ Mine(log, Tail(stream.todo))
      BY Zenon, <2>2, <2>4, MineTail, TailIs
    <3> HIDE DEF n
    <3>3. CASE stream' = [stream EXCEPT !.todo = Tail(stream.todo)] /\ client' = client
      <4>1. IsLiving(stream', stream.at, stream.last, Tail(stream.todo), stream.lag)
        BY Zenon, <2>2, <3>2, <3>3, Updates
      <4> QED BY Zenon, <1>0, <1>live, <2>1, <2>2, <3>2, <3>3, <4>1 DEF IsLiving
    <3>4. CASE /\ n > stream.last /\ stream' = [stream EXCEPT !.todo = Tail(stream.todo), !.last = n]
               /\ client' = [client EXCEPT !.cursor = n, !.got = Append(client.got, n)]
      <4>1. IsLiving(stream', stream.at, n, Tail(stream.todo), stream.lag)
        BY Zenon, <2>2, <3>2, <3>4, Updates
      <4>2. client.cursor < n /\ n <= n /\ n <= Len(log) /\ Append(client.got, n) \in Seq(Nat)
        BY <1>1, <2>2, <3>2, <3>4
      <4>3. IsClient(client', n, Append(client.got, n), client.lag, client.from)
        BY Zenon, <1>0, <3>2, <3>4, <4>2, Updates
      <4>4. /\ Mine(log, client'.got) /\ Ordered(client'.got)
            /\ \A i \in DOMAIN client'.got : client'.got[i] <= client'.cursor
            /\ client'.cursor <= Len(log)
        BY Zenon, <1>0, <3>2, <4>2, <4>3, Sent
      <4>5. Ahead(log, client', stream')
        BY Zenon, <3>2, <4>1, <4>2, <4>3, <4>4, Kinds DEF IsLiving, IsClient, Ahead
      <4> QED BY Zenon, <1>0, <1>move, <2>1, <4>1, <4>3, <4>5 DEF IsLiving, IsClient
    <3> QED BY Zenon, <3>1, <3>3, <3>4
  <2> QED BY Zenon, <2>3, <2>4
<1>13. ASSUME Heartbeat PROVE RepeatInv'
  <2>1. /\ stream.at = "live" /\ UNCHANGED <<log, sub, stream>>
        /\ client' = [client EXCEPT !.cursor = stream.last]
    BY Zenon, <1>13 DEF Heartbeat
  <2>2. /\ stream \in Living /\ stream # Off /\ stream.last \in Nat /\ client.cursor \in Nat
        /\ client.got \in Seq(Nat)
        /\ client.cursor <= stream.last /\ stream.last <= Len(log)
    BY Zenon, <1>0, <2>1, Kinds DEF Ahead
  <2>3. IsClient(client', stream.last, client.got, client.lag, client.from)
    BY Zenon, <1>0, <2>1, <2>2, Updates
  <2>4. \A i \in DOMAIN client.got : client.got[i] <= stream.last
    <3> TAKE i \in DOMAIN client.got
    <3>1. client.got[i] \in Nat
      BY <2>2
    <3>2. client.got[i] <= client.cursor
      BY Zenon, <1>0 DEF Ahead
    <3> QED BY <2>2, <3>1, <3>2
  <2>5. stream.last <= stream.last
    BY <2>2
  <2>6. Ahead(log, client', stream')
    BY Zenon, <1>0, <2>1, <2>2, <2>3, <2>4, <2>5 DEF IsClient, Ahead
  <2> QED BY Zenon, <1>0, <1>move, <2>1, <2>3, <2>6 DEF IsClient
<1>14. ASSUME Disconnect PROVE RepeatInv'
  <2>1. UNCHANGED <<log, client>> /\ stream' = Off /\ sub' \in Rings /\ Mine(log, sub'.ring)
    BY Zenon, <1>14, Kinds, NoneMine DEF Disconnect
  <2>2. Ahead(log, client', stream')
    BY Zenon, <1>0, <2>1, Kinds DEF Ahead
  <2> QED BY Zenon, <1>0, <1>move, <2>1, <2>2
<1>15. CASE UNCHANGED vars
  BY Zenon, <1>15, <1>keep DEF vars
<1> QED BY Zenon, <1>2, <1>3, <1>4, <1>5, <1>6, <1>7, <1>8, <1>9, <1>10, <1>11, <1>12, <1>13, <1>14, <1>15
       DEF Next, AppendEvent, Handler

\* A client is sent the matching events in the order of the chain and none twice,
\* whichever replicas append and however often it resumes (StreamEvents).
THEOREM NothingIsSentTwice == Spec => []NoRepeat
<1>1. Init => RepeatInv
  BY RepeatInit
<1>2. RepeatInv /\ [Next]_vars => RepeatInv'
  BY RepeatStep
<1>3. RepeatInv => NoRepeat
  BY Zenon DEF RepeatInv, Ahead, Mine, Ordered, NoRepeat, Matches
<1> QED BY <1>1, <1>2, <1>3, PTL DEF Spec

\* The rows stay within their bound, and the ring within its capacity.
Bounds ==
    /\ Len(log) <= MaxSeq /\ \A r \in Replicas : app[r].at = "insert" => app[r].seq <= MaxSeq
    /\ Len(sub.ring) <= Cap /\ errors \in 0 .. MaxErrors /\ writers \in Scenarios

LEMMA BoundsStep ==
    ASSUME RepeatInv, Bounds, [Next]_vars
    PROVE  Bounds'
<1>0. /\ LogInv /\ LogInv' /\ Len(log) \in Nat /\ sub \in Rings /\ sub.ring \in Seq(Nat)
      /\ \A r \in Replicas : app[r] \in {Idle} \union Appending
  <2>1. LogInv /\ LogInv' /\ sub \in Rings /\ sub.ring \in Seq(Nat)
    BY Zenon, LogStep, Kinds DEF RepeatInv
  <2> QED BY <2>1 DEF LogInv
<1>1. Idle.at # "insert"
  BY DEF Idle
<1>2. writers' \in Scenarios
  BY Zenon DEF Bounds, Next, Record, AppendEvent, AppendStep, ReturnStep, Publish, Notify, Subscribe,
     Handler, Heartbeat, Disconnect,
     ReplayPage, ReplaySend, ReplayDone, Wake, Drain, SendLag, SendEvent, vars
<1>3. errors' \in 0 .. MaxErrors
  <2>1. errors' = errors \/ Err
    BY Zenon DEF Next, Record, AppendEvent, AppendStep, Insert, ReturnStep, ReturnError, Publish, Notify,
       Subscribe, Handler, Heartbeat, Disconnect, ReplayPage, ReplaySend, ReplayDone, Wake, Drain,
       SendLag, SendEvent, vars
  <2> QED BY <2>1, AuditLogConstants DEF Bounds, Err
<1>4. Len(sub'.ring) <= Cap
  <2>1. CASE sub'.ring = sub.ring
    BY Zenon, <2>1 DEF Bounds
  <2>2. CASE sub'.ring = <<>>
    BY <2>2, EventStreamConstants
  <2>3. ASSUME NEW n \in Nat, sub' = DropOldest(sub, n) PROVE Len(sub'.ring) <= Cap
    <3>1. CASE Len(sub.ring) = Cap
      <4>1. sub.ring # <<>>
        BY <3>1, EventStreamConstants
      <4>2. Tail(sub.ring) \in Seq(Nat) /\ Len(Tail(sub.ring)) = Len(sub.ring) - 1
        BY Zenon, <1>0, <4>1, TailIs
      <4>3. /\ Append(Tail(sub.ring), n) \in Seq(Nat) /\ Len(Append(Tail(sub.ring), n)) = Cap
            /\ sub.dropped + 1 \in Nat
        BY <1>0, <3>1, <4>2, Kinds, EventStreamConstants
      <4>4. sub' = [sub EXCEPT !.ring = Append(Tail(sub.ring), n), !.dropped = sub.dropped + 1]
        BY <2>3, <3>1 DEF DropOldest
      <4>5. IsRing(sub', Append(Tail(sub.ring), n), sub.dropped + 1, sub.notify)
        BY Zenon, <1>0, <4>3, <4>4, Updates
      <4>6. sub'.ring = Append(Tail(sub.ring), n)
        BY Zenon, <4>5 DEF IsRing
      <4> QED BY <4>3, <4>6, EventStreamConstants
    <3>2. CASE Len(sub.ring) # Cap
      <4>1. Append(sub.ring, n) \in Seq(Nat) /\ Len(Append(sub.ring, n)) = Len(sub.ring) + 1
        BY <1>0
      <4>2. sub'.ring = Append(sub.ring, n)
        BY ZenonT(60), <1>0, <2>3, <3>2, <4>1, Updates DEF DropOldest, IsRing
      <4>3. Len(sub.ring) + 1 <= Cap
        BY <1>0, <3>2, EventStreamConstants DEF Bounds
      <4> QED BY Zenon, <4>1, <4>2, <4>3
    <3> QED BY Zenon, <3>1, <3>2
  <2>4. CASE Disconnect \/ Subscribe
    BY Zenon, <2>2, <2>4, Kinds DEF Disconnect, Subscribe
  <2>5. ASSUME Wake PROVE sub'.ring = sub.ring
    <3>1. FALSE \in BOOLEAN /\ sub' = [sub EXCEPT !.notify = FALSE]
      BY Zenon, <2>5 DEF Wake
    <3> QED BY Zenon, <1>0, <3>1, Updates DEF IsRing
  <2>6. ASSUME Drain PROVE sub'.ring = <<>>
    <3>1. 0 \in Nat /\ <<>> \in Seq(Nat)
      OBVIOUS
    <3>2. sub' = [sub EXCEPT !.ring = <<>>, !.dropped = 0]
      BY Zenon, <2>6 DEF Drain
    <3>3. IsRing(sub', <<>>, 0, sub.notify)
      BY Zenon, <1>0, <3>1, <3>2, Updates
    <3> QED BY Zenon, <3>3 DEF IsRing
  <2>7. ASSUME NEW r \in Replicas, Notify(r) PROVE sub'.ring = sub.ring
    <3>1. CASE sub' = sub
      BY Zenon, <3>1
    <3>2. CASE sub' = [sub EXCEPT !.notify = TRUE]
      BY Zenon, <1>0, <3>2, Updates DEF IsRing
    <3> QED BY Zenon, <2>7, <3>1, <3>2 DEF Notify
  <2>8. ASSUME NEW r \in Replicas, Publish(r) PROVE Len(sub'.ring) <= Cap
    <3>1. app[r].seq \in Nat
      <4>1. app[r].seq \in 1 .. Len(log)
        BY Zenon, <1>0, <2>8 DEF Publish, LogInv
      <4> QED BY <1>0, <4>1
    <3> QED BY Zenon, <2>1, <2>3, <2>8, <3>1 DEF Publish
  <2>9. CASE sub' = sub
    BY Zenon, <2>1, <2>9
  <2> QED BY Zenon, <2>1, <2>2, <2>4, <2>5, <2>6, <2>7, <2>8, <2>9
         DEF Next, Record, AppendEvent, AppendStep, ReturnStep, Handler, Heartbeat, ReplayPage, ReplaySend,
             ReplayDone, SendLag, SendEvent, vars
<1>5. Len(log') <= MaxSeq
  <2>1. CASE log' = log
    BY Zenon, <2>1 DEF Bounds
  <2>2. CASE log' # log
    <3>1. PICK r \in Replicas : app[r].at = "insert" /\ app[r].seq = Len(log) + 1 /\ Len(log') = Len(log) + 1
      BY Zenon, <1>0, <2>2, LogStep
    <3> QED BY Zenon, <3>1 DEF Bounds
  <2> QED BY Zenon, <2>1, <2>2
<1>6. \A r \in Replicas : app'[r].at = "insert" => app'[r].seq <= MaxSeq
  <2>1. ASSUME NEW q \in Replicas, NEW a, app' = [app EXCEPT ![q] = a], a.at = "insert" => a.seq <= MaxSeq
        PROVE  \A r \in Replicas : app'[r].at = "insert" => app'[r].seq <= MaxSeq
    <3>1. \A r \in Replicas : app'[r] = IF r = q THEN a ELSE app[r]
      BY Zenon, <1>0, <2>1 DEF LogInv
    <3> QED BY Zenon, <2>1, <3>1 DEF Bounds
  <2>2. ASSUME NEW q \in Replicas, Record(q)
        PROVE  \E a : app' = [app EXCEPT ![q] = a] /\ (a.at = "insert" => a.seq <= MaxSeq)
    <3>1. PICK act : ReadLast(q, act)
      BY Zenon, <2>2 DEF Record
    <3>2. PICK a : a = [at |-> "insert", act |-> act, seq |-> Len(log) + 1, prev |-> Hash(Len(log))]
      BY Zenon
    <3>3. a.seq = Len(log) + 1
      BY Zenon, <3>2
    <3>4. Len(log) + 1 <= MaxSeq
      BY <1>0, <3>1, AuditLogConstants DEF ReadLast
    <3> QED BY Zenon, <3>1, <3>2, <3>3, <3>4 DEF ReadLast
  <2>3. ASSUME NEW q \in Replicas, AppendEvent(q)
        PROVE  \E a : app' = [app EXCEPT ![q] = a] /\ (a.at = "insert" => a.seq <= MaxSeq)
    <3>1. PICK x \in {"hook", "return", "notify"} :
             \/ app' = [app EXCEPT ![q] = Idle]
             \/ app' = [app EXCEPT ![q] = [app[q] EXCEPT !.at = x]]
      BY Zenon, <2>3 DEF AppendEvent, AppendStep, Insert, Commit, ReturnStep, ReturnError, Publish, Notify
    <3>2. CASE app' = [app EXCEPT ![q] = Idle]
      BY Zenon, <1>1, <3>2
    <3>3. app[q] # Idle
      <4>1. app[q].at # "idle"
        BY <2>3 DEF AppendEvent, AppendStep, Insert, ReturnStep, ReturnError, Publish, Notify
      <4> QED BY Zenon, <4>1, Fields
    <3>4. app[q] \in Appending
      BY Zenon, <1>0, <3>3
    <3>5. PICK a : a = [app[q] EXCEPT !.at = x]
      BY Zenon
    <3>6. a.at # "insert"
      <4>1. x \in {"insert", "hook", "return", "notify"} /\ x # "insert"
        BY <3>1
      <4> QED BY Zenon, <3>4, <3>5, <4>1, Fields
    <3> QED BY Zenon, <3>1, <3>2, <3>5, <3>6
  <2>4. CASE app' = app
    BY Zenon, <2>4 DEF Bounds
  <2> QED BY Zenon, <2>1, <2>2, <2>3, <2>4
         DEF Next, Subscribe, Handler, Heartbeat, Disconnect, ReplayPage, ReplaySend, ReplayDone, Wake, Drain,
             SendLag, SendEvent, vars
<1> QED BY Zenon, <1>2, <1>3, <1>4, <1>5, <1>6 DEF Bounds

LEMMA Narrowed ==
    ASSUME NEW T, NEW s \in Seq(Nat), \A i \in DOMAIN s : s[i] \in T
    PROVE  s \in Seq(T)
OBVIOUS

\* The log, the publisher, the handler and the client are well typed, and the ring
\* never holds more than its capacity (enqueue).
THEOREM EventStreamTypes == Spec => []TypeOK
<1>1. Init => Bounds
  <2> SUFFICES ASSUME Init PROVE Bounds
    OBVIOUS
  <2>1. /\ log = <<>> /\ errors = 0 /\ writers \in Scenarios /\ app = [r \in Replicas |-> Idle]
        /\ sub.ring = <<>>
    BY Zenon, Kinds DEF Init, LogInit
  <2>2. Len(log) <= MaxSeq /\ Len(sub.ring) <= Cap /\ errors \in 0 .. MaxErrors
    BY <2>1, AuditLogConstants, EventStreamConstants
  <2>3. \A r \in Replicas : app[r].at # "insert"
    BY <2>1 DEF Idle
  <2> QED BY Zenon, <2>1, <2>2, <2>3 DEF Bounds
<1>2. RepeatInv /\ Bounds /\ [Next]_vars => Bounds'
  BY BoundsStep
<1>3. RepeatInv /\ Bounds => TypeOK
  <2> SUFFICES ASSUME RepeatInv, Bounds PROVE TypeOK
    OBVIOUS
  <2>0. /\ LogInv /\ log \in Seq(Row) /\ sub.ring \in Seq(Nat) /\ sub.notify \in BOOLEAN
        /\ Mine(log, sub.ring)
        /\ stream \in {Off} \union Replaying \union Living /\ client \in Clients
        /\ Ahead(log, client, stream)
    BY Zenon, Kinds DEF RepeatInv, LogInv
  <2>1. \A i \in 1 .. Len(log) : log[i].by \in Replicas
    <3>1. \A i \in 1 .. Len(log) : log[i] \in Row
      BY <2>0
    <3> QED BY Zenon, <3>1 DEF Row
  <2>2. \A r \in Replicas : app[r].at \in {"idle", "insert", "hook", "return", "notify"}
    <3>1. \A r \in Replicas : app[r] \in {Idle} \union Appending
      BY Zenon, <2>0 DEF LogInv
    <3> QED BY <3>1, Fields
  <2>3. sub.ring \in Seq(1 .. MaxSeq)
    <3>1. Len(log) \in Nat /\ 1 .. Len(log) \subseteq 1 .. MaxSeq
      BY <2>0, AuditLogConstants DEF Bounds
    <3>2. \A i \in DOMAIN sub.ring : sub.ring[i] \in 1 .. MaxSeq
      BY Zenon, <2>0, <3>1 DEF Mine
    <3> QED BY Zenon, <2>0, <3>2, Narrowed
  <2>4. stream.at \in {"off", "replay", "live", "drain", "send"}
    <3>1. Off.at = "off"
      BY DEF Off
    <3> QED BY Zenon, <2>0, <3>1, Kinds
  <2>5. client.cursor \in 0 .. Len(log)
    <3>1. client.cursor \in Nat /\ client.cursor <= Len(log)
      BY Zenon, <2>0, Kinds DEF Ahead
    <3>2. Len(log) \in Nat
      BY <2>0
    <3> QED BY <3>1, <3>2
  <2> QED BY Zenon, <2>0, <2>1, <2>2, <2>3, <2>4, <2>5 DEF TypeOK, Bounds
<1> QED BY <1>1, <1>2, <1>3, RepeatInit, RepeatStep, PTL DEF Spec

-----------------------------------------------------------------------------
(* What is missed is reported.                                             *)

\* The events of a sequence.
LEMMA InOf ==
    /\ In(<<>>) = {}
    /\ \A s \in Seq(Nat), n \in Nat : In(Append(s, n)) = In(s) \union {n}
    /\ \A s \in Seq(Nat) : s # <<>> => In(s) = {Head(s)} \union In(Tail(s))
    /\ \A s \in Seq(Nat) : In(s) \subseteq Nat
<1>1. In(<<>>) = {}
  BY DEF In
<1>2. ASSUME NEW s \in Seq(Nat), NEW n \in Nat PROVE In(Append(s, n)) = In(s) \union {n}
  <2>1. /\ DOMAIN Append(s, n) = DOMAIN s \union {Len(s) + 1}
        /\ \A i \in DOMAIN s : Append(s, n)[i] = s[i]
        /\ Append(s, n)[Len(s) + 1] = n
    BY <1>2
  <2> QED BY Zenon, <2>1 DEF In
<1>3. ASSUME NEW s \in Seq(Nat), s # <<>> PROVE In(s) = {Head(s)} \union In(Tail(s))
  <2>1. \A i \in DOMAIN Tail(s) : \E j \in DOMAIN s : Tail(s)[i] = s[j]
    BY Zenon, <1>3, TailFrom
  <2>2. \A j \in DOMAIN s : j = 1 \/ \E i \in DOMAIN Tail(s) : Tail(s)[i] = s[j]
    <3> TAKE j \in DOMAIN s
    <3>1. j # 1 => j - 1 \in DOMAIN Tail(s) /\ Tail(s)[j - 1] = s[j]
      BY <1>3
    <3> QED BY Zenon, <3>1
  <2>3. Head(s) = s[1] /\ 1 \in DOMAIN s
    BY Zenon, <1>3, TailIs
  <2>4. ASSUME NEW x \in In(s) PROVE x = Head(s) \/ x \in In(Tail(s))
    <3>1. PICK j \in DOMAIN s : x = s[j]
      BY Zenon, <2>4 DEF In
    <3>2. CASE j = 1
      BY Zenon, <2>3, <3>1, <3>2
    <3>3. CASE j # 1
      BY Zenon, <2>2, <3>1, <3>3 DEF In
    <3> QED BY Zenon, <3>2, <3>3
  <2>5. ASSUME NEW x \in In(Tail(s)) PROVE x \in In(s)
    BY Zenon, <2>1, <2>5 DEF In
  <2>6. Head(s) \in In(s)
    BY Zenon, <2>3 DEF In
  <2> QED BY Zenon, <2>4, <2>5, <2>6
<1>4. ASSUME NEW s \in Seq(Nat) PROVE In(s) \subseteq Nat
  <2>1. \A i \in DOMAIN s : s[i] \in Nat
    BY <1>4
  <2> QED BY Zenon, <2>1 DEF In
<1> QED BY Zenon, <1>1, <1>2, <1>3, <1>4

\* The rest of an ascending sequence ascends, above its head.
LEMMA OrderedTail ==
    ASSUME NEW s \in Seq(Nat), s # <<>>, Ordered(s)
    PROVE  Ordered(Tail(s)) /\ \A n \in In(Tail(s)) : Head(s) < n
<1>1. /\ 1 \in DOMAIN s /\ Head(s) = s[1]
      /\ \A i \in DOMAIN Tail(s) : i \in Nat \ {0} /\ i + 1 \in DOMAIN s /\ Tail(s)[i] = s[i + 1]
  BY Zenon, TailIs
<1>2. ASSUME NEW i \in DOMAIN Tail(s), NEW j \in DOMAIN Tail(s), i < j PROVE Tail(s)[i] < Tail(s)[j]
  <2>1. i \in Nat \ {0} /\ j \in Nat \ {0}
    BY Zenon, <1>1
  <2>2. i + 1 < j + 1
    BY <1>2, <2>1
  <2> QED BY Zenon, <1>1, <2>2 DEF Ordered
<1>3. ASSUME NEW i \in DOMAIN Tail(s) PROVE Head(s) < Tail(s)[i]
  <2>1. i \in Nat \ {0}
    BY Zenon, <1>1
  <2>2. 1 < i + 1
    BY <2>1
  <2> QED BY Zenon, <1>1, <2>2 DEF Ordered
<1> QED BY Zenon, <1>2, <1>3 DEF Ordered, In

\* The append of Home's newest event is over: it is published, or its error returned.
Settles == Publish(Home) \/ ReturnStep(Home)

\* With one replica, an event is published by its hook and nothing else is.
LEMMA SoloStep ==
    ASSUME LogInv, Solo, [Next]_vars
    PROVE  /\ Solo' /\ Published \in Nat /\ Published <= Len(log)
           /\ ~Settles => Published' = Published
           /\ Settles => log' = log /\ Len(log) = Published + 1 /\ Published' = Published + 1
           /\ Publish(Home) => app[Home].seq = Published + 1
           /\ ReturnStep(Home) => log[Published + 1].quiet
<1>0. /\ Len(log) \in Nat /\ Home \in Replicas /\ app[Home] \in {Idle} \union Appending
      /\ \A r \in Replicas : app[r] \in {Idle} \union Appending
  BY EventStreamConstants DEF LogInv
<1>1. Published \in Nat /\ Published <= Len(log)
  <2>1. app[Home].at \in {"hook", "return"} => Len(log) \in 1 .. Len(log)
    BY Zenon, <1>0 DEF LogInv, Solo
  <2>2. CASE app[Home].at \in {"hook", "return"}
    BY <1>0, <2>1, <2>2 DEF Published
  <2>3. CASE app[Home].at \notin {"hook", "return"}
    BY <1>0, <2>3 DEF Published
  <2> QED BY Zenon, <2>2, <2>3
<1>2. ASSUME NEW r \in Replicas, Record(r) \/ AppendEvent(r) PROVE r = Home
  <2>1. r \in writers \/ app[r].at \in {"insert", "hook", "return", "notify"}
    BY Zenon, <1>2 DEF Record, AppendEvent, AppendStep, Insert, ReturnStep, ReturnError, Publish, Notify
  <2>2. app[r].at \in {"insert", "hook", "return", "notify"} => app[r] # Idle
    <3>1. Idle.at = "idle"
      BY Zenon DEF Idle
    <3>2. "idle" \notin {"insert", "hook", "return", "notify"}
      OBVIOUS
    <3> QED BY Zenon, <3>1, <3>2
  <2> QED BY Zenon, <2>1, <2>2 DEF Solo
\* The append of Home goes on.
<1>3. ASSUME NEW a, app' = [app EXCEPT ![Home] = a], writers' = writers,
             a.at \in {"hook", "return", "notify"} => a.seq = Len(log'),
             a.at = "return" => log'[Len(log')].quiet
      PROVE  Solo' /\ app'[Home] = a
  <2>1. \A r \in Replicas : app'[r] = IF r = Home THEN a ELSE app[r]
    BY Zenon, <1>3 DEF LogInv
  <2> QED BY Zenon, <1>0, <1>3, <2>1 DEF Solo
<1>idle. Idle.at = "idle" /\ Idle.at \notin {"hook", "return", "notify"} /\ Idle.at \notin {"hook", "return"}
  BY DEF Idle
<1>4. ASSUME Record(Home) PROVE Solo' /\ Published' = Published /\ ~Settles
  <2>1. PICK a : /\ app' = [app EXCEPT ![Home] = a] /\ a.at = "insert"
                 /\ app[Home] = Idle /\ UNCHANGED <<log, writers>>
    <3>1. PICK act : ReadLast(Home, act) /\ UNCHANGED <<log, writers>>
      BY Zenon, <1>4 DEF Record
    <3>2. [at |-> "insert", act |-> act, seq |-> Len(log) + 1, prev |-> Hash(Len(log))].at = "insert"
      OBVIOUS
    <3> QED BY Zenon, <3>1, <3>2 DEF ReadLast
  <2>2. a.at # "return" /\ a.at \notin {"hook", "return"} /\ a.at \notin {"hook", "return", "notify"}
    BY <2>1
  <2>3. Solo' /\ app'[Home] = a
    BY Zenon, <1>3, <2>1, <2>2
  <2> QED BY Zenon, <1>idle, <2>1, <2>2, <2>3 DEF Published, Settles, Publish, ReturnStep, ReturnError
<1>5. ASSUME AppendStep(Home) PROVE Solo' /\ Published' = Published /\ ~Settles
  <2>1. /\ Insert(Home) /\ app[Home].at = "insert" /\ app[Home].at \notin {"hook", "return"}
        /\ writers' = writers
    BY <1>5 DEF AppendStep, Insert
  <2>2. ~Settles
    BY Zenon, <2>1 DEF Settles, Publish, ReturnStep, ReturnError
  <2>3. CASE log' = log /\ app' = [app EXCEPT ![Home] = Idle]
    <3>1. Solo' /\ app'[Home] = Idle
      BY Zenon, <1>3, <1>idle, <2>1, <2>3
    <3> QED BY Zenon, <1>idle, <2>1, <2>2, <2>3, <3>1 DEF Published
  <2>4. ASSUME NEW next \in {"hook", "return"}, Stored(Home, next)
        PROVE  Solo' /\ Published' = Published
    <3>0. app[Home] \in Appending
      BY Zenon, <1>0, <1>idle, <2>1, Fields
    <3>1. PICK a : a = [app[Home] EXCEPT !.at = next]
      BY Zenon
    <3>2. PICK row \in Row : (next = "return" => row.quiet) /\ log' = Append(log, row)
      BY Zenon, <1>0, <2>4, <3>0, RowIs DEF Stored
    <3>3. Len(log') = Len(log) + 1 /\ log'[Len(log')] = row /\ DOMAIN log = 1 .. Len(log)
      BY <3>2 DEF LogInv
    <3>4. app[Home].seq = Len(log')
      <4>1. app[Home].seq \in 1 .. Len(log) + 1 /\ app[Home].seq \notin DOMAIN log
        BY Zenon, <1>0, <2>1, <2>4 DEF LogInv, Stored
      <4> QED BY <1>0, <3>3, <4>1
    <3>5. a.at = next /\ a.seq = Len(log')
      <4>1. next \in {"insert", "hook", "return", "notify"}
        OBVIOUS
      <4> QED BY Zenon, <3>0, <3>1, <3>4, <4>1, Fields
    <3>6. Solo' /\ app'[Home] = a
      <4>1. app' = [app EXCEPT ![Home] = a]
        BY Zenon, <2>4, <3>1 DEF Stored
      <4> QED BY Zenon, <1>3, <2>1, <3>2, <3>3, <3>5, <4>1
    <3>7. Published' = Len(log') - 1
      BY Zenon, <3>5, <3>6 DEF Published
    <3>8. Published' = Len(log)
      BY <1>0, <3>3, <3>7
    <3> QED BY Zenon, <2>1, <3>6, <3>8 DEF Published
  <2> QED BY Zenon, <2>1, <2>2, <2>3, <2>4, InsertIs
\* The newest event is past its hook.
<1>past. ASSUME app[Home].at \in {"hook", "return"}, UNCHANGED <<log, writers>>,
                NEW a, app' = [app EXCEPT ![Home] = a], a.at \notin {"hook", "return"}, a.at # "return",
                a.at \in {"hook", "return", "notify"} => a.seq = Len(log)
         PROVE  /\ Solo' /\ log' = log /\ Len(log) = Published + 1 /\ app[Home].seq = Published + 1
                /\ Published' = Published + 1 /\ app' # app
  <2>1. app[Home].seq = Len(log) /\ Published = Len(log) - 1
    BY Zenon, <1>past DEF Solo, Published
  <2>2. Len(log) = Published + 1
    BY <1>0, <2>1
  <2>3. Solo' /\ app'[Home] = a
    BY Zenon, <1>3, <1>past
  <2>4. Published' = Len(log) /\ app' # app
    BY Zenon, <1>past, <2>3 DEF Published
  <2> QED BY Zenon, <1>past, <2>1, <2>2, <2>3, <2>4
<1>6. ASSUME Publish(Home)
      PROVE  /\ Solo' /\ log' = log /\ Len(log) = Published + 1 /\ app[Home].seq = Published + 1
             /\ Published' = Published + 1 /\ app' # app /\ ~ReturnStep(Home)
  <2>1. /\ app[Home].at = "hook" /\ UNCHANGED <<log, writers>>
        /\ \/ app' = [app EXCEPT ![Home] = Idle]
           \/ app' = [app EXCEPT ![Home] = [app[Home] EXCEPT !.at = "notify"]]
    BY Zenon, <1>6 DEF Publish
  <2>2. app[Home].at \in {"hook", "return"} /\ app[Home].at # "return"
    BY <2>1
  <2>3. app[Home] \in Appending /\ app[Home].seq = Len(log)
    BY Zenon, <1>0, <1>idle, <2>2 DEF Solo
  <2>4. "notify" \notin {"hook", "return"} /\ "notify" # "return" /\ Idle.at # "return"
    BY DEF Idle
  <2>5. PICK a : /\ app' = [app EXCEPT ![Home] = a] /\ a.at \notin {"hook", "return"} /\ a.at # "return"
                 /\ a.at \in {"hook", "return", "notify"} => a.seq = Len(log)
    <3>1. PICK b : b = [app[Home] EXCEPT !.at = "notify"]
      BY Zenon
    <3>2. b.at = "notify" /\ b.seq = Len(log)
      BY Zenon, <2>3, <3>1, Fields
    <3>3. CASE app' = [app EXCEPT ![Home] = Idle]
      BY Zenon, <1>idle, <2>4, <3>3
    <3>4. CASE app' = [app EXCEPT ![Home] = b]
      BY Zenon, <2>4, <3>2, <3>4
    <3> QED BY Zenon, <2>1, <3>1, <3>3, <3>4
  <2> QED BY Zenon, <1>past, <2>1, <2>2, <2>5 DEF ReturnStep, ReturnError
<1>back. ASSUME ReturnStep(Home)
         PROVE  /\ Solo' /\ log' = log /\ Len(log) = Published + 1 /\ log[Published + 1].quiet
                /\ Published' = Published + 1 /\ app' # app
  <2>1. /\ app[Home].at = "return" /\ app[Home].at \in {"hook", "return"} /\ Idle.at # "return"
        /\ app' = [app EXCEPT ![Home] = Idle] /\ UNCHANGED <<log, writers>>
    BY Zenon, <1>back, <1>idle DEF ReturnStep, ReturnError
  <2>2. /\ Solo' /\ log' = log /\ Len(log) = Published + 1 /\ Published' = Published + 1 /\ app' # app
    BY Zenon, <1>past, <1>idle, <2>1
  <2> QED BY Zenon, <2>1, <2>2 DEF Solo
<1>7. ASSUME Notify(Home) PROVE Solo' /\ Published' = Published /\ ~Settles
  <2>1. /\ app[Home].at = "notify" /\ app[Home].at \notin {"hook", "return"}
        /\ app' = [app EXCEPT ![Home] = Idle] /\ UNCHANGED <<log, writers>> /\ Idle.at # "return"
    BY <1>7 DEF Notify, Idle
  <2>2. Solo' /\ app'[Home] = Idle
    BY Zenon, <1>3, <1>idle, <2>1
  <2> QED BY Zenon, <1>idle, <2>1, <2>2 DEF Published, Settles, Publish, ReturnStep, ReturnError
<1>8. ASSUME UNCHANGED <<log, app, writers>> PROVE Solo' /\ Published' = Published
  BY Zenon, <1>8 DEF Solo, Published
<1>9. Settles => app' # app
  BY Zenon, <1>6, <1>back DEF Settles
<1>10. CASE Subscribe \/ Handler \/ Heartbeat \/ Disconnect \/ UNCHANGED vars
  <2>1. UNCHANGED <<log, app, writers>>
    BY Zenon, <1>10 DEF Subscribe, Handler, Heartbeat, Disconnect, ReplayPage, ReplaySend, ReplayDone, Wake,
       Drain, SendLag, SendEvent, vars
  <2> QED BY Zenon, <1>1, <1>8, <1>9, <2>1 DEF Settles
<1>11. CASE \E r \in Replicas : Record(r) \/ AppendEvent(r)
  <2>1. Record(Home) \/ AppendStep(Home) \/ ReturnStep(Home) \/ Publish(Home) \/ Notify(Home)
    BY Zenon, <1>2, <1>11 DEF AppendEvent
  <2> QED BY Zenon, <1>1, <1>4, <1>5, <1>6, <1>back, <1>7, <2>1 DEF Settles
<1> QED BY Zenon, <1>10, <1>11 DEF Next

\* The log grows behind what is published.
LEMMA ReportKept ==
    ASSUME NEW l \in Seq(Row), NEW m \in Seq(Row), Longer(l, m), NEW c \in Clients, NEW s, NEW p \in Nat,
           NEW st \in {Off} \union Replaying \union Living, Ahead(l, c, st), p <= Len(l),
           Report(l, c, s, st, p)
    PROVE  Report(m, c, s, st, p)
<1>1. Len(l) \in Nat /\ c.from \in Nat
  BY Kinds
<1>2. ASSUME NEW k \in Nat, k <= Len(l), NEW n \in c.from + 1 .. k PROVE m[n] = l[n]
  <2>1. n \in 1 .. Len(l)
    BY <1>1, <1>2
  <2> QED BY Zenon, <2>1 DEF Longer
<1>3. ASSUME NEW k \in Nat, k <= Len(l) PROVE Unsent(m, c, k) = Unsent(l, c, k)
  BY Zenon, <1>2, <1>3 DEF Unsent, Owed
<1>4. ASSUME NEW k, NEW S, Within(l, c, k, p, S) PROVE Within(m, c, k, p, S)
  BY Zenon, <1>2, <1>4 DEF Within, Owed
<1>5. st = Off => c.cursor \in Nat /\ c.cursor <= Len(l)
  BY Zenon, Kinds DEF Ahead
<1>6. st # Off => st.last \in Nat /\ st.last <= Len(l)
  BY Zenon, Kinds DEF Ahead
<1>7. Few(Unsent(m, c, IF st = Off THEN c.cursor ELSE st.last), c.lag)
  BY Zenon, <1>3, <1>5, <1>6 DEF Report
<1>8. ASSUME st \in Replaying PROVE ReplayReport(m, c, s, st, p)
  BY Zenon, <1>4, <1>8 DEF Report, ReplayReport
<1>9. ASSUME st \in Living PROVE LiveReport(m, c, s, st, p)
  <2>1. Unsent(m, c, st.last) = Unsent(l, c, st.last)
    BY Zenon, <1>3, <1>6, <1>9, Kinds
  <2> QED BY Zenon, <1>4, <1>9, <2>1 DEF Report, LiveReport
<1> QED BY Zenon, <1>7, <1>8, <1>9 DEF Report

\* A ring d that has taken up n: what left it (D) is counted.
Joined(s, d, n) ==
    /\ Ordered(d.ring) /\ In(d.ring) \subseteq In(s.ring) \union {n}
    /\ \E D \in SUBSET In(s.ring) : /\ In(s.ring) \subseteq D \union In(d.ring)
                                    /\ \A B : Few(B, s.dropped) => Few(B \union D, d.dropped)

\* The newest event is published: it joins the ring or it does not match.
LEMMA ReportPublished ==
    ASSUME NEW l, NEW c \in Clients, NEW s \in Rings, NEW d \in Rings, NEW p \in Nat,
           NEW st \in {Off} \union Replaying \union Living, Report(l, c, s, st, p),
           Joined(s, d, p + 1), st # Off /\ Owed(l, p + 1) => p + 1 \in In(d.ring)
    PROVE  Report(l, c, d, st, p + 1)
<1>0. PICK D \in SUBSET In(s.ring) : /\ In(s.ring) \subseteq D \union In(d.ring)
                                     /\ \A B : Few(B, s.dropped) => Few(B \union D, d.dropped)
  BY Zenon DEF Joined
<1>1. /\ p + 1 \in Nat /\ p <= p + 1 /\ p + 1 <= p + 1 /\ c.from \in Nat /\ s.ring \in Seq(Nat)
      /\ d.ring \in Seq(Nat)
  BY Kinds
<1>2. \A n \in In(s.ring) : n \in Nat /\ n <= p
  <2>1. In(s.ring) \subseteq Nat /\ \A i \in DOMAIN s.ring : s.ring[i] <= p
    BY Zenon, <1>1, InOf DEF Report
  <2> QED BY Zenon, <2>1 DEF In
<1>3. \A i \in DOMAIN d.ring : d.ring[i] <= p + 1
  <2>1. \A n \in In(s.ring) \union {p + 1} : n <= p + 1
    <3>1. \A n \in In(s.ring) : n <= p + 1
      BY <1>2
    <3> QED BY Zenon, <1>1, <3>1
  <2>2. In(d.ring) \subseteq In(s.ring) \union {p + 1}
    BY Zenon DEF Joined
  <2> QED BY Zenon, <2>1, <2>2 DEF In
<1>4. ASSUME st # Off, NEW k \in Nat, NEW S, Within(l, c, k, p, S \union In(s.ring))
      PROVE  Within(l, c, k, p + 1, S \union D \union In(d.ring))
  <2> SUFFICES ASSUME NEW n \in c.from + 1 .. p + 1, Owed(l, n), n > k
               PROVE  n \in S \union D \union In(d.ring)
    BY Zenon DEF Within
  <2>1. n = p + 1 \/ n \in c.from + 1 .. p
    BY <1>1
  <2>2. CASE n = p + 1
    BY Zenon, <1>4, <2>2
  <2>3. CASE n \in c.from + 1 .. p
    BY Zenon, <1>0, <1>4, <2>3 DEF Within
  <2> QED BY Zenon, <2>1, <2>2, <2>3
<1>5. D \subseteq Nat
  BY Zenon, <1>2
<1>6. ASSUME st \in Replaying PROVE ReplayReport(l, c, d, st, p + 1)
  <2>1. PICK k \in Nat, B \in SUBSET Nat :
            /\ ~st.more => k <= st.last + Len(st.todo)
            /\ Few(B, s.dropped)
            /\ Within(l, c, k, p, B \union In(s.ring))
    BY Zenon, <1>6 DEF Report, ReplayReport
  <2>2. st # Off /\ B \union D \in SUBSET Nat
    BY Zenon, <1>5, <1>6, Kinds
  <2>3. Within(l, c, k, p + 1, (B \union D) \union In(d.ring)) /\ Few(B \union D, d.dropped)
    BY Zenon, <1>0, <1>4, <2>1, <2>2
  <2> QED BY Zenon, <2>1, <2>2, <2>3 DEF ReplayReport
<1>7. ASSUME st \in Living PROVE LiveReport(l, c, d, st, p + 1)
  <2>1. PICK A \in SUBSET Nat, B \in SUBSET Nat :
            /\ Few(Unsent(l, c, st.last) \union A, c.lag + st.lag) /\ Few(B, s.dropped)
            /\ Within(l, c, st.last, p, A \union In(st.todo) \union B \union In(s.ring))
            /\ Ordered(st.todo)
            /\ \A i \in DOMAIN st.todo : /\ \A b \in B \union In(s.ring) : st.todo[i] < b
                                         /\ st.todo[i] <= p
            /\ st.at # "send" => st.todo = <<>> /\ st.lag = 0
    BY Zenon, <1>7 DEF Report, LiveReport
  <2>2. st # Off /\ B \union D \in SUBSET Nat /\ st.last \in Nat /\ st.todo \in Seq(Nat)
    BY Zenon, <1>5, <1>7, Kinds
  <2>3. /\ Within(l, c, st.last, p + 1, (A \union In(st.todo) \union B) \union D \union In(d.ring))
        /\ Few(B \union D, d.dropped)
    BY Zenon, <1>0, <1>4, <2>1, <2>2
  <2>4. Within(l, c, st.last, p + 1, A \union In(st.todo) \union (B \union D) \union In(d.ring))
    BY Zenon, <2>3 DEF Within
  <2>5. \A i \in DOMAIN st.todo : /\ \A b \in (B \union D) \union In(d.ring) : st.todo[i] < b
                                  /\ st.todo[i] <= p + 1
    <3> TAKE i \in DOMAIN st.todo
    <3>1. st.todo[i] \in Nat
      BY <2>2
    <3>2. st.todo[i] <= p /\ \A b \in B \union In(s.ring) : st.todo[i] < b
      BY Zenon, <2>1
    <3>3. st.todo[i] < p + 1 /\ st.todo[i] <= p + 1
      BY <3>1, <3>2
    <3>4. \A b \in (B \union D) \union In(d.ring) : b \in B \union In(s.ring) \/ b = p + 1
      BY Zenon DEF Joined
    <3> QED BY Zenon, <3>2, <3>3, <3>4
  <2>6. /\ Few(Unsent(l, c, st.last) \union A, c.lag + st.lag) /\ Few(B \union D, d.dropped)
        /\ Within(l, c, st.last, p + 1, A \union In(st.todo) \union (B \union D) \union In(d.ring))
        /\ Ordered(st.todo)
        /\ \A i \in DOMAIN st.todo : /\ \A b \in (B \union D) \union In(d.ring) : st.todo[i] < b
                                     /\ st.todo[i] <= p + 1
        /\ st.at # "send" => st.todo = <<>> /\ st.lag = 0
    BY Zenon, <2>1, <2>3, <2>4, <2>5
  <2> QED BY Zenon, <2>2, <2>6 DEF LiveReport
<1> QED BY Zenon, <1>3, <1>6, <1>7 DEF Report, Joined

\* A page of the log is to be sent; the last one reaches the head.
LEMMA ReportPage ==
    ASSUME NEW l, NEW c \in Clients, NEW s \in Rings, NEW p \in Nat, NEW st \in Replaying,
           Report(l, c, s, st, p),
           NEW to \in Nat, p <= to, NEW z, NEW t \in Seq(Nat), NEW m,
           IsReplaying(z, st.last, t, m), ~m => st.last + Len(t) = to
    PROVE  Report(l, c, s, z, p)
<1>1. /\ Few(Unsent(l, c, z.last), c.lag) /\ z \in Replaying /\ z # Off /\ z \notin Living
      /\ z.last = st.last /\ z.todo = t /\ z.more = m
  BY Zenon, Kinds DEF Report, IsReplaying
<1>2. PICK k \in Nat, B \in SUBSET Nat : Few(B, s.dropped) /\ Within(l, c, k, p, B \union In(s.ring))
  BY Zenon DEF Report, ReplayReport
<1>3. PICK j \in Nat : j <= to /\ Within(l, c, j, p, B \union In(s.ring))
  <2>1. CASE k <= to
    BY Zenon, <1>2, <2>1
  <2>2. CASE ~(k <= to)
    <3>1. \A n \in c.from + 1 .. p : ~(n > to)
      BY Kinds
    <3>2. to <= to
      OBVIOUS
    <3> QED BY Zenon, <3>1, <3>2 DEF Within
  <2> QED BY Zenon, <2>1, <2>2
<1>4. ~z.more => j <= z.last + Len(z.todo)
  BY Zenon, <1>1, <1>3
<1>5. ReplayReport(l, c, s, z, p)
  BY Zenon, <1>2, <1>3, <1>4 DEF ReplayReport
<1> QED BY Zenon, <1>1, <1>5 DEF Report

\* What a client was not sent, once the watermark passes n: the event goes out or
\* does not match, and those that are jumped are in A.
Passed(l, c, d, n) ==
    \/ d = c /\ ~Owed(l, n)
    \/ IsClient(d, n, Append(c.got, n), c.lag, c.from)

Jumped(l, c, k, n, A) == \A i \in c.from + 1 .. n : Owed(l, i) /\ i > k /\ i # n => i \in A

LEMMA UnsentPast ==
    ASSUME NEW l, NEW c \in Clients, NEW n \in Nat, NEW k \in Nat, k < n,
           NEW d, Passed(l, c, d, n), NEW A, Jumped(l, c, k, n, A)
    PROVE  Unsent(l, d, n) \subseteq Unsent(l, c, k) \union A
<1>1. c.from \in Nat /\ c.got \in Seq(Nat)
  BY Zenon, Kinds
<1>2. d.from = c.from /\ In(c.got) \subseteq In(d.got) /\ (Owed(l, n) => n \in In(d.got))
  <2>1. CASE d = c /\ ~Owed(l, n)
    BY Zenon, <2>1
  <2>2. CASE IsClient(d, n, Append(c.got, n), c.lag, c.from)
    <3>1. In(Append(c.got, n)) = In(c.got) \union {n}
      BY Zenon, <1>1, InOf
    <3> QED BY Zenon, <2>2, <3>1 DEF IsClient
  <2> QED BY Zenon, <2>1, <2>2 DEF Passed
<1> SUFFICES ASSUME NEW i \in c.from + 1 .. n, Owed(l, i), i \notin In(d.got)
             PROVE  i \in Unsent(l, c, k) \union A
  BY Zenon, <1>2 DEF Unsent
<1>3. i # n /\ i \notin In(c.got)
  BY Zenon, <1>2
<1>4. i > k \/ i \in c.from + 1 .. k
  BY <1>1
<1>5. CASE i > k
  BY Zenon, <1>3, <1>5 DEF Jumped
<1>6. CASE i \in c.from + 1 .. k
  BY Zenon, <1>3, <1>6 DEF Unsent
<1> QED BY Zenon, <1>4, <1>5, <1>6

\* The last page is sent and the stream goes live.
LEMMA ReportLive ==
    ASSUME NEW l, NEW c \in Clients, NEW s \in Rings, NEW p \in Nat, NEW st \in Replaying,
           Report(l, c, s, st, p),
           st.todo = <<>>, ~st.more, NEW z, IsLiving(z, "live", st.last, <<>>, 0)
    PROVE  Report(l, c, s, z, p)
<1>1. st.last \in Nat /\ c.lag \in Nat /\ c.from \in Nat /\ st # Off
  BY Zenon, Kinds
<1>2. /\ z \in Living /\ z # Off /\ z \notin Replaying /\ z.at = "live" /\ z.last = st.last
      /\ z.todo = <<>> /\ z.lag = 0
  BY Zenon, Kinds DEF IsLiving
<1>3. PICK k \in Nat, B \in SUBSET Nat :
          k <= st.last + Len(st.todo) /\ Few(B, s.dropped) /\ Within(l, c, k, p, B \union In(s.ring))
  BY Zenon DEF Report, ReplayReport
<1>4. \A n \in c.from + 1 .. p : n > z.last => n > k
  <2>1. k <= z.last
    BY <1>1, <1>2, <1>3
  <2> QED BY <1>1, <1>2, <2>1
<1>5. Within(l, c, z.last, p, {} \union In(z.todo) \union B \union In(s.ring))
  BY Zenon, <1>3, <1>4 DEF Within
<1>6. Few(Unsent(l, c, z.last) \union {}, c.lag + z.lag)
  <2>1. c.lag + z.lag = c.lag
    BY <1>1, <1>2
  <2>2. Unsent(l, c, z.last) \union {} = Unsent(l, c, z.last)
    BY Zenon
  <2> QED BY Zenon, <1>1, <1>2, <2>1, <2>2 DEF Report
<1>7. DOMAIN z.todo = {} /\ {} \in SUBSET Nat
  BY <1>2
<1>8. LiveReport(l, c, s, z, p)
  BY Zenon, <1>2, <1>3, <1>5, <1>6, <1>7 DEF LiveReport, Ordered
<1> QED BY Zenon, <1>1, <1>2, <1>8 DEF Report

\* The loop takes the wakeup, or has sent all.
LEMMA ReportWake ==
    ASSUME NEW l, NEW c \in Clients, NEW s \in Rings, NEW p \in Nat, NEW st \in Living,
           Report(l, c, s, st, p),
           NEW x, NEW z, IsLiving(z, x, st.last, st.todo, st.lag),
           x # "send" => st.todo = <<>> /\ st.lag = 0
    PROVE  Report(l, c, s, z, p)
<1>1. /\ z \in Living /\ z # Off /\ st # Off /\ z \notin Replaying
      /\ z.at = x /\ z.last = st.last /\ z.todo = st.todo /\ z.lag = st.lag
  BY Zenon, Kinds DEF IsLiving
<1>2. LiveReport(l, c, s, st, p)
  BY Zenon DEF Report
<1>3. LiveReport(l, c, s, z, p)
  BY Zenon, <1>1, <1>2 DEF LiveReport
<1> QED BY Zenon, <1>1, <1>3 DEF Report

\* An event that the replay has passed is skipped.
LEMMA ReportSkip ==
    ASSUME NEW l, NEW c \in Clients, NEW s \in Rings, NEW p \in Nat, NEW st \in Living,
           Report(l, c, s, st, p),
           st.at = "send", st.todo # <<>>, ~(Head(st.todo) > st.last),
           NEW z, IsLiving(z, st.at, st.last, Tail(st.todo), st.lag)
    PROVE  Report(l, c, s, z, p)
<1>1. st.todo \in Seq(Nat) /\ st # Off
  BY Zenon, Kinds
<1>2. /\ z \in Living /\ z # Off /\ z \notin Replaying /\ z.at = "send" /\ z.last = st.last
      /\ z.todo = Tail(st.todo) /\ z.lag = st.lag
  BY Zenon, Kinds DEF IsLiving
<1>3. PICK A \in SUBSET Nat, B \in SUBSET Nat :
          /\ Few(Unsent(l, c, st.last) \union A, c.lag + st.lag) /\ Few(B, s.dropped)
          /\ Within(l, c, st.last, p, A \union In(st.todo) \union B \union In(s.ring))
          /\ Ordered(st.todo) /\ \A i \in DOMAIN st.todo : /\ \A b \in B \union In(s.ring) : st.todo[i] < b
                                                           /\ st.todo[i] <= p
  BY Zenon DEF Report, LiveReport
<1>4. In(st.todo) = {Head(st.todo)} \union In(Tail(st.todo)) /\ Ordered(Tail(st.todo))
  BY Zenon, <1>1, <1>3, InOf, OrderedTail
<1>5. Within(l, c, z.last, p, A \union In(z.todo) \union B \union In(s.ring))
  BY Zenon, <1>2, <1>3, <1>4 DEF Within
<1>6. \A i \in DOMAIN z.todo : z.todo[i] <= p /\ \A b \in B \union In(s.ring) : z.todo[i] < b
  <2>1. \A i \in DOMAIN Tail(st.todo) : \E j \in DOMAIN st.todo : Tail(st.todo)[i] = st.todo[j]
    BY Zenon, <1>1, TailFrom
  <2> QED BY Zenon, <1>2, <1>3, <2>1
<1>7. LiveReport(l, c, s, z, p)
  BY Zenon, <1>2, <1>3, <1>4, <1>5, <1>6 DEF LiveReport
<1> QED BY Zenon, <1>1, <1>2, <1>7 DEF Report

-----------------------------------------------------------------------------
(* Counting what is missed.                                                *)

\* What is used of cardinalities; Counting shows that it holds.
CardinalityFacts ==
    /\ \A S, T, k : Few(S, k) /\ T \subseteq S /\ k \in Nat => Few(T, k)
    /\ \A S, k, m : Few(S, k) /\ k \in Nat /\ m \in Nat /\ k <= m => Few(S, m)
    /\ \A S, T, k, m : Few(S, k) /\ Few(T, m) /\ k \in Nat /\ m \in Nat => Few(S \union T, k + m)
    /\ \A x : Few({x}, 1)
    /\ \A k \in Nat : Few({}, k)

LEMMA FewSubset ==
    ASSUME CardinalityFacts, NEW S, NEW T, NEW k \in Nat, Few(S, k), T \subseteq S PROVE Few(T, k)
BY Zenon DEF CardinalityFacts

LEMMA FewUnion ==
    ASSUME CardinalityFacts, NEW S, NEW T, NEW k \in Nat, NEW m \in Nat, Few(S, k), Few(T, m)
    PROVE  Few(S \union T, k + m)
BY Zenon DEF CardinalityFacts

\* The ring of a subscriber after an event that is newer than all it holds.
LEMMA Enqueued ==
    ASSUME CardinalityFacts, NEW s \in Rings, NEW n \in Nat,
           Ordered(s.ring), \A i \in DOMAIN s.ring : s.ring[i] < n,
           NEW d, d = DropOldest(s, n)
    PROVE  d \in Rings /\ Joined(s, d, n) /\ n \in In(d.ring)
<1>1. s.ring \in Seq(Nat) /\ s.dropped \in Nat
  BY Zenon, Kinds
<1>2. CASE Len(s.ring) = Cap
  <2>1. s.ring # <<>>
    BY <1>2, EventStreamConstants
  <2>2. /\ Tail(s.ring) \in Seq(Nat) /\ Ordered(Tail(s.ring))
        /\ In(s.ring) = {Head(s.ring)} \union In(Tail(s.ring))
    BY Zenon, <1>1, <2>1, TailIs, OrderedTail, InOf
  <2>3. \A i \in DOMAIN Tail(s.ring) : Tail(s.ring)[i] < n
    BY Zenon, <1>1, <2>1, TailIs
  <2>4. Append(Tail(s.ring), n) \in Seq(Nat) /\ s.dropped + 1 \in Nat
    BY <1>1, <2>2
  <2>5. Ordered(Append(Tail(s.ring), n)) /\ In(Append(Tail(s.ring), n)) = In(Tail(s.ring)) \union {n}
    BY Zenon, <2>2, <2>3, OrderedAppend, InOf
  <2>6. IsRing(d, Append(Tail(s.ring), n), s.dropped + 1, s.notify)
    BY Zenon, <1>2, <2>4, Updates DEF DropOldest
  <2>7. \A B : Few(B, s.dropped) => Few(B \union {Head(s.ring)}, s.dropped + 1)
    <3>1. 1 \in Nat
      OBVIOUS
    <3> QED BY Zenon, <1>1, <3>1, FewUnion DEF CardinalityFacts
  <2>8. {Head(s.ring)} \in SUBSET In(s.ring)
    BY Zenon, <2>2
  <2>9. In(s.ring) \subseteq {Head(s.ring)} \union In(d.ring)
    BY Zenon, <2>2, <2>5, <2>6 DEF IsRing
  <2>10. \E D \in SUBSET In(s.ring) : /\ In(s.ring) \subseteq D \union In(d.ring)
                                      /\ \A B : Few(B, s.dropped) => Few(B \union D, d.dropped)
    <3>1. /\ In(s.ring) \subseteq {Head(s.ring)} \union In(d.ring)
          /\ \A B : Few(B, s.dropped) => Few(B \union {Head(s.ring)}, d.dropped)
      BY Zenon, <2>6, <2>7, <2>9 DEF IsRing
    <3> QED BY Zenon, <2>8, <3>1
  <2> QED BY Zenon, <2>2, <2>5, <2>6, <2>10 DEF IsRing, Joined
<1>3. CASE Len(s.ring) # Cap
  <2>1. Append(s.ring, n) \in Seq(Nat)
    BY <1>1
  <2>2. Ordered(Append(s.ring, n)) /\ In(Append(s.ring, n)) = In(s.ring) \union {n}
    BY Zenon, <1>1, OrderedAppend, InOf
  <2>3. IsRing(d, Append(s.ring, n), s.dropped, s.notify)
    BY Zenon, <1>3, <2>1, Updates DEF DropOldest
  <2>4. \A B : B \union {} = B
    BY Zenon
  <2>5. \E D \in SUBSET In(s.ring) : /\ In(s.ring) \subseteq D \union In(d.ring)
                                     /\ \A B : Few(B, s.dropped) => Few(B \union D, d.dropped)
    <3>1. {} \in SUBSET In(s.ring)
      BY Zenon
    <3>2. /\ In(s.ring) \subseteq {} \union In(d.ring)
          /\ \A B : Few(B, s.dropped) => Few(B \union {}, d.dropped)
      BY Zenon, <2>2, <2>3, <2>4 DEF IsRing
    <3> QED BY Zenon, <3>1, <3>2
  <2> QED BY Zenon, <2>2, <2>3, <2>5 DEF IsRing, Joined
<1> QED BY Zenon, <1>2, <1>3

\* A client resumes.
LEMMA ReportBegins ==
    ASSUME CardinalityFacts, NEW l, NEW c \in Clients, NEW p \in Nat, Report(l, c, Empty, Off, p),
           NEW z, IsReplaying(z, c.cursor, <<>>, TRUE)
    PROVE  Report(l, c, Empty, z, p)
<1>1. Few(Unsent(l, c, z.last), c.lag) /\ z \in Replaying /\ z # Off /\ z \notin Living /\ z.more
  BY Zenon, Kinds DEF Report, IsReplaying
<1>2. Few({}, Empty.dropped)
  <2>1. 0 \in Nat
    OBVIOUS
  <2> QED BY Zenon, <2>1, Kinds DEF CardinalityFacts
<1>3. \A S : Within(l, c, p, p, S)
  <2>1. \A n \in c.from + 1 .. p : ~(n > p)
    BY Kinds
  <2> QED BY Zenon, <2>1 DEF Within
<1>4. {} \in SUBSET Nat
  BY Zenon
<1>5. ReplayReport(l, c, Empty, z, p)
  BY Zenon, <1>1, <1>2, <1>3, <1>4 DEF ReplayReport
<1> QED BY Zenon, <1>1, <1>5 DEF Report

\* The replay passes an event.
LEMMA ReportReplayed ==
    ASSUME CardinalityFacts, NEW l, NEW c \in Clients, NEW s \in Rings, NEW p \in Nat,
           NEW st \in Replaying, Report(l, c, s, st, p),
           st.todo # <<>>, NEW n, n = st.last + 1, NEW z, IsReplaying(z, n, Tail(st.todo), st.more),
           NEW d \in Clients, Passed(l, c, d, n)
    PROVE  Report(l, d, s, z, p)
<1>1. st.last \in Nat /\ st.todo \in Seq(Nat) /\ c.lag \in Nat /\ c.from \in Nat /\ st # Off
  BY Zenon, Kinds
<1>2. n \in Nat /\ st.last < n /\ \A i \in c.from + 1 .. n : i > st.last /\ i # n => i \in {}
  BY <1>1
<1>3. /\ z \in Replaying /\ z # Off /\ z \notin Living /\ z.last = n /\ z.todo = Tail(st.todo)
      /\ z.more = st.more
  BY Zenon, Kinds DEF IsReplaying
<1>4. d.from = c.from /\ d.lag = c.lag
  BY Zenon DEF Passed, IsClient
<1>5. Unsent(l, d, n) \subseteq Unsent(l, c, st.last)
  <2>1. Unsent(l, d, n) \subseteq Unsent(l, c, st.last) \union {}
    <3>1. Jumped(l, c, st.last, n, {})
      BY Zenon, <1>2 DEF Jumped
    <3> QED BY ZenonT(60), <1>1, <1>2, <3>1, UnsentPast
  <2> QED BY Zenon, <2>1
<1>6. Few(Unsent(l, d, n), d.lag)
  BY Zenon, <1>1, <1>4, <1>5, FewSubset DEF Report
<1>7. st.last + Len(st.todo) = n + Len(Tail(st.todo))
  <2>1. Len(st.todo) \in Nat \ {0} /\ Len(Tail(st.todo)) = Len(st.todo) - 1
    BY Zenon, <1>1, TailIs
  <2> QED BY <1>1, <2>1
<1>8. ReplayReport(l, d, s, z, p)
  BY Zenon, <1>3, <1>4, <1>7 DEF Report, ReplayReport, Within
<1> QED BY Zenon, <1>3, <1>6, <1>8 DEF Report

\* The ring is drained: what it dropped is to be reported before what it holds.
LEMMA ReportDrain ==
    ASSUME CardinalityFacts, NEW l, NEW c \in Clients, NEW s \in Rings, NEW p \in Nat, NEW st \in Living,
           Report(l, c, s, st, p),
           st.at = "drain", NEW z, IsLiving(z, "send", st.last, s.ring, s.dropped),
           NEW d, NEW b, IsRing(d, <<>>, 0, b)
    PROVE  Report(l, c, d, z, p)
<1>1. c.lag \in Nat /\ s.dropped \in Nat /\ st # Off
  BY Zenon, Kinds
<1>2. /\ z \in Living /\ z # Off /\ z \notin Replaying /\ z.at = "send" /\ z.last = st.last
      /\ z.todo = s.ring /\ z.lag = s.dropped
  BY Zenon, Kinds DEF IsLiving
<1>3. d.ring = <<>> /\ d.dropped = 0 /\ DOMAIN d.ring = {} /\ In(d.ring) = {}
  BY InOf DEF IsRing
<1>4. PICK A \in SUBSET Nat, B \in SUBSET Nat :
          /\ Few(Unsent(l, c, st.last) \union A, c.lag + st.lag) /\ Few(B, s.dropped)
          /\ Within(l, c, st.last, p, A \union In(st.todo) \union B \union In(s.ring))
          /\ st.todo = <<>> /\ st.lag = 0
  <2>1. st.at # "send"
    BY Zenon
  <2> QED BY Zenon, <2>1 DEF Report, LiveReport
<1>5. Few(Unsent(l, c, z.last) \union (A \union B), c.lag + z.lag)
  <2>1. c.lag + st.lag = c.lag
    BY <1>1, <1>4
  <2>2. Few((Unsent(l, c, st.last) \union A) \union B, c.lag + s.dropped)
    <3>1. Few(Unsent(l, c, st.last) \union A, c.lag)
      BY Zenon, <1>4, <2>1
    <3> QED BY Zenon, <1>1, <1>4, <3>1, FewUnion
  <2>3. (Unsent(l, c, st.last) \union A) \union B = Unsent(l, c, st.last) \union (A \union B)
    BY Zenon
  <2> QED BY Zenon, <1>2, <2>2, <2>3
<1>6. Within(l, c, z.last, p, (A \union B) \union In(z.todo) \union {} \union In(d.ring))
  <2>1. A \union In(st.todo) \union B \union In(s.ring)
            \subseteq (A \union B) \union In(z.todo) \union {} \union In(d.ring)
    BY Zenon, <1>2, <1>4, InOf
  <2> QED BY Zenon, <1>2, <1>4, <2>1 DEF Within
<1>7. Few({}, d.dropped) /\ A \union B \in SUBSET Nat /\ {} \in SUBSET Nat
  <2>1. d.dropped \in Nat
    BY <1>3
  <2> QED BY Zenon, <2>1 DEF CardinalityFacts
<1>8. /\ Ordered(z.todo)
      /\ \A i \in DOMAIN z.todo : z.todo[i] <= p /\ \A x \in {} \union In(d.ring) : z.todo[i] < x
  BY Zenon, <1>2, <1>3 DEF Report
<1>9. LiveReport(l, c, d, z, p)
  BY Zenon, <1>2, <1>5, <1>6, <1>7, <1>8 DEF LiveReport
<1> QED BY Zenon, <1>1, <1>2, <1>3, <1>9 DEF Report, Ordered

\* The drops are reported.
LEMMA ReportLag ==
    ASSUME CardinalityFacts, NEW l, NEW c \in Clients, NEW s \in Rings, NEW p \in Nat, NEW st \in Living,
           Report(l, c, s, st, p),
           NEW z, IsLiving(z, st.at, st.last, st.todo, 0), NEW d,
           IsClient(d, c.cursor, c.got, c.lag + st.lag, c.from)
    PROVE  Report(l, d, s, z, p)
<1>1. c.lag \in Nat /\ st.lag \in Nat /\ st # Off
  BY Zenon, Kinds
<1>2. /\ z \in Living /\ z # Off /\ z \notin Replaying /\ z.at = st.at /\ z.last = st.last
      /\ z.todo = st.todo /\ z.lag = 0
  BY Zenon, Kinds DEF IsLiving
<1>3. d.got = c.got /\ d.from = c.from /\ d.lag = c.lag + st.lag
  BY Zenon DEF IsClient
<1>4. \A k : Unsent(l, d, k) = Unsent(l, c, k)
  BY Zenon, <1>3 DEF Unsent
<1>5. \A k, S : Within(l, c, k, p, S) => Within(l, d, k, p, S)
  BY Zenon, <1>3 DEF Within
<1>6. d.lag + z.lag = c.lag + st.lag /\ d.lag \in Nat /\ c.lag <= d.lag
  BY <1>1, <1>2, <1>3
<1>7. Few(Unsent(l, d, z.last), d.lag)
  BY Zenon, <1>1, <1>2, <1>4, <1>6 DEF CardinalityFacts, Report
<1>8. LiveReport(l, d, s, z, p)
  <2>1. LiveReport(l, c, s, st, p)
    BY Zenon DEF Report
  <2> QED BY Zenon, <1>2, <1>4, <1>5, <1>6, <2>1 DEF LiveReport
<1> QED BY Zenon, <1>2, <1>7, <1>8 DEF Report

\* The next event is sent: those between it and the watermark were dropped.
LEMMA ReportSent ==
    ASSUME CardinalityFacts, NEW l, NEW c \in Clients, NEW s \in Rings, NEW p \in Nat, NEW st \in Living,
           Report(l, c, s, st, p),
           st.at = "send", st.lag = 0, st.todo # <<>>, NEW n \in Nat, n = Head(st.todo), n > st.last,
           NEW z, IsLiving(z, st.at, n, Tail(st.todo), st.lag),
           NEW d, IsClient(d, n, Append(c.got, n), c.lag, c.from)
    PROVE  Report(l, d, s, z, p)
<1>1. st.todo \in Seq(Nat) /\ st.last \in Nat /\ c.lag \in Nat /\ c.from \in Nat
  BY Zenon, Kinds
<1>2. /\ z \in Living /\ z # Off /\ z \notin Replaying /\ z.at = "send" /\ z.last = n
      /\ z.todo = Tail(st.todo) /\ z.lag = 0
  BY Zenon, Kinds DEF IsLiving
<1>3. PICK A \in SUBSET Nat, B \in SUBSET Nat :
          /\ Few(Unsent(l, c, st.last) \union A, c.lag + st.lag) /\ Few(B, s.dropped)
          /\ Within(l, c, st.last, p, A \union In(st.todo) \union B \union In(s.ring))
          /\ Ordered(st.todo) /\ \A i \in DOMAIN st.todo : /\ \A b \in B \union In(s.ring) : st.todo[i] < b
                                                           /\ st.todo[i] <= p
  BY Zenon DEF Report, LiveReport
<1>4. /\ In(st.todo) = {n} \union In(Tail(st.todo)) /\ Ordered(Tail(st.todo))
      /\ \A i \in In(Tail(st.todo)) : n < i
  BY Zenon, <1>1, <1>3, InOf, OrderedTail
<1>5. n <= p /\ \A b \in B \union In(s.ring) : n < b
  <2>1. 1 \in DOMAIN st.todo /\ n = st.todo[1]
    BY Zenon, <1>1, TailIs
  <2> QED BY Zenon, <1>3, <2>1
<1>6. Jumped(l, c, st.last, n, A)
  <2> SUFFICES ASSUME NEW i \in c.from + 1 .. n, Owed(l, i), i > st.last, i # n PROVE i \in A
    BY Zenon DEF Jumped
  <2>1. i \in c.from + 1 .. p /\ ~(n < i)
    BY <1>1, <1>5
  <2> QED BY Zenon, <1>3, <1>4, <1>5, <2>1 DEF Within
<1>7. st.last < n
  BY <1>1
<1>8. Unsent(l, d, n) \subseteq Unsent(l, c, st.last) \union A
  BY Zenon, <1>1, <1>6, <1>7, UnsentPast DEF Passed
<1>9. d.from = c.from /\ d.lag = c.lag /\ c.lag + st.lag = c.lag /\ d.lag + z.lag = c.lag
  BY <1>1, <1>2 DEF IsClient
<1>10. Few(Unsent(l, d, n) \union A, c.lag) /\ Few(Unsent(l, d, n), c.lag)
  <2>1. Unsent(l, d, n) \union A \subseteq Unsent(l, c, st.last) \union A
    BY Zenon, <1>8
  <2>2. Few(Unsent(l, c, st.last) \union A, c.lag)
    BY Zenon, <1>3, <1>9
  <2>3. Few(Unsent(l, d, n) \union A, c.lag)
    BY Zenon, <1>1, <2>1, <2>2, FewSubset
  <2>4. Few(Unsent(l, d, n), c.lag)
    BY Zenon, <1>1, <1>8, <2>2, FewSubset
  <2> QED BY Zenon, <2>3, <2>4
<1>11. Within(l, d, n, p, A \union In(z.todo) \union B \union In(s.ring))
  <2> SUFFICES ASSUME NEW i \in c.from + 1 .. p, Owed(l, i), i > n
               PROVE  i \in A \union In(z.todo) \union B \union In(s.ring)
    BY Zenon, <1>9 DEF Within
  <2>1. i > st.last /\ i # n
    BY SMTT(30), <1>1, <1>7
  <2> QED BY Zenon, <1>2, <1>3, <1>4, <2>1 DEF Within
<1>12. \A i \in DOMAIN z.todo : z.todo[i] <= p /\ \A b \in B \union In(s.ring) : z.todo[i] < b
  <2>1. \A i \in DOMAIN Tail(st.todo) : \E j \in DOMAIN st.todo : Tail(st.todo)[i] = st.todo[j]
    BY Zenon, <1>1, TailFrom
  <2> QED BY Zenon, <1>2, <1>3, <2>1
<1>13. LiveReport(l, d, s, z, p)
  BY Zenon, <1>2, <1>3, <1>4, <1>9, <1>10, <1>11, <1>12 DEF LiveReport
<1> QED BY Zenon, <1>2, <1>9, <1>10, <1>13 DEF Report

\* The client is behind the watermark.
LEMMA MissedFew ==
    ASSUME CardinalityFacts, NEW l, NEW c \in Clients, NEW s, NEW p,
           NEW st \in {Off} \union Replaying \union Living,
           Ahead(l, c, st), Report(l, c, s, st, p)
    PROVE  Few(Unsent(l, c, c.cursor), c.lag)
<1>1. CASE st = Off
  BY Zenon, <1>1 DEF Report
<1>2. CASE st # Off
  <2>1. c.cursor \in Nat /\ c.lag \in Nat /\ c.from \in Nat /\ st.last \in Nat /\ c.cursor <= st.last
    BY Zenon, <1>2, Kinds DEF Ahead
  <2>2. c.from + 1 .. c.cursor \subseteq c.from + 1 .. st.last
    BY <2>1
  <2>3. Unsent(l, c, c.cursor) \subseteq Unsent(l, c, st.last)
    BY Zenon, <2>2 DEF Unsent
  <2>4. Few(Unsent(l, c, st.last), c.lag)
    BY Zenon, <1>2 DEF Report
  <2> QED BY Zenon, <2>1, <2>3, <2>4, FewSubset
<1> QED BY Zenon, <1>1, <1>2

LEMMA ReportInit == ASSUME CardinalityFacts, Init, writers = {Home} PROVE ReportInv
<1>1. /\ app = [r \in Replicas |-> Idle] /\ Home \in Replicas /\ Idle.at = "idle" /\ sub = Empty
      /\ stream = Off
      /\ client.cursor = 0 /\ client.from = 0 /\ client.lag = 0
  BY EventStreamConstants DEF Init, LogInit, Idle
<1>2. Solo
  <2>1. \A r \in Replicas : app[r] = Idle
    BY Zenon, <1>1
  <2>2. app[Home].at \notin {"hook", "return", "notify"}
    BY <1>1, <2>1
  <2> QED BY Zenon, <2>1, <2>2 DEF Solo
<1>3. Unsent(log, client, 0) = {}
  <2>1. client.from + 1 .. 0 = {}
    BY <1>1
  <2> QED BY Zenon, <2>1 DEF Unsent
<1>4. DOMAIN sub.ring = {} /\ 0 \in Nat
  BY <1>1 DEF Empty
<1>5. Report(log, client, sub, stream, Published)
  BY Zenon, <1>1, <1>3, <1>4, Kinds DEF CardinalityFacts, Report, Ordered
<1> QED BY Zenon, <1>2, <1>5 DEF ReportInv

LEMMA ReportStep ==
    ASSUME CardinalityFacts, RepeatInv, ReportInv, [Next]_vars
    PROVE  ReportInv'
<1>0. /\ LogInv /\ Solo /\ Solo' /\ Longer(log, log') /\ log \in Seq(Row) /\ log' \in Seq(Row)
      /\ sub \in Rings /\ stream \in {Off} \union Replaying \union Living /\ client \in Clients
      /\ sub' \in Rings /\ client' \in Clients
      /\ Ahead(log, client, stream) /\ Report(log, client, sub, stream, Published)
      /\ Published \in Nat /\ Published <= Len(log)
  <2>1. LogInv /\ Solo
    BY Zenon DEF RepeatInv, ReportInv
  <2>2. LogInv' /\ Longer(log, log')
    BY Zenon, <2>1, LogStep
  <2>3. Solo' /\ Published \in Nat /\ Published <= Len(log)
    BY Zenon, <2>1, SoloStep
  <2> QED BY Zenon, <2>1, <2>2, <2>3, RepeatStep DEF RepeatInv, ReportInv, LogInv
<1>1. Len(log) \in Nat
  BY <1>0
<1>same. ASSUME ~Settles PROVE Published' = Published
  BY Zenon, <1>0, <1>same, SoloStep
<1>keep. ASSUME ~Settles, UNCHANGED <<sub, stream, client>> PROVE ReportInv'
  <2>1. Report(log', client, sub, stream, Published)
    BY Zenon, <1>0, ReportKept
  <2> QED BY Zenon, <1>0, <1>keep, <1>same, <2>1 DEF ReportInv
\* A step of the handler or the client: nothing is published.
<1>move. ASSUME UNCHANGED <<log, app>>, Report(log, client', sub', stream', Published) PROVE ReportInv'
  <2>1. Published' = Published
    BY Zenon, <1>move DEF Published
  <2> QED BY Zenon, <1>0, <1>move, <2>1 DEF ReportInv
<1>2. CASE Settles
  <2> DEFINE p == Published
  <2>1. /\ log' = log /\ Len(log) = p + 1 /\ Published' = p + 1
        /\ Publish(Home) => app[Home].seq = p + 1
        /\ ReturnStep(Home) => log[p + 1].quiet
    BY Zenon, <1>0, <1>2, SoloStep
  <2>2. /\ UNCHANGED <<stream, client>>
        /\ sub' = DropOldest(sub, p + 1) \/ (sub' = sub /\ ~(stream # Off /\ Owed(log, p + 1)))
    <3>1. CASE Publish(Home)
      BY Zenon, <2>1, <3>1 DEF Publish, Subscribed, Matches, Owed
    <3>2. CASE ReturnStep(Home)
      BY Zenon, <2>1, <3>2 DEF ReturnStep, Owed
    <3> QED BY Zenon, <1>2, <3>1, <3>2 DEF Settles
  <2>3. p \in Nat /\ p + 1 \in Nat /\ sub.ring \in Seq(Nat)
    BY <1>0, Kinds
  <2> HIDE DEF p
  <2>4. /\ Ordered(sub.ring) /\ Report(log, client, sub, stream, p)
        /\ \A i \in DOMAIN sub.ring : sub.ring[i] <= p
    BY Zenon, <1>0 DEF Report, p
  <2>5. CASE sub' = DropOldest(sub, p + 1)
    <3>1. \A i \in DOMAIN sub.ring : sub.ring[i] < p + 1
      <4> TAKE i \in DOMAIN sub.ring
      <4>1. sub.ring[i] \in Nat
        BY <2>3
      <4>2. sub.ring[i] <= p
        BY Zenon, <2>4
      <4> QED BY <2>3, <4>1, <4>2
    <3>2. Joined(sub, sub', p + 1) /\ p + 1 \in In(sub'.ring)
      <4>1. sub \in Rings /\ p + 1 \in Nat /\ Ordered(sub.ring)
        BY Zenon, <1>0, <2>3, <2>4
      <4> QED BY Zenon, <2>5, <3>1, <4>1, Enqueued
    <3>4. Report(log, client, sub', stream, p + 1)
      BY Zenon, <1>0, <2>3, <2>4, <3>2, ReportPublished
    <3> QED BY Zenon, <1>0, <2>1, <2>2, <3>4 DEF ReportInv
  <2>6. CASE sub' = sub /\ ~(stream # Off /\ Owed(log, p + 1))
    <3>1. /\ {} \in SUBSET In(sub.ring) /\ In(sub.ring) \subseteq {} \union In(sub.ring)
          /\ In(sub.ring) \subseteq In(sub.ring) \union {p + 1} /\ \A B : B \union {} = B
      BY Zenon
    <3>2. \A B : Few(B, sub.dropped) => Few(B \union {}, sub.dropped)
      BY Zenon, <3>1
    <3>3. Joined(sub, sub, p + 1)
      BY Zenon, <2>4, <3>1, <3>2 DEF Joined
    <3>4. Report(log, client, sub, stream, p + 1)
      BY Zenon, <1>0, <2>3, <2>4, <2>6, <3>3, ReportPublished
    <3> QED BY Zenon, <1>0, <2>1, <2>2, <2>6, <3>4 DEF ReportInv
  <2> QED BY Zenon, <2>2, <2>5, <2>6
<1>3. ASSUME Record(Home) \/ AppendStep(Home), ~Settles PROVE ReportInv'
  BY Zenon, <1>3, <1>keep DEF Record, AppendStep
<1>4. ASSUME Notify(Home), ~Settles PROVE ReportInv'
  <2>1. UNCHANGED <<log, stream, client>> /\ sub'.ring = sub.ring /\ sub'.dropped = sub.dropped
    <3>1. CASE sub' = sub
      BY Zenon, <1>4, <3>1 DEF Notify
    <3>2. CASE sub' = [sub EXCEPT !.notify = TRUE]
      BY Zenon, <1>0, <1>4, <3>2, Updates DEF Notify, IsRing
    <3> QED BY Zenon, <1>4, <3>1, <3>2 DEF Notify
  <2>2. Report(log, client, sub', stream, Published)
    BY Zenon, <1>0, <2>1 DEF Report, ReplayReport, LiveReport
  <2> QED BY Zenon, <1>0, <1>4, <1>same, <2>1, <2>2 DEF ReportInv
<1>5. ASSUME Subscribe PROVE ReportInv'
  <2>1. /\ stream = Off /\ UNCHANGED <<log, app>> /\ sub' = Empty /\ DOMAIN Empty.ring = {}
        /\ client.cursor \in Nat
    <3>1. DOMAIN Empty.ring = {}
      BY DEF Empty
    <3> QED BY Zenon, <1>0, <1>5, <3>1, Kinds DEF Subscribe
  <2>2. CASE client.cursor > 0
    <3>1. client' = client /\ IsReplaying(stream', client.cursor, <<>>, TRUE)
      BY Zenon, <1>5, <2>1, <2>2, Begins DEF Subscribe
    <3>2. Report(log, client, Empty, Off, Published)
      BY Zenon, <1>0, <2>1, Kinds DEF Report, Ordered
    <3>3. Report(log, client, Empty, stream', Published)
      BY Zenon, <1>0, <3>1, <3>2, ReportBegins
    <3> QED BY Zenon, <1>move, <2>1, <3>1, <3>3
  <2>3. CASE ~(client.cursor > 0)
    <3>1. 0 \in Nat
      OBVIOUS
    <3>2. /\ IsLiving(stream', "live", 0, <<>>, 0)
          /\ IsClient(client', client.cursor, client.got, 0, Len(log))
      BY Zenon, <1>0, <1>1, <1>5, <2>3, <3>1, Updates, Begins DEF Subscribe
    <3>3. client'.from = Len(log) /\ client'.lag = 0
      BY Zenon, <3>2 DEF IsClient
    <3>4. /\ stream' \in Living /\ stream' # Off /\ stream' \notin Replaying /\ stream'.last = 0
          /\ stream'.todo = <<>> /\ stream'.lag = 0
      BY Zenon, <3>2, Kinds DEF IsLiving
    <3>5. /\ client'.from + 1 .. 0 = {} /\ client'.from + 1 .. Published = {}
          /\ client'.lag + stream'.lag = 0 /\ DOMAIN <<>> = {}
      BY <1>0, <1>1, <3>3, <3>4
    <3>6. Unsent(log, client', stream'.last) = {} /\ \A S : Within(log, client', stream'.last, Published, S)
      BY Zenon, <3>4, <3>5 DEF Unsent, Within
    <3>7. {} \in SUBSET Nat /\ {} \union {} = {} /\ Few({}, 0)
      BY Zenon, <3>1 DEF CardinalityFacts
    <3>8. LiveReport(log, client', Empty, stream', Published)
      BY Zenon, <3>4, <3>5, <3>6, <3>7, Kinds DEF LiveReport, Ordered
    <3>9. Report(log, client', sub', stream', Published)
      BY Zenon, <2>1, <3>3, <3>4, <3>6, <3>7, <3>8 DEF Report, Ordered
    <3> QED BY Zenon, <1>move, <2>1, <3>9
  <2> QED BY Zenon, <2>2, <2>3
<1>6. ASSUME ReplayPage PROVE ReportInv'
  <2> DEFINE to == Min({Len(log), stream.last + Batch})
             t == [i \in 1 .. to - stream.last |-> stream.last + i]
  <2>1. /\ stream.at = "replay" /\ UNCHANGED <<log, app, sub, client>>
        /\ stream' = [stream EXCEPT !.todo = t, !.more = (to - stream.last = Batch)]
    BY Zenon, <1>6 DEF ReplayPage
  <2>2. stream \in Replaying /\ stream.last \in Nat /\ stream.last <= Len(log)
    BY Zenon, <1>0, <2>1, Kinds DEF Ahead
  <2>3. to \in Nat /\ stream.last <= to /\ (to - stream.last # Batch => to = Len(log))
    <3>1. stream.last + Batch \in Nat /\ stream.last <= stream.last + Batch
      BY <2>2, EventStreamConstants
    <3>2. to \in {Len(log), stream.last + Batch}
      <4>1. CASE Len(log) <= stream.last + Batch
        BY <1>1, <3>1, <4>1 DEF Min
      <4>2. CASE ~(Len(log) <= stream.last + Batch)
        BY <1>1, <3>1, <4>2 DEF Min
      <4> QED BY Zenon, <4>1, <4>2
    <3> HIDE DEF to
    <3> QED BY <1>1, <2>2, <3>1, <3>2, EventStreamConstants
  <2>4. t \in Seq(Nat) /\ stream.last + Len(t) = to
    <3> HIDE DEF to
    <3>1. to - stream.last \in Nat
      BY <2>2, <2>3
    <3>2. t \in Seq(Nat) /\ Len(t) = to - stream.last
      BY <2>2, <3>1
    <3> HIDE DEF t
    <3> QED BY <2>2, <2>3, <3>2
  <2> HIDE DEF to, t
  <2>5. PICK m : m = (to - stream.last = Batch)
    BY Zenon
  <2>6. IsReplaying(stream', stream.last, t, m)
    <3>1. m \in BOOLEAN
      BY <2>5
    <3> QED BY Zenon, <2>1, <2>2, <2>4, <2>5, <3>1, Updates
  <2>7. ~m => stream.last + Len(t) = Len(log)
    BY Zenon, <2>3, <2>4, <2>5
  <2>8. Report(log, client, sub, stream', Published)
    BY Zenon, <1>0, <1>1, <2>2, <2>4, <2>6, <2>7, ReportPage
  <2> QED BY Zenon, <1>move, <2>1, <2>8
<1>7. ASSUME ReplaySend PROVE ReportInv'
  <2>1. PICK n : n = Head(stream.todo)
    BY Zenon
  <2>2. /\ stream.at = "replay" /\ stream.todo # <<>> /\ UNCHANGED <<log, app, sub>>
        /\ stream' = [stream EXCEPT !.last = n, !.todo = Tail(stream.todo)]
        /\ client' = IF log[n].act = "mine"
                     THEN [client EXCEPT !.cursor = n, !.got = Append(client.got, n)] ELSE client
    BY Zenon, <1>7, <2>1 DEF ReplaySend, Matches
  <2>3. /\ stream \in Replaying /\ stream.todo \in Seq(Nat) /\ client.got \in Seq(Nat)
        /\ \A i \in DOMAIN stream.todo : stream.todo[i] = stream.last + i
    BY Zenon, <1>0, <2>2, Kinds DEF Ahead
  <2>4. n = stream.last + 1 /\ n \in Nat /\ Tail(stream.todo) \in Seq(Nat)
    BY Zenon, <2>1, <2>2, <2>3, TailIs
  <2>5. IsReplaying(stream', n, Tail(stream.todo), stream.more)
    BY Zenon, <2>2, <2>3, <2>4, Updates
  <2>6. Passed(log, client, client', n)
    <3>1. CASE log[n].act = "mine"
      <4>1. Append(client.got, n) \in Seq(Nat)
        BY <2>3, <2>4
      <4> QED BY Zenon, <1>0, <2>2, <2>4, <3>1, <4>1, Updates DEF Passed
    <3>2. CASE log[n].act # "mine"
      BY Zenon, <2>2, <3>2 DEF Passed, Owed
    <3> QED BY Zenon, <3>1, <3>2
  <2>7. Report(log, client', sub, stream', Published)
    BY Zenon, <1>0, <2>2, <2>3, <2>4, <2>5, <2>6, ReportReplayed
  <2> QED BY Zenon, <1>move, <2>2, <2>7
<1>8. ASSUME ReplayDone PROVE ReportInv'
  <2>1. /\ stream.at = "replay" /\ stream.todo = <<>> /\ ~stream.more /\ UNCHANGED <<log, app, sub, client>>
        /\ stream' = [at |-> "live", last |-> stream.last, todo |-> <<>>, lag |-> 0]
    BY Zenon, <1>8 DEF ReplayDone
  <2>2. stream \in Replaying /\ IsLiving(stream', "live", stream.last, <<>>, 0)
    BY Zenon, <1>0, <2>1, Kinds, Begins
  <2>3. Report(log, client, sub, stream', Published)
    BY Zenon, <1>0, <2>1, <2>2, ReportLive
  <2> QED BY Zenon, <1>move, <2>1, <2>3
<1>9. ASSUME stream \in Living, stream.at # "send" PROVE stream.todo = <<>> /\ stream.lag = 0
  BY Zenon, <1>0, <1>9 DEF Report, LiveReport
<1>10. ASSUME Wake PROVE ReportInv'
  <2>1. /\ stream.at = "live" /\ UNCHANGED <<log, app, client>> /\ sub' = [sub EXCEPT !.notify = FALSE]
        /\ stream' = [stream EXCEPT !.at = "drain"]
    BY Zenon, <1>10 DEF Wake
  <2>2. stream \in Living /\ stream.todo = <<>> /\ stream.lag = 0
    <3>1. "live" # "send"
      OBVIOUS
    <3> QED BY Zenon, <1>0, <1>9, <2>1, <3>1, Kinds
  <2>3. IsLiving(stream', "drain", stream.last, stream.todo, stream.lag)
    BY Zenon, <2>1, <2>2, Updates
  <2>4. sub'.ring = sub.ring /\ sub'.dropped = sub.dropped
    BY Zenon, <1>0, <2>1, Updates DEF IsRing
  <2>5. Report(log, client, sub, stream', Published)
    BY Zenon, <1>0, <2>2, <2>3, ReportWake
  <2>6. Report(log, client, sub', stream', Published)
    BY Zenon, <2>4, <2>5 DEF Report, ReplayReport, LiveReport
  <2> QED BY Zenon, <1>move, <2>1, <2>6
<1>11. ASSUME Drain PROVE ReportInv'
  <2>1. /\ stream.at = "drain" /\ UNCHANGED <<log, app, client>>
        /\ sub' = [sub EXCEPT !.ring = <<>>, !.dropped = 0]
        /\ stream' = [stream EXCEPT !.at = "send", !.todo = sub.ring, !.lag = sub.dropped]
    BY Zenon, <1>11 DEF Drain
  <2>2. stream \in Living /\ 0 \in Nat /\ <<>> \in Seq(Nat)
    BY <1>0, <2>1, Kinds
  <2>3. IsLiving(stream', "send", stream.last, sub.ring, sub.dropped)
    BY Zenon, <1>0, <2>1, <2>2, Updates, Kinds
  <2>4. IsRing(sub', <<>>, 0, sub.notify)
    BY Zenon, <1>0, <2>1, <2>2, Updates
  <2>5. Report(log, client, sub', stream', Published)
    BY Zenon, <1>0, <2>1, <2>2, <2>3, <2>4, ReportDrain
  <2> QED BY Zenon, <1>move, <2>1, <2>5
<1>12. ASSUME SendLag PROVE ReportInv'
  <2>1. /\ stream.at = "send" /\ UNCHANGED <<log, app, sub>>
        /\ client' = [client EXCEPT !.lag = client.lag + stream.lag]
        /\ stream' = [stream EXCEPT !.lag = 0]
    BY Zenon, <1>12 DEF SendLag
  <2>2. stream \in Living /\ stream.lag \in Nat /\ client.lag \in Nat
    BY Zenon, <1>0, <2>1, Kinds
  <2>3. 0 \in Nat /\ client.lag + stream.lag \in Nat
    BY <2>2
  <2>4. /\ IsLiving(stream', stream.at, stream.last, stream.todo, 0)
        /\ IsClient(client', client.cursor, client.got, client.lag + stream.lag, client.from)
    BY Zenon, <1>0, <2>1, <2>2, <2>3, Updates
  <2>5. Report(log, client', sub, stream', Published)
    BY Zenon, <1>0, <2>2, <2>4, ReportLag
  <2> QED BY Zenon, <1>move, <2>1, <2>5
<1>13. ASSUME SendEvent PROVE ReportInv'
  <2>1. stream.at = "send" /\ stream.lag = 0 /\ UNCHANGED <<log, app, sub>>
    BY Zenon, <1>13 DEF SendEvent
  <2>2. stream \in Living /\ stream.todo \in Seq(Nat) /\ client.got \in Seq(Nat)
    BY Zenon, <1>0, <2>1, Kinds
  <2>3. CASE stream.todo = <<>>
    <3>1. client' = client /\ stream' = [stream EXCEPT !.at = "live"]
      BY Zenon, <1>13, <2>3 DEF SendEvent
    <3>2. IsLiving(stream', "live", stream.last, stream.todo, stream.lag)
      BY Zenon, <2>2, <3>1, Updates
    <3>3. Report(log, client, sub, stream', Published)
      BY Zenon, <1>0, <2>1, <2>2, <2>3, <3>2, ReportWake
    <3> QED BY Zenon, <1>move, <2>1, <3>1, <3>3
  <2>4. CASE stream.todo # <<>>
    <3>1. PICK n : n = Head(stream.todo)
      BY Zenon
    <3>2. IF n > stream.last
          THEN /\ stream' = [stream EXCEPT !.todo = Tail(stream.todo), !.last = n]
               /\ client' = [client EXCEPT !.cursor = n, !.got = Append(client.got, n)]
          ELSE stream' = [stream EXCEPT !.todo = Tail(stream.todo)] /\ client' = client
      BY Zenon, <1>13, <2>4, <3>1 DEF SendEvent, NotReplayed
    <3>3. n \in Nat /\ Tail(stream.todo) \in Seq(Nat)
      BY Zenon, <2>2, <2>4, <3>1, TailIs
    <3>4. CASE n > stream.last
      <4>1. Append(client.got, n) \in Seq(Nat)
        BY <2>2, <3>3
      <4>2. /\ IsLiving(stream', stream.at, n, Tail(stream.todo), stream.lag)
            /\ IsClient(client', n, Append(client.got, n), client.lag, client.from)
        <5>1. IsLiving(stream', stream.at, n, Tail(stream.todo), stream.lag)
          BY ZenonT(60), <2>2, <3>2, <3>3, <3>4, Updates
        <5>2. IsClient(client', n, Append(client.got, n), client.lag, client.from)
          <6>1. client' = [client EXCEPT !.cursor = n, !.got = Append(client.got, n)]
            BY Zenon, <3>2, <3>4
          <6> QED BY Zenon, <1>0, <3>3, <4>1, <6>1, Updates
        <5> QED BY Zenon, <5>1, <5>2
      <4>3. Report(log, client', sub, stream', Published)
        BY Zenon, <1>0, <2>1, <2>2, <2>4, <3>1, <3>3, <3>4, <4>2, ReportSent
      <4> QED BY Zenon, <1>move, <2>1, <4>3
    <3>5. CASE ~(n > stream.last)
      <4>1. client' = client /\ IsLiving(stream', stream.at, stream.last, Tail(stream.todo), stream.lag)
        BY Zenon, <2>2, <3>2, <3>3, <3>5, Updates
      <4>2. Report(log, client, sub, stream', Published)
        BY Zenon, <1>0, <2>1, <2>2, <2>4, <3>1, <3>5, <4>1, ReportSkip
      <4> QED BY Zenon, <1>move, <2>1, <4>1, <4>2
    <3> QED BY Zenon, <3>4, <3>5
  <2> QED BY Zenon, <2>3, <2>4
<1>14. ASSUME Heartbeat PROVE ReportInv'
  <2>1. /\ stream.at = "live" /\ UNCHANGED <<log, app, sub, stream>>
        /\ client' = [client EXCEPT !.cursor = stream.last]
    BY Zenon, <1>14 DEF Heartbeat
  <2>2. stream \in Living /\ stream.last \in Nat /\ stream # Off
    BY Zenon, <1>0, <2>1, Kinds
  <2>3. client'.got = client.got /\ client'.from = client.from /\ client'.lag = client.lag
    <3>1. IsClient(client', stream.last, client.got, client.lag, client.from)
      BY Zenon, <1>0, <2>1, <2>2, Updates
    <3> QED BY Zenon, <3>1 DEF IsClient
  <2>4. Report(log, client', sub, stream, Published)
    BY ZenonT(60), <1>0, <2>2, <2>3 DEF Report, ReplayReport, LiveReport, Unsent, Within
  <2> QED BY Zenon, <1>move, <2>1, <2>4
<1>15. ASSUME Disconnect PROVE ReportInv'
  <2>1. /\ stream # Off /\ stream' = Off /\ sub' = Empty /\ UNCHANGED <<log, app, client>>
        /\ DOMAIN Empty.ring = {}
    <3>1. DOMAIN Empty.ring = {}
      BY DEF Empty
    <3> QED BY Zenon, <1>15, <3>1 DEF Disconnect
  <2>2. Few(Unsent(log, client, client.cursor), client.lag)
    BY Zenon, <1>0, MissedFew
  <2>3. Report(log, client', sub', stream', Published)
    BY Zenon, <2>1, <2>2, Kinds DEF Report, Ordered
  <2> QED BY Zenon, <1>move, <2>1, <2>3
<1>16. CASE UNCHANGED vars /\ ~Settles
  BY Zenon, <1>16, <1>keep DEF vars
<1>17. Settles \/ (~Settles /\ (Record(Home) \/ AppendStep(Home) \/ Notify(Home)))
       \/ Subscribe \/ Handler \/ Heartbeat \/ Disconnect \/ (UNCHANGED vars /\ ~Settles)
  <2>1. ASSUME NEW r \in Replicas, Record(r) \/ AppendEvent(r) PROVE r = Home
    <3>1. r \in writers \/ app[r].at \in {"insert", "hook", "return", "notify"}
      BY Zenon, <2>1 DEF Record, AppendEvent, AppendStep, Insert, ReturnStep, ReturnError, Publish, Notify
    <3>2. Idle.at \notin {"insert", "hook", "return", "notify"}
      BY DEF Idle
    <3> QED BY Zenon, <1>0, <3>1, <3>2 DEF Solo
  <2> QED BY Zenon, <2>1 DEF Next, AppendEvent, Settles
<1> QED BY Zenon, <1>2, <1>3, <1>4, <1>5, <1>6, <1>7, <1>8, <1>10, <1>11, <1>12, <1>13, <1>14, <1>15,
           <1>16, <1>17 DEF Handler

-----------------------------------------------------------------------------
(* Counting, and the theorem.                                              *)

F == INSTANCE FiniteSetTheorems

\* The facts above, from the theorems on finite sets.
LEMMA Counting == CardinalityFacts
<1>1. \A S : (F!IsFiniteSet(S) <=> IsFiniteSet(S)) /\ F!Cardinality(S) = Cardinality(S)
  BY DEF F!IsFiniteSet, IsFiniteSet, F!Cardinality, Cardinality
<1>2. \A S : IsFiniteSet(S) => Cardinality(S) \in Nat
  BY Zenon, <1>1, F!FS_CardinalityType
<1>3. \A S, T : IsFiniteSet(S) /\ T \subseteq S => IsFiniteSet(T) /\ Cardinality(T) <= Cardinality(S)
  BY Zenon, <1>1, F!FS_Subset
<1>4. \A S, T : IsFiniteSet(S) /\ IsFiniteSet(T)
                   => IsFiniteSet(S \union T) /\ Cardinality(S \union T) <= Cardinality(S) + Cardinality(T)
  <2> SUFFICES ASSUME NEW S, NEW T, IsFiniteSet(S), IsFiniteSet(T)
               PROVE  IsFiniteSet(S \union T) /\ Cardinality(S \union T) <= Cardinality(S) + Cardinality(T)
    BY Zenon
  <2>1. /\ IsFiniteSet(S \union T)
        /\ Cardinality(S \union T) = Cardinality(S) + Cardinality(T) - Cardinality(S \cap T)
    <3>1. /\ F!IsFiniteSet(S) /\ F!IsFiniteSet(T)
      BY Zenon, <1>1
    <3>2. /\ F!IsFiniteSet(S \union T)
          /\ F!Cardinality(S \union T) = F!Cardinality(S) + F!Cardinality(T) - F!Cardinality(S \cap T)
      BY Zenon, <3>1, F!FS_Union
    <3> QED BY Zenon, <1>1, <3>2
  <2>2. S \cap T \subseteq S
    BY Zenon
  <2>3. Cardinality(S \cap T) \in Nat /\ Cardinality(S) \in Nat /\ Cardinality(T) \in Nat
    BY Zenon, <1>2, <1>3, <2>2
  <2>4. Cardinality(S) + Cardinality(T) - Cardinality(S \cap T) <= Cardinality(S) + Cardinality(T)
    BY <2>3
  <2> QED BY Zenon, <2>1, <2>4
<1>5. IsFiniteSet({}) /\ Cardinality({}) = 0
  BY Zenon, <1>1, F!FS_EmptySet
<1>6. \A x : IsFiniteSet({x}) /\ Cardinality({x}) = 1
  BY Zenon, <1>1, F!FS_Singleton
<1>7. ASSUME NEW S, NEW T, NEW k \in Nat, Few(S, k), T \subseteq S PROVE Few(T, k)
  <2>1. IsFiniteSet(T) /\ Cardinality(T) <= Cardinality(S) /\ Cardinality(S) <= k
    BY Zenon, <1>3, <1>7 DEF Few
  <2>2. Cardinality(T) \in Nat /\ Cardinality(S) \in Nat
    BY Zenon, <1>2, <1>7, <2>1 DEF Few
  <2>3. Cardinality(T) <= k
    BY <2>1, <2>2
  <2> QED BY Zenon, <2>1, <2>3 DEF Few
<1>8. ASSUME NEW S, NEW k \in Nat, NEW m \in Nat, Few(S, k), k <= m PROVE Few(S, m)
  <2>1. Cardinality(S) \in Nat /\ Cardinality(S) <= k
    BY Zenon, <1>2, <1>8 DEF Few
  <2>2. Cardinality(S) <= m
    BY <1>8, <2>1
  <2> QED BY Zenon, <1>8, <2>2 DEF Few
<1>9. ASSUME NEW S, NEW T, NEW k \in Nat, NEW m \in Nat, Few(S, k), Few(T, m) PROVE Few(S \union T, k + m)
  <2>1. /\ IsFiniteSet(S \union T) /\ Cardinality(S \union T) <= Cardinality(S) + Cardinality(T)
        /\ Cardinality(S) <= k /\ Cardinality(T) <= m
    BY Zenon, <1>4, <1>9 DEF Few
  <2>2. Cardinality(S \union T) \in Nat /\ Cardinality(S) \in Nat /\ Cardinality(T) \in Nat
    BY Zenon, <1>2, <1>9, <2>1 DEF Few
  <2>3. Cardinality(S \union T) <= k + m
    BY <2>1, <2>2
  <2> QED BY Zenon, <2>1, <2>3 DEF Few
<1>10. \A x : Few({x}, 1)
  <2>1. 1 <= 1
    OBVIOUS
  <2> QED BY Zenon, <1>6, <2>1 DEF Few
<1>11. \A k \in Nat : Few({}, k)
  <2>1. \A k \in Nat : 0 <= k
    OBVIOUS
  <2> QED BY Zenon, <1>5, <2>1 DEF Few
<1> QED BY Zenon, <1>7, <1>8, <1>9, <1>10, <1>11 DEF CardinalityFacts

\* With one replica, a client was told of as many drops as there are events that it
\* resumes behind and was not sent, whatever the ring and the batch hold and
\* wherever a stream ends; only a COMMIT that took effect and reported an error
\* goes uncounted (StreamEvents, Publisher, AppendEvent).
THEOREM DropsAreReported == Spec => []MissedIsReported
<1> DEFINE Inv == RepeatInv /\ (writers = {Home} => ReportInv)
<1>1. Init => Inv
  BY Zenon, RepeatInit, ReportInit, Counting
<1>2. Inv /\ [Next]_vars => Inv'
  <2> SUFFICES ASSUME Inv, [Next]_vars PROVE Inv'
    OBVIOUS
  <2>1. writers' = writers
    BY Zenon DEF Next, Record, AppendEvent, AppendStep, ReturnStep, Publish, Notify, Subscribe, Handler,
       Heartbeat, Disconnect,
       ReplayPage, ReplaySend, ReplayDone, Wake, Drain, SendLag, SendEvent, vars
  <2> QED BY Zenon, <2>1, RepeatStep, ReportStep, Counting
<1>3. Inv => MissedIsReported
  <2> SUFFICES ASSUME RepeatInv, ReportInv PROVE Cardinality({n \in Missed : ~log[n].quiet}) <= client.lag
    BY Zenon DEF MissedIsReported
  <2>1. {n \in Missed : ~log[n].quiet} = Unsent(log, client, client.cursor)
    BY Zenon DEF Missed, Unsent, In, Matches, Owed
  <2>2. Few(Unsent(log, client, client.cursor), client.lag)
    BY Zenon, MissedFew, Counting DEF RepeatInv, ReportInv
  <2> QED BY Zenon, <2>1, <2>2 DEF Few
<1> QED BY <1>1, <1>2, <1>3, PTL DEF Spec

====
