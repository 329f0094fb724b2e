----------------------------- MODULE EventStream -----------------------------
(***************************************************************************)
(* The live feed of the event log: the in-process Publisher of             *)
(* eventstream/eventstream.go and the gRPC StreamEvents of grpcapi/        *)
(* stream.go, which subscribes, replays the log from the client's cursor,  *)
(* then sends what its ring collects.  One client holds one stream at a    *)
(* time, of Home; it remembers the highest sequence number it was told and *)
(* resumes there.  The append hook runs in the replica that appended.      *)
(***************************************************************************)
EXTENDS AuditLog

CONSTANTS Home,        \* the replica the client is connected to
          Scenarios,   \* sets of replicas that append
          Cap,         \* DefaultBufferSize, 256
          Batch        \* streamEventsReplayBatch, 500

ASSUME EventStreamConstants ==
    /\ Home \in Replicas /\ \A w \in Scenarios : w \subseteq Replicas
    /\ Cap \in Nat \ {0} /\ Batch \in Nat \ {0}

VARIABLES writers,
          sub,      \* the Subscriber: its ring of sequence numbers, dropped, notify
          stream,   \* the handler: off, replay or live; lastSeq and what it has to send
          client    \* the resume cursor, the events got in order, the drops it was
                    \* told of, and the head when it first subscribed

vars == <<log, app, errors, writers, sub, stream, client>>

Off == [at |-> "off"]
Empty == [ring |-> <<>>, dropped |-> 0, notify |-> FALSE]

Init ==
    /\ LogInit
    /\ writers \in Scenarios
    /\ sub = Empty
    /\ stream = Off
    /\ client = [cursor |-> 0, got |-> <<>>, lag |-> 0, from |-> 0]

\* Filter.Matches: the tenant and the action of the event.
Matches(n) == log[n].act = "mine"

-----------------------------------------------------------------------------
(* The publisher.                                                          *)

\* A request of a replica records an event that the client may see or not.
Record(r) ==
    /\ r \in writers
    /\ \E act \in {"mine", "other"} : ReadLast(r, act)
    /\ UNCHANGED <<log, errors, writers, sub, stream, client>>

AppendStep(r) ==
    /\ Insert(r)
    /\ UNCHANGED <<writers, sub, stream, client>>

\* A COMMIT reported an error: the event is not published, whatever the log holds.
ReturnStep(r) ==
    /\ ReturnError(r)
    /\ UNCHANGED <<writers, sub, stream, client>>

\* The oldest event makes room for the newest.
DropOldest(s, n) ==
    IF Len(s.ring) = Cap
    THEN [s EXCEPT !.ring = Append(Tail(@), n), !.dropped = @ + 1]
    ELSE [s EXCEPT !.ring = Append(@, n)]

\* Mutant: the stream subscribes once it has replayed the log.
SubscribedAfterReplay == stream.at \notin {"off", "replay"}

\* Between Subscribe and Unsubscribe.
Subscribed == stream # Off

\* Publish and enqueue, in the hook: the event joins the ring of a subscriber it
\* matches; the wakeup follows outside the subscriber's lock.
Publish(r) ==
    /\ app[r].at = "hook"
    /\ IF r = Home /\ Subscribed /\ Matches(app[r].seq)
       THEN /\ sub' = DropOldest(sub, app[r].seq)
            /\ app' = [app EXCEPT ![r].at = "notify"]
       ELSE /\ app' = [app EXCEPT ![r] = Idle]
            /\ UNCHANGED sub
    /\ UNCHANGED <<log, errors, writers, stream, client>>

\* Mutant: the channel has no buffer.
NotifyWaiting(r) ==
    /\ app[r].at = "notify"
    /\ sub' = IF stream.at = "live" THEN [sub EXCEPT !.notify = TRUE] ELSE sub
    /\ app' = [app EXCEPT ![r] = Idle]
    /\ UNCHANGED <<log, errors, writers, stream, client>>

\* The non-blocking send on the channel of capacity one.
Notify(r) ==
    /\ app[r].at = "notify"
    /\ sub' = IF stream = Off THEN sub ELSE [sub EXCEPT !.notify = TRUE]
    /\ app' = [app EXCEPT ![r] = Idle]
    /\ UNCHANGED <<log, errors, writers, stream, client>>

-----------------------------------------------------------------------------
(* StreamEvents.                                                           *)

\* Subscribe, before any replay.  A client without a cursor starts from now.
Subscribe ==
    /\ stream = Off
    /\ sub' = Empty
    /\ stream' = IF client.cursor > 0
                 THEN [at |-> "replay", last |-> client.cursor, todo |-> <<>>, more |-> TRUE]
                 ELSE [at |-> "live", last |-> 0, todo |-> <<>>, lag |-> 0]
    /\ client' = IF client.cursor > 0 THEN client ELSE [client EXCEPT !.from = Len(log), !.lag = 0]
    /\ UNCHANGED <<log, app, errors, writers>>

\* One page of replayEventLog; a page that is not full is the last.
ReplayPage ==
    /\ stream.at = "replay" /\ stream.todo = <<>> /\ stream.more
    /\ LET to == Min({Len(log), stream.last + Batch})
       IN stream' = [stream EXCEPT !.todo = [i \in 1 .. to - stream.last |-> stream.last + i],
                                   !.more = (to - stream.last = Batch)]
    /\ UNCHANGED <<log, app, errors, writers, sub, client>>

\* The watermark passes every event of the page; those that match are sent.
ReplaySend ==
    /\ stream.at = "replay" /\ stream.todo # <<>>
    /\ LET n == Head(stream.todo)
       IN /\ stream' = [stream EXCEPT !.last = n, !.todo = Tail(@)]
          /\ client' = IF Matches(n)
                       THEN [client EXCEPT !.cursor = n, !.got = Append(@, n)] ELSE client
    /\ UNCHANGED <<log, app, errors, writers, sub>>

ReplayDone ==
    /\ stream.at = "replay" /\ stream.todo = <<>> /\ ~stream.more
    /\ stream' = [at |-> "live", last |-> stream.last, todo |-> <<>>, lag |-> 0]
    /\ UNCHANGED <<log, app, errors, writers, sub, client>>

\* The loop takes the wakeup.
Wake ==
    /\ stream.at = "live" /\ sub.notify
    /\ sub' = [sub EXCEPT !.notify = FALSE]
    /\ stream' = [stream EXCEPT !.at = "drain"]
    /\ UNCHANGED <<log, app, errors, writers, client>>

\* Drain: the queued events and the drops, cleared together.
Drain ==
    /\ stream.at = "drain"
    /\ sub' = [sub EXCEPT !.ring = <<>>, !.dropped = 0]
    /\ stream' = [stream EXCEPT !.at = "send", !.todo = sub.ring, !.lag = sub.dropped]
    /\ UNCHANGED <<log, app, errors, writers, client>>

\* The lag frame, before the events that were kept.
SendLag ==
    /\ stream.at = "send" /\ stream.lag > 0
    /\ client' = [client EXCEPT !.lag = @ + stream.lag]
    /\ stream' = [stream EXCEPT !.lag = 0]
    /\ UNCHANGED <<log, app, errors, writers, sub>>

\* Mutant: nothing is compared with the watermark.
Always(n) == TRUE

\* An event the replay has passed is skipped.
NotReplayed(n) == n > stream.last

SendEvent ==
    /\ stream.at = "send" /\ stream.lag = 0
    /\ IF stream.todo = <<>>
       THEN /\ stream' = [stream EXCEPT !.at = "live"]
            /\ UNCHANGED client
       ELSE LET n == Head(stream.todo)
            IN IF NotReplayed(n)
               THEN /\ stream' = [stream EXCEPT !.todo = Tail(@), !.last = n]
                    /\ client' = [client EXCEPT !.cursor = n, !.got = Append(@, n)]
               ELSE /\ stream' = [stream EXCEPT !.todo = Tail(@)]
                    /\ UNCHANGED client
    /\ UNCHANGED <<log, app, errors, writers, sub>>

\* The heartbeat advertises the cursor to resume from.
Heartbeat ==
    /\ stream.at = "live" /\ stream.last > client.cursor
    /\ client' = [client EXCEPT !.cursor = stream.last]
    /\ UNCHANGED <<log, app, errors, writers, sub, stream>>

\* The client goes away or a send fails: Unsubscribe.
Disconnect ==
    /\ stream # Off
    /\ Err
    /\ stream' = Off
    /\ sub' = Empty
    /\ UNCHANGED <<log, app, writers, client>>

Handler ==
    \/ ReplayPage \/ ReplaySend \/ ReplayDone
    \/ Wake \/ Drain \/ SendLag \/ SendEvent

AppendEvent(r) == AppendStep(r) \/ ReturnStep(r) \/ Publish(r) \/ Notify(r)

Next ==
    \/ \E r \in Replicas : Record(r) \/ AppendEvent(r)
    \/ Subscribe \/ Handler \/ Heartbeat \/ Disconnect

Spec == Init /\ [][Next]_vars

\* The statements of an append return and the handler's loop runs.
FairSpec == Spec /\ WF_vars(Handler) /\ \A r \in Replicas : WF_vars(AppendEvent(r))

-----------------------------------------------------------------------------

\* The types, and the bound of the ring.
TypeOK ==
    /\ \A i \in 1 .. Len(log) : log[i].by \in Replicas
    /\ \A r \in Replicas : app[r].at \in {"idle", "insert", "hook", "return", "notify"}
    /\ errors \in 0 .. MaxErrors /\ writers \in Scenarios
    /\ sub.ring \in Seq(1 .. MaxSeq) /\ Len(sub.ring) <= Cap /\ sub.notify \in BOOLEAN
    /\ stream.at \in {"off", "replay", "live", "drain", "send"}
    /\ client.cursor \in 0 .. Len(log)

\* The events the client was not sent although it resumes behind them.
Missed == {n \in client.from + 1 .. client.cursor :
              Matches(n) /\ \A i \in DOMAIN client.got : client.got[i] # n}

\* A client is sent the events in the order of the chain and none twice, over any
\* number of streams it resumes, and never one outside its filter (StreamEvents:
\* "any overlap between the replay and the live ring is de-duplicated").
NoRepeat ==
    /\ \A i \in DOMAIN client.got : Matches(client.got[i])
    /\ \A i, j \in DOMAIN client.got : i < j => client.got[i] < client.got[j]

\* With one replica, whatever a client misses below its cursor it was told of: the
\* seam between the replay and the ring, a stream that ends between two sends and a
\* drop during the replay lose nothing silently (StreamEvents).  Only an event whose
\* COMMIT took effect and reported an error is passed over, since AppendEvent then
\* returns before the hook.
MissedIsReported ==
    writers = {Home} => Cardinality({n \in Missed : ~log[n].quiet}) <= client.lag

\* "a reconnecting client resumes without a gap or a repeat" (StreamEvents), the
\* gap a lag frame reports aside, whichever replica appends.
NoSilentGap == Cardinality(Missed) <= client.lag

\* No wakeup is lost: what is in the ring of a live stream is sent, or reported as
\* dropped, or the stream ends, although wakeups coalesce and come after the ring's
\* lock is released.
QueuedIsDrained ==
    (stream # Off /\ (sub.ring # <<>> \/ sub.dropped > 0)) ~> (stream = Off \/ (sub.ring = <<>> /\ sub.dropped = 0))
=============================================================================
