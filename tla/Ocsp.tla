-------------------------------- MODULE Ocsp --------------------------------
(***************************************************************************)
(* The OCSP responder of one CA on several replicas: each replica has a    *)
(* cache of signed responses, filled by the requests it answers and by its *)
(* presigner, and emptied by the status changes its own API handles, by    *)
(* expiry and by eviction.  Status changes made through another replica,   *)
(* through ACME, CMP or the command line reach no cache of this one.       *)
(***************************************************************************)
EXTENDS Revocation

CONSTANTS Replicas, Requests,
          Elsewhere     \* some changes are made where no cache is invalidated

ASSUME ElsewhereAssumption == Elsewhere \in BOOLEAN

VARIABLES cache,   \* per replica and serial, the status of the cached response
          ask,     \* the request each responder is answering
          batch,   \* the presigner of each replica: its batch of responses
          flush,   \* the cache entries an operation has still to invalidate
          aged,    \* certificates expired for longer than the grace
          missed   \* history: entries a change did not or will not reach

ocspVars == <<now, store, op, cache, ask, batch, flush, aged, missed>>

NoRequest == [at |-> "idle", replica |-> "none", serial |-> "none", nonce |-> FALSE,
              status |-> "none", late |-> FALSE]
NoBatch == [at |-> "idle", status |-> [s \in Serials |-> "none"], late |-> {}]

OcspInit ==
    /\ StoreInit
    /\ cache = [r \in Replicas |-> [s \in Serials |-> "none"]]
    /\ ask = [q \in Requests |-> NoRequest]
    /\ batch = [r \in Replicas |-> NoBatch]
    /\ flush = [p \in Operators |-> {}]
    /\ aged = {}
    /\ missed = {}

\* certStatus, when nothing changes during its two queries.
Status(s) == IF reason[s] # "none" THEN "revoked" ELSE IF book[s] # "none" THEN "good" ELSE "unknown"

Store(r, s, status, late) ==
    /\ cache' = [cache EXCEPT ![r][s] = status]
    /\ missed' = IF late THEN missed \union {<<r, s>>} ELSE missed \ {<<r, s>>}

Remove(r, s) == Store(r, s, "none", FALSE)

\* The status of the serials of some may have changed, and nobody will tell the
\* replicas of untold; whoever read it before is late.
Changed(some, untold) ==
    /\ missed' = missed \union (untold \X some)
    /\ ask' = [q \in Requests |->
                 [ask[q] EXCEPT !.late =
                    @ \/ (ask[q].at \in {"issued", "sign"} /\ ask[q].serial \in some)]]
    /\ batch' = [r \in Replicas |->
                   [batch[r] EXCEPT !.late = IF batch[r].at = "idle" THEN {} ELSE @ \union some]]

-----------------------------------------------------------------------------
(* The responder.                                                          *)

\* A request that the cache answers changes nothing; one with a nonce does not
\* look there.
Query(q) ==
    /\ ask[q].at = "idle"
    /\ \E r \in Replicas, s \in Serials, nonce \in BOOLEAN :
          /\ nonce \/ cache[r][s] = "none"
          /\ ask' = [ask EXCEPT ![q] = [NoRequest EXCEPT !.at = "revoked", !.replica = r,
                                                          !.serial = s, !.nonce = nonce]]
    /\ UNCHANGED <<now, store, op, cache, batch, flush, aged, missed>>

LookupRevoked(q) ==
    /\ ask[q].at = "revoked"
    /\ ask' = [ask EXCEPT ![q] = IF reason[@.serial] # "none"
                                 THEN [@ EXCEPT !.at = "sign", !.status = "revoked"]
                                 ELSE [@ EXCEPT !.at = "issued"]]
    /\ UNCHANGED <<now, store, op, cache, batch, flush, aged, missed>>

LookupIssued(q) ==
    /\ ask[q].at = "issued"
    /\ ask' = [ask EXCEPT ![q] =
                 [@ EXCEPT !.at = "sign",
                           !.status = IF book[ask[q].serial] # "none" THEN "good" ELSE "unknown"]]
    /\ UNCHANGED <<now, store, op, cache, batch, flush, aged, missed>>

\* Signed, kept in the cache unless it echoes a nonce, and sent.
Respond(q) ==
    /\ ask[q].at = "sign"
    /\ \/ ask[q].nonce /\ UNCHANGED <<cache, missed>>
       \/ ~ask[q].nonce /\ Store(ask[q].replica, ask[q].serial, ask[q].status, ask[q].late)
    /\ ask' = [ask EXCEPT ![q] = NoRequest]
    /\ UNCHANGED <<now, store, op, batch, flush, aged>>

\* A lookup or the signer fails.
RespondFails(q) ==
    /\ ask[q].at # "idle"
    /\ ask' = [ask EXCEPT ![q] = NoRequest]
    /\ UNCHANGED <<now, store, op, cache, batch, flush, aged, missed>>

Responder(q) == LookupRevoked(q) \/ LookupIssued(q) \/ Respond(q) \/ RespondFails(q)

-----------------------------------------------------------------------------
(* The presigner.                                                          *)

CollectIssued(r) ==
    /\ batch[r].at = "idle"
    /\ batch' = [batch EXCEPT ![r] =
                   [at |-> "revoked", late |-> {},
                    status |-> [s \in Serials |-> IF book[s] # "none" /\ s \notin aged
                                                  THEN "good" ELSE "none"]]]
    /\ UNCHANGED <<now, store, op, cache, ask, flush, aged, missed>>

\* Revocations override; what was asked about lately and is not in the batch
\* is answered with unknown.
CollectRevoked(r) ==
    /\ batch[r].at = "revoked"
    /\ \E recent \in SUBSET Serials :
          batch' = [batch EXCEPT ![r] =
                      [@ EXCEPT !.at = "sign",
                                !.status = [s \in Serials |->
                                    IF reason[s] # "none" THEN "revoked"
                                    ELSE IF batch[r].status[s] = "none" /\ s \in recent THEN "unknown"
                                    ELSE batch[r].status[s]]]]
    /\ UNCHANGED <<now, store, op, cache, ask, flush, aged, missed>>

\* Some signatures may fail; the signed responses are cached one by one.
Sign(r) ==
    /\ batch[r].at = "sign"
    /\ \E signed \in SUBSET Serials :
          batch' = [batch EXCEPT ![r] =
                      [@ EXCEPT !.at = "put",
                                !.status = [s \in Serials |->
                                    IF s \in signed THEN batch[r].status[s] ELSE "none"]]]
    /\ UNCHANGED <<now, store, op, cache, ask, flush, aged, missed>>

PutUntil(r) ==
    /\ batch[r].at = "put"
    /\ \E s \in Serials :
          /\ batch[r].status[s] # "none"
          /\ Store(r, s, batch[r].status[s], s \in batch[r].late)
          /\ batch' = [batch EXCEPT ![r] = [@ EXCEPT !.status = [batch[r].status EXCEPT ![s] = "none"]]]
    /\ UNCHANGED <<now, store, op, ask, flush, aged>>

\* All are cached, or a listing or the signer failed before the first one was.
BatchEnds(r) ==
    /\ batch[r].at # "idle"
    /\ batch[r].at = "put" => \A s \in Serials : batch[r].status[s] = "none"
    /\ batch' = [batch EXCEPT ![r] = NoBatch]
    /\ UNCHANGED <<now, store, op, cache, ask, flush, aged, missed>>

Presigner(r) == CollectRevoked(r) \/ Sign(r) \/ PutUntil(r) \/ BatchEnds(r)

-----------------------------------------------------------------------------
(* Status changes.                                                         *)

RequestChange(p) ==
    /\ flush[p] = {} /\ (Request(p) \/ Statement(p))
    /\ UNCHANGED <<cache, ask, batch, flush, aged, missed>>

\* The transaction, on behalf of a handler of replica r or, if there is none,
\* of one without a cache.  A bulk revocation invalidates what it revoked.
CommitChange(p) ==
    /\ flush[p] = {}
    /\ \E b \in Batches(p), rs \in {{r} : r \in Replicas} \union (IF Elsewhere THEN {{}} ELSE {}) :
          /\ Commit(p, b)
          /\ LET applied == IF op[p].kind = "bulk" THEN b \ Revoked ELSE b IN
             /\ flush' = [flush EXCEPT ![p] = rs \X applied]
             /\ Changed(applied, Replicas \ rs)
    /\ UNCHANGED <<cache, aged>>

\* The handler fails the operation before its transaction.
ChangeFails(p) ==
    /\ flush[p] = {} /\ Fail(p)
    /\ UNCHANGED <<cache, ask, batch, flush, aged, missed>>

\* Mutant: the entry stays (it is looked up under another key).
InvalidateMisses(p) ==
    /\ \E e \in flush[p] : flush' = [flush EXCEPT ![p] = @ \ {e}]
    /\ UNCHANGED <<now, store, op, cache, ask, batch, aged, missed>>

Invalidate(p) ==
    /\ \E e \in flush[p] :
          /\ flush' = [flush EXCEPT ![p] = @ \ {e}]
          /\ Remove(e[1], e[2])
    /\ UNCHANGED <<now, store, op, ask, batch, aged>>

\* Issuance tells no cache.
IssueUntold(s) ==
    /\ RecordIssued(s)
    /\ Changed({s}, Replicas)
    /\ UNCHANGED <<now, op, cache, flush, aged>>

\* The certificate expires, and the presigner's grace for it runs out.
Age(s) ==
    /\ book[s] # "none" /\ s \notin aged
    /\ aged' = aged \union {s}
    /\ UNCHANGED <<now, store, op, cache, ask, batch, flush, missed>>

\* Mutant: a good response has no expiry.
DropExceptGood(r, s) ==
    /\ cache[r][s] \notin {"none", "good"}
    /\ Remove(r, s)
    /\ UNCHANGED <<now, store, op, ask, batch, flush, aged>>

\* An entry expires or is evicted.
Drop(r, s) ==
    /\ cache[r][s] # "none"
    /\ Remove(r, s)
    /\ UNCHANGED <<now, store, op, ask, batch, flush, aged>>

OcspNext ==
    \/ \E q \in Requests : Query(q) \/ Responder(q)
    \/ \E r \in Replicas : CollectIssued(r) \/ Presigner(r)
    \/ \E p \in Operators : RequestChange(p) \/ CommitChange(p) \/ ChangeFails(p) \/ Invalidate(p)
    \/ \E s \in Serials : IssueUntold(s) \/ Age(s) \/ \E r \in Replicas : Drop(r, s)

\* Requests and batches come to an end, and cached responses expire.
Fairness ==
    /\ \A q \in Requests : WF_ocspVars(Responder(q))
    /\ \A r \in Replicas : WF_ocspVars(Presigner(r))
    /\ \A r \in Replicas, s \in Serials : WF_ocspVars(Drop(r, s))

OcspSpec == OcspInit /\ [][OcspNext]_ocspVars /\ Fairness

-----------------------------------------------------------------------------
Statuses == {"none", "good", "revoked", "unknown"}

\* The caches, the requests and the batches have the types of their structures.
OcspTypeOK ==
    /\ StoreTypeOK
    /\ cache \in [Replicas -> [Serials -> Statuses]]
    /\ ask \in [Requests -> [at : {"idle", "revoked", "issued", "sign"},
                             replica : Replicas \union {"none"}, serial : Serials \union {"none"},
                             nonce : BOOLEAN, status : Statuses, late : BOOLEAN]]
    /\ batch \in [Replicas -> [at : {"idle", "revoked", "sign", "put"},
                               status : [Serials -> Statuses], late : SUBSET Serials]]
    /\ flush \in [Operators -> SUBSET (Replicas \X Serials)]
    /\ aged \subseteq Serials
    /\ missed \subseteq Replicas \X Serials

Pending(r, s) == \E p \in Operators : <<r, s>> \in flush[p]

\* A cached response differs from the recorded status only while its
\* invalidation is pending, or if the change was not made through this replica's
\* API, or if the lookup behind it was overtaken by the change, or if the
\* certificate has expired: the presigner takes it for unknown.
WrongOnlyIfMissed ==
    \A r \in Replicas, s \in Serials :
        cache[r][s] \notin {"none", Status(s)} =>
            Pending(r, s) \/ <<r, s>> \in missed \/ s \in aged

\* Once the status of an unexpired certificate stays the same, so does, in the end, the
\* answer of every cache that has one: no stale response is renewed for ever.
CacheSettles ==
    \A s \in Serials, status \in Statuses :
        <>[](Status(s) = status /\ s \notin aged) =>
            <>[](\A r \in Replicas : cache[r][s] \in {"none", status})

\* Once a revocation made through a replica's API has invalidated the entry, that
\* replica does not answer good from its cache.
RevokedAtOnce ==
    \A r \in Replicas, s \in Revoked : cache[r][s] = "good" => Pending(r, s)

\* Unknown is only cached for a certificate the store does not know, or did not
\* know when it was looked up.
UnknownIsNotIssued ==
    \A r \in Replicas, s \in Serials :
        cache[r][s] = "unknown" /\ book[s] # "none" => <<r, s>> \in missed
=============================================================================
