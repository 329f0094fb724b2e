----------------------------- MODULE Revocation -----------------------------
(***************************************************************************)
(* The revocation records of one CA: revoked_certificates (the authority   *)
(* for CRLs and OCSP), released_holds (what a delta CRL must take back)    *)
(* and the status column of issued_certificates, with the operations that  *)
(* write them: revoke, suspend, release and bulk revoke.                   *)
(*                                                                         *)
(* Every operation reads the clock before its transaction, so another one  *)
(* may commit between an operation's time stamp and its own commit.        *)
(*                                                                         *)
(* A transaction is one step from the statement that locks the revocation  *)
(* row (an INSERT that inserts, SELECT ... FOR UPDATE, an UPDATE that finds *)
(* the row) to its COMMIT.  RevokeCertificate locks no row when its INSERT  *)
(* meets one, and PostgreSQL runs it at READ COMMITTED, so its statements   *)
(* are steps of their own from there until one locks a row.  SQLite has one *)
(* connection, which a transaction keeps to itself.                        *)
(***************************************************************************)
EXTENDS Naturals

CONSTANTS Serials, Operators,
          MaxReads      \* bound on the readings of the clock

ASSUME MaxReadsAssumption == MaxReads \in Nat

VARIABLES now,         \* the last reading of the clock; no two are equal
          reason,      \* revoked_certificates.reason, "none" without a row
          revokedAt,   \* revoked_certificates.revoked_at, 0 without a row
          releasedAt,  \* released_holds.released_at, 0 without a row
          book,        \* issued_certificates.status, "none" without a row
          op,          \* the operation each operator is carrying out
          lost         \* history: serials whose last revocation updated a record
                       \* that a release had deleted

store == <<reason, revokedAt, releasedAt, book, lost>>

Idle == [kind |-> "idle", todo |-> {}, reason |-> "none", when |-> 0]

StoreInit ==
    /\ now = 0
    /\ reason = [s \in Serials |-> "none"]
    /\ revokedAt = [s \in Serials |-> 0]
    /\ releasedAt = [s \in Serials |-> 0]
    /\ book = [s \in Serials |-> "none"]
    /\ op = [p \in Operators |-> Idle]
    /\ lost = {}

Revoked == {s \in Serials : reason[s] # "none"}

ReadClock == now < MaxReads /\ now' = now + 1

\* A certificate is recorded in the inventory.
RecordIssued(s) ==
    /\ book[s] = "none"
    /\ book' = [book EXCEPT ![s] = "valid"]
    /\ UNCHANGED <<reason, revokedAt, releasedAt, lost>>

-----------------------------------------------------------------------------
(* The operations up to their time stamp.                                  *)

Operation(kind, todo, r, t) == [kind |-> kind, todo |-> todo, reason |-> r, when |-> t]

Begin(p, kind, todo, r) ==
    /\ op[p] = Idle
    /\ ReadClock
    /\ op' = [op EXCEPT ![p] = Operation(kind, todo, r, now + 1)]
    /\ UNCHANGED store

\* The plan of a bulk revocation: what the inventory does not call revoked,
\* and listed serials that neither it nor the revocations know.
Candidates ==
    {s \in Serials : IF book[s] = "none" THEN reason[s] = "none" ELSE book[s] # "revoked"}

Request(p) ==
    \/ \E s \in Serials, r \in {"hold", "permanent"} : Begin(p, "revoke", {s}, r)
    \/ \E s \in Serials : Begin(p, "suspend", {s}, "hold")
    \/ \E s \in Serials : Begin(p, "release", {s}, "none")
    \/ \E todo \in SUBSET Candidates \ {{}}, r \in {"hold", "permanent"} :
          Begin(p, "bulk", todo, r)

-----------------------------------------------------------------------------
(* The transactions.                                                       *)

\* UPDATE issued_certificates ... WHERE serial = ?
Inventory(s, status) ==
    book' = [book EXCEPT ![s] = IF @ = "none" THEN "none" ELSE status]

\* The INSERT or the UPDATE of RevokeCertificate writes the revocation row.
RevokeCertificate(s, r, t) ==
    /\ reason' = [reason EXCEPT ![s] = r]
    /\ revokedAt' = [revokedAt EXCEPT ![s] = t]
    /\ Inventory(s, "revoked")
    /\ releasedAt' = [releasedAt EXCEPT ![s] = 0]
    /\ lost' = lost \ {s}

\* Both found a row in the way and none to update.  The rest of the transaction
\* is carried out all the same, and no error is returned.
RevokeNothingRecorded(s) ==
    /\ Inventory(s, "revoked")
    /\ releasedAt' = [releasedAt EXCEPT ![s] = 0]
    /\ lost' = IF reason[s] = "none" THEN lost \union {s} ELSE lost
    /\ UNCHANGED <<reason, revokedAt>>

\* A permanent revocation is not turned into a hold.
SuspendCertificate(s, t) ==
    /\ reason[s] # "permanent"
    /\ reason' = [reason EXCEPT ![s] = "hold"]
    /\ revokedAt' = [revokedAt EXCEPT ![s] = t]
    /\ releasedAt' = [releasedAt EXCEPT ![s] = 0]
    /\ Inventory(s, "held")
    /\ lost' = lost \ {s}

\* Mutant: the inventory row is forgotten.
ReleaseHoldOnly(s, t) ==
    /\ reason[s] = "hold"
    /\ reason' = [reason EXCEPT ![s] = "none"]
    /\ revokedAt' = [revokedAt EXCEPT ![s] = 0]
    /\ releasedAt' = [releasedAt EXCEPT ![s] = t]
    /\ UNCHANGED <<book, lost>>

ReleaseHold(s, t) ==
    /\ reason[s] = "hold"
    /\ reason' = [reason EXCEPT ![s] = "none"]
    /\ revokedAt' = [revokedAt EXCEPT ![s] = 0]
    /\ releasedAt' = [releasedAt EXCEPT ![s] = t]
    /\ Inventory(s, "valid")
    /\ UNCHANGED lost

\* One batch; what is revoked already is left as it is.
BulkRevokeCertificates(batch, r, t) ==
    LET new == batch \ Revoked IN
    /\ reason' = [s \in Serials |-> IF s \in new THEN r ELSE reason[s]]
    /\ revokedAt' = [s \in Serials |-> IF s \in new THEN t ELSE revokedAt[s]]
    /\ book' = [s \in Serials |-> IF s \in new /\ book[s] # "none" THEN "revoked" ELSE book[s]]
    /\ lost' = lost \ new
    /\ UNCHANGED releasedAt

\* The transaction of p for the serials of batch.
Transaction(p, batch) ==
    LET o == op[p] IN
    \/ o.kind = "bulk" /\ BulkRevokeCertificates(batch, o.reason, o.when)
    \/ \E s \in batch :
          \/ /\ o.kind = (IF reason[s] = "none" THEN "revoke" ELSE "refresh")
             /\ RevokeCertificate(s, o.reason, o.when)
          \/ /\ o.kind = "marker" \/ (o.kind = "inventory" /\ book[s] # "none")
             /\ RevokeNothingRecorded(s)
          \/ o.kind = "suspend" /\ SuspendCertificate(s, o.when)
          \/ o.kind = "release" /\ ReleaseHold(s, o.when)

\* A statement of RevokeCertificate that neither writes nor locks: the INSERT
\* meets a row, the UPDATE finds it gone, the UPDATE of the inventory finds none.
Statement(p) ==
    /\ \E s \in op[p].todo, next \in {"refresh", "inventory", "marker"} :
          /\ \/ op[p].kind = "revoke" /\ reason[s] # "none" /\ next = "refresh"
             \/ op[p].kind = "refresh" /\ reason[s] = "none" /\ next = "inventory"
             \/ op[p].kind = "inventory" /\ book[s] = "none" /\ next = "marker"
          /\ op' = [op EXCEPT ![p] = Operation(next, op[p].todo, op[p].reason, op[p].when)]
    /\ UNCHANGED <<now, store>>

Batches(p) == SUBSET op[p].todo \ {{}}

Commit(p, batch) ==
    /\ Transaction(p, batch)
    /\ op' = [op EXCEPT ![p] =
                 IF batch = op[p].todo THEN Idle
                 ELSE Operation(op[p].kind, op[p].todo \ batch, op[p].reason, op[p].when)]
    /\ UNCHANGED now

\* The operation is refused or fails; what a bulk revocation did so far stays.
Fail(p) ==
    /\ op[p] # Idle
    /\ op' = [op EXCEPT ![p] = Idle]
    /\ UNCHANGED <<now, store>>

-----------------------------------------------------------------------------
Times == 0 .. MaxReads
Reasons == {"none", "hold", "permanent"}

StoreTypeOK ==
    /\ now \in Times
    /\ reason \in [Serials -> Reasons]
    /\ revokedAt \in [Serials -> Times]
    /\ releasedAt \in [Serials -> Times]
    /\ book \in [Serials -> {"none", "valid", "held", "revoked"}]
    /\ lost \subseteq Serials
    /\ op \in [Operators -> [kind : {"idle", "revoke", "refresh", "inventory", "marker",
                                     "suspend", "release", "bulk"},
                             todo : SUBSET Serials, reason : Reasons, when : Times]]

\* The inventory calls a certificate held or revoked that the revocation records
\* do not, only if the record was released between the statements of the
\* revocation that then updated the inventory: four operations write the two in
\* one transaction each.
InventoryIsBacked ==
    \A s \in Serials :
        /\ book[s] = "held" => reason[s] = "hold"
        /\ book[s] = "revoked" => reason[s] # "none" \/ s \in lost

\* "The authoritative revoked_certificates row is always written".
RevocationIsRecorded == \A s \in Serials : book[s] = "revoked" => reason[s] # "none"
=============================================================================
