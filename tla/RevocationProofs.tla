-------------------------- MODULE RevocationProofs --------------------------
(***************************************************************************)
(* The CRLs, for any number of serials, of operators and of requests that  *)
(* generate at the same time: the inventory is backed by the records, and  *)
(* a base and its delta, read together, miss only what was in flight while *)
(* the base was listed.  The OCSP caches, for any number of replicas and   *)
(* requests: a stale answer has a cause.  Both rest on what an operation   *)
(* does to the records (Revocation).                                       *)
(***************************************************************************)
EXTENDS Crl, Ocsp, TLAPS

-----------------------------------------------------------------------------
(* The CRLs: the inductive invariant.                                      *)

Revokes(kind) == kind \in {"revoke", "refresh", "bulk"}

\* An operation is stamped with a reading of the clock that was made, and one
\* that revokes has a reason.
Stamped ==
    \A p \in Operators : /\ op[p].when <= now
                         /\ Revokes(op[p].kind) => op[p].reason # "none"

\* What has happened since base CRL b was listed, to a serial that no operation
\* stamped before b's cut had in flight: it is stamped after the cut.
Since(b) ==
    \A s \in Serials \ b.inFlight :
        /\ \A p \in Operators : s \in op[p].todo => op[p].when > b.cut
        /\ reason[s] # "none" /\ s \notin b.listed => revokedAt[s] > b.cut
        /\ reason[s] = "none" /\ s \in b.listed => releasedAt[s] > b.cut \/ s \in lost

Of(d) == base # NoCRL /\ d.baseNumber = base.number

CoversRevoked(d) == d.revoked \ (base.listed \union d.listed) \subseteq base.inFlight
CoversReleased(d) ==
    base.listed \ (d.stillRevoked \union d.removed) \subseteq base.inFlight \union d.lost

\* A generator: the cut of a base is its own reading of the clock, a base that
\* has a number is the only one to have it, and a delta keeps the cut of its base.
Generating(g) ==
    /\ gen[g].cut <= now /\ gen[g].baseNumber < counter
    /\ gpc[g] \in {"idle", "list base", "number base"} => gen[g].baseNumber = 0
    /\ gpc[g] = "list base" => gen[g].cut > 0 /\ \A p \in Operators : op[p].when # gen[g].cut
    /\ gpc[g] \in {"number base", "store base"} => Since(gen[g])
    /\ gpc[g] = "store base" =>
          /\ gen[g].number = gen[g].baseNumber /\ gen[g].number > 0
          /\ gen[g].number # base.number /\ gen[g].number # delta.baseNumber
          /\ \A h \in Generators \ {g} : gen[g].number # gen[h].baseNumber
    /\ gpc[g] \in {"list delta", "list released"} /\ Of(gen[g]) => gen[g].cut = base.cut
    /\ gpc[g] \in {"list released", "number delta", "store delta"} /\ Of(gen[g]) =>
          CoversRevoked(gen[g])
    /\ gpc[g] \in {"number delta", "store delta"} /\ Of(gen[g]) => CoversReleased(gen[g])

Published ==
    /\ base.number < counter /\ delta.baseNumber < counter /\ base.cut <= now
    /\ base # NoCRL => base.number > 0 /\ Since(base)
    /\ PairMissesOnlyInFlight

CrlInv ==
    /\ TypeOK /\ Stamped /\ InventoryIsBacked /\ Published
    /\ \A g \in Generators : Generating(g)

-----------------------------------------------------------------------------
(* Types.                                                                  *)

Places == {"idle", "list base", "number base", "store base", "list delta",
           "list released", "number delta", "store delta"}
Kinds == {"idle", "revoke", "refresh", "inventory", "marker", "suspend", "release", "bulk"}
Operations == [kind : Kinds,
               todo : SUBSET Serials, reason : Reasons, when : Times]

LEMMA NoCRLType == NoCRL \in CRLs
BY MaxReadsAssumption DEF NoCRL, CRLs, Times

LEMMA TypeInit == Init => TypeOK
BY MaxReadsAssumption, NoCRLType DEF Init, StoreInit, TypeOK, StoreTypeOK, Idle, Times, Reasons

LEMMA OperationTypes ==
    ASSUME NEW k \in Kinds, NEW S \in SUBSET Serials, NEW r \in Reasons, NEW t \in Times
    PROVE  Operation(k, S, r, t) \in Operations /\ Idle \in Operations
BY MaxReadsAssumption DEF Operation, Operations, Kinds, Idle, Times, Reasons

LEMMA ClockTypes ==
    ASSUME now \in Times, ReadClock
    PROVE  now' \in Times /\ now' = now + 1 /\ now + 1 \in Times
BY MaxReadsAssumption DEF Times, ReadClock

-----------------------------------------------------------------------------
(* What a transaction does to a serial.                                    *)

LEMMA BeginStep ==
    ASSUME StoreTypeOK, NEW p \in Operators, Request(p)
    PROVE  /\ UNCHANGED store /\ now' = now + 1 /\ now' \in Times
           /\ \E o \in Operations :
                 /\ op' = [op EXCEPT ![p] = o] /\ o.when = now + 1
                 /\ Revokes(o.kind) => o.reason # "none"
<1>0. now \in Times
  BY Zenon DEF StoreTypeOK
<1>1. PICK k \in {"revoke", "suspend", "release", "bulk"}, S \in SUBSET Serials, r \in Reasons :
         Begin(p, k, S, r) /\ (Revokes(k) => r # "none")
  BY Zenon DEF Request, Candidates, Reasons, Revokes
<1>2. ReadClock /\ UNCHANGED store /\ op' = [op EXCEPT ![p] = Operation(k, S, r, now + 1)]
  BY Zenon, <1>1 DEF Begin
<1>3. now' = now + 1 /\ now' \in Times /\ now + 1 \in Times
  BY Zenon, <1>0, <1>2, ClockTypes
<1>4. Operation(k, S, r, now + 1) \in Operations
  BY Zenon, <1>3, OperationTypes DEF Kinds
<1>5. /\ Operation(k, S, r, now + 1).when = now + 1
      /\ Operation(k, S, r, now + 1).kind = k /\ Operation(k, S, r, now + 1).reason = r
  BY DEF Operation
<1> QED BY Zenon, <1>1, <1>2, <1>3, <1>4, <1>5

\* A statement of RevokeCertificate that finds nothing to write.
LEMMA StatementStep ==
    ASSUME StoreTypeOK, NEW p \in Operators, Statement(p)
    PROVE  /\ UNCHANGED <<now, store>>
           /\ \E o \in Operations :
                 /\ op' = [op EXCEPT ![p] = o] /\ o.todo = op[p].todo /\ o.when = op[p].when
                 /\ o.reason = op[p].reason /\ (Revokes(o.kind) => Revokes(op[p].kind))
<1>0. /\ op[p].todo \in SUBSET Serials /\ op[p].reason \in Reasons /\ op[p].when \in Times
  BY Zenon DEF StoreTypeOK
<1>1. PICK next \in {"refresh", "inventory", "marker"} :
         /\ next = "refresh" => op[p].kind = "revoke"
         /\ op' = [op EXCEPT ![p] = Operation(next, op[p].todo, op[p].reason, op[p].when)]
  BY Zenon DEF Statement
<1> DEFINE o == Operation(next, op[p].todo, op[p].reason, op[p].when)
<1>2. o \in Operations
  BY Zenon, <1>0, OperationTypes DEF Kinds
<1>3. /\ o.todo = op[p].todo /\ o.when = op[p].when /\ o.reason = op[p].reason /\ o.kind = next
  BY DEF Operation
<1>4. Revokes(o.kind) => Revokes(op[p].kind)
  BY Zenon, <1>1, <1>3 DEF Revokes
<1> HIDE DEF o
<1>5. op' = [op EXCEPT ![p] = o]
  BY Zenon, <1>1 DEF o
<1> QED BY Zenon, <1>2, <1>3, <1>4, <1>5 DEF Statement

\* What a transaction of p may do to serial s.
Transacts(p, s) ==
    \/ /\ reason'[s] = reason[s] /\ revokedAt'[s] = revokedAt[s]
       /\ releasedAt'[s] = releasedAt[s] /\ book'[s] = book[s] /\ (s \in lost => s \in lost')
    \/ /\ s \in op[p].todo /\ reason'[s] # "none" /\ revokedAt'[s] = op[p].when
       /\ book'[s] = "held" => reason'[s] = "hold"
    \/ /\ s \in op[p].todo /\ reason'[s] = "none" /\ releasedAt'[s] = op[p].when
       /\ book'[s] \in {"none", "valid"}
    \/ /\ reason'[s] = reason[s] /\ revokedAt'[s] = revokedAt[s]
       /\ book'[s] \in {"none", "revoked"} /\ (reason[s] = "none" => s \in lost')

Written ==
    /\ reason' \in [Serials -> Reasons] /\ revokedAt' \in [Serials -> Times]
    /\ releasedAt' \in [Serials -> Times] /\ lost' \in SUBSET Serials
    /\ book' \in [Serials -> {"none", "valid", "held", "revoked"}]

Transacted(p) == Written /\ \A s \in Serials : Transacts(p, s)

LEMMA TransactionTypes ==
    ASSUME StoreTypeOK, NEW p \in Operators, NEW b \in Batches(p), Transaction(p, b)
    PROVE  Written
<1>0. /\ op[p].when \in Times /\ op[p].reason \in Reasons
      /\ reason \in [Serials -> Reasons] /\ revokedAt \in [Serials -> Times]
      /\ releasedAt \in [Serials -> Times] /\ 0 \in Times
      /\ book \in [Serials -> {"none", "valid", "held", "revoked"}]
      /\ lost \in SUBSET Serials /\ b \in SUBSET Serials
  <2>1. op[p].todo \in SUBSET Serials
    BY Zenon DEF StoreTypeOK
  <2> QED BY MaxReadsAssumption, <2>1 DEF StoreTypeOK, Times, Batches
<1>1. CASE BulkRevokeCertificates(b, op[p].reason, op[p].when)
  BY <1>0, <1>1 DEF BulkRevokeCertificates, Written
<1>2. ASSUME NEW x \in b, RevokeCertificate(x, op[p].reason, op[p].when)
      PROVE  Written
  BY Zenon, <1>0, <1>2 DEF RevokeCertificate, Inventory, Written
<1>3. ASSUME NEW x \in b, SuspendCertificate(x, op[p].when)
      PROVE  Written
  BY Zenon, <1>0, <1>3 DEF SuspendCertificate, Inventory, Reasons, Written
<1>4. ASSUME NEW x \in b, ReleaseHold(x, op[p].when)
      PROVE  Written
  BY Zenon, <1>0, <1>4 DEF ReleaseHold, Inventory, Reasons, Written
<1>5. ASSUME NEW x \in b, RevokeNothingRecorded(x)
      PROVE  Written
  BY Zenon, <1>0, <1>5 DEF RevokeNothingRecorded, Inventory, Written
<1> QED BY Zenon, <1>1, <1>2, <1>3, <1>4, <1>5 DEF Transaction

LEMMA TransactionStep ==
    ASSUME StoreTypeOK, Stamped, InventoryIsBacked, NEW p \in Operators, NEW b \in Batches(p),
           Transaction(p, b)
    PROVE  Transacted(p)
<1>0. /\ op[p].reason \in Reasons /\ op[p].todo \in SUBSET Serials
      /\ reason \in [Serials -> Reasons] /\ revokedAt \in [Serials -> Times]
      /\ releasedAt \in [Serials -> Times] /\ lost \in SUBSET Serials
      /\ book \in [Serials -> {"none", "valid", "held", "revoked"}]
      /\ op[p].kind \in {"revoke", "refresh", "bulk"} => op[p].reason # "none"
  BY Zenon DEF StoreTypeOK, Stamped, Revokes
<1>1. b \in SUBSET op[p].todo
  BY Zenon DEF Batches
<1> SUFFICES ASSUME NEW s \in Serials PROVE Transacts(p, s)
  BY Zenon, TransactionTypes DEF Transacted
<1>2. CASE op[p].kind = "bulk" /\ BulkRevokeCertificates(b, op[p].reason, op[p].when)
  BY Zenon, <1>0, <1>1, <1>2 DEF BulkRevokeCertificates, Revoked, Transacts, InventoryIsBacked
<1>3. ASSUME NEW x \in b, op[p].kind \in {"revoke", "refresh"},
             RevokeCertificate(x, op[p].reason, op[p].when)
      PROVE  Transacts(p, s)
  BY <1>0, <1>1, <1>3 DEF RevokeCertificate, Inventory, Transacts
<1>4. ASSUME NEW x \in b, SuspendCertificate(x, op[p].when)
      PROVE  Transacts(p, s)
  BY <1>0, <1>1, <1>4 DEF SuspendCertificate, Inventory, Transacts
<1>5. ASSUME NEW x \in b, ReleaseHold(x, op[p].when)
      PROVE  Transacts(p, s)
  BY <1>0, <1>1, <1>5 DEF ReleaseHold, Inventory, Transacts
<1>6. ASSUME NEW x \in b, RevokeNothingRecorded(x)
      PROVE  Transacts(p, s)
  BY <1>0, <1>1, <1>6 DEF RevokeNothingRecorded, Inventory, Transacts
<1> QED BY Zenon, <1>2, <1>3, <1>4, <1>5, <1>6 DEF Transaction

-----------------------------------------------------------------------------
(* The steps of the operators.                                             *)

LEMMA NatOrder ==
    \A m, n, k \in Nat :
        /\ m <= n /\ n <= k => m <= k
        /\ m < n /\ n <= k => m < k
        /\ m < n => m # n
        /\ m > 0 => m # 0
        /\ m <= n => m < n + 1 /\ m # n + 1
        /\ ~(m < n) /\ m # n => m > n
        /\ 0 <= m /\ m <= m /\ m <= m + 1 /\ (m # 0 => 0 < m)
OBVIOUS

LEMMA CrlFields ==
    ASSUME NEW b \in CRLs
    PROVE  b.cut \in Nat /\ b.number \in Nat /\ b.baseNumber \in Nat
<1>1. b.cut \in Times /\ b.number \in Nat /\ b.baseNumber \in Nat
  BY Zenon DEF CRLs
<1> QED BY <1>1, MaxReadsAssumption DEF Times

LEMMA NowIsNat == TypeOK => now \in Nat
<1>1. TypeOK => now \in Times
  BY Zenon DEF TypeOK, StoreTypeOK
<1> QED BY <1>1, MaxReadsAssumption DEF Times

\* A step of an operator: operations are dropped, committed or stamped anew, and
\* what happens to a serial is the work of an operation that had it.
OperatorStep ==
    /\ UNCHANGED <<crls, generators>> /\ now <= now'
    /\ \A p \in Operators :
          \/ op'[p].todo \subseteq op[p].todo /\ op'[p].when = op[p].when
          \/ op'[p] = Idle
          \/ op'[p].when = now + 1
    /\ \/ UNCHANGED <<reason, revokedAt, releasedAt, lost>>
       \/ \E p \in Operators : \A s \in Serials : Transacts(p, s)

\* What is stamped after a base was cut does not undo what the base promised.
LEMMA SinceKept ==
    ASSUME TypeOK, OperatorStep, NEW b \in CRLs, b.cut <= now, Since(b)
    PROVE  Since(b)'
<1> SUFFICES ASSUME NEW s \in Serials \ b.inFlight
             PROVE  /\ \A p \in Operators : s \in op'[p].todo => op'[p].when > b.cut
                    /\ reason'[s] # "none" /\ s \notin b.listed => revokedAt'[s] > b.cut
                    /\ reason'[s] = "none" /\ s \in b.listed => releasedAt'[s] > b.cut \/ s \in lost'
  BY Zenon DEF Since
<1>1. \/ /\ reason'[s] = reason[s] /\ revokedAt'[s] = revokedAt[s]
         /\ releasedAt'[s] = releasedAt[s] /\ lost' = lost
      \/ \E q \in Operators : Transacts(q, s)
  BY Zenon DEF OperatorStep
<1>2. \A p \in Operators : s \in op[p].todo => op[p].when > b.cut
  BY Zenon DEF Since
<1>3. now + 1 > b.cut
  BY CrlFields, NowIsNat
<1>4. \A p \in Operators : s \in op'[p].todo => op'[p].when > b.cut
  <2>1. Idle.todo = {}
    BY DEF Idle
  <2> QED BY Zenon, <1>2, <1>3, <2>1 DEF OperatorStep
<1> QED BY Zenon, <1>1, <1>2, <1>4 DEF Since, Transacts

LEMMA OperatorKeeps ==
    ASSUME CrlInv, OperatorStep, TypeOK', Stamped', InventoryIsBacked'
    PROVE  CrlInv'
<1> USE DEF CrlInv
<1>1. now \in Nat /\ now' \in Nat /\ base \in CRLs /\ gen \in [Generators -> CRLs]
      /\ base.cut \in Nat /\ \A g \in Generators : gen[g] \in CRLs /\ gen[g].cut \in Nat
  <2>1. base \in CRLs /\ gen \in [Generators -> CRLs]
    BY Zenon DEF TypeOK
  <2>2. now \in Nat /\ now' \in Nat
    <3>1. (TypeOK => now \in Nat)'
      BY NowIsNat, PTL
    <3> QED BY Zenon, <3>1, NowIsNat
  <2> QED BY Zenon, <2>1, <2>2, CrlFields
<1>2. \A n \in Nat : n <= now => n <= now' /\ n # now + 1
  BY <1>1 DEF OperatorStep
<1>3. UNCHANGED <<counter, base, delta, gpc, asked, gen>>
  BY Zenon DEF OperatorStep, crls, generators
<1>4. Published'
  BY Zenon, <1>1, <1>2, <1>3, SinceKept DEF Published, PairMissesOnlyInFlight, Paired
<1>5. ASSUME NEW g \in Generators PROVE Generating(g)'
  <2>1. Generating(g)
    BY Zenon
  <2>2. gpc[g] \in {"number base", "store base"} => Since(gen[g])'
    BY Zenon, <1>1, <1>3, <2>1, SinceKept DEF Generating
  <2>3. gpc[g] = "list base" => \A p \in Operators : op'[p].when # gen[g].cut
    <3>1. gen[g].cut > 0 => gen[g].cut # Idle.when
      BY DEF Idle
    <3> QED BY ZenonT(60), <1>1, <1>2, <2>1, <3>1 DEF Generating, OperatorStep
  <2> QED BY Zenon, <1>1, <1>2, <1>3, <2>1, <2>2, <2>3 DEF Generating, Of, CoversRevoked, CoversReleased
<1> QED BY Zenon, <1>4, <1>5

\* One operation is replaced, as an operator replaces it.
LEMMA OneOperation ==
    ASSUME CrlInv, NEW p \in Operators, NEW o \in Operations, op' = [op EXCEPT ![p] = o],
           UNCHANGED <<crls, generators>>, now' \in Times, now <= now',
           \/ o.todo \subseteq op[p].todo /\ o.when = op[p].when /\ o.reason = op[p].reason
              /\ (Revokes(o.kind) => Revokes(op[p].kind))
           \/ o = Idle
           \/ now' = now + 1 /\ o.when = now + 1 /\ (Revokes(o.kind) => o.reason # "none"),
           \/ UNCHANGED store
           \/ Transacted(p)
    PROVE  CrlInv'
<1>1. op \in [Operators -> Operations]
  BY Zenon DEF CrlInv, TypeOK, StoreTypeOK, Operations, Kinds
<1>2. op' \in [Operators -> Operations] /\ op'[p] = o /\ \A q \in Operators \ {p} : op'[q] = op[q]
  BY Zenon, <1>1
<1>3. TypeOK'
  <2>1. StoreTypeOK'
    BY ZenonT(60), <1>2 DEF CrlInv, TypeOK, StoreTypeOK, Operations, Kinds, store, Transacted, Written
  <2> QED BY Zenon, <2>1 DEF CrlInv, TypeOK, crls, generators
<1>4. Stamped'
  <2>1. now \in Nat /\ now' \in Nat /\ \A q \in Operators : op[q].when \in Nat
    <3>1. now \in Times /\ now' \in Times /\ \A q \in Operators : op[q].when \in Times
      BY Zenon, <1>1 DEF CrlInv, TypeOK, StoreTypeOK, Operations, Kinds
    <3> QED BY <3>1, MaxReadsAssumption DEF Times
  <2>2. \A n \in Nat : n <= now => n <= now'
    BY <2>1
  <2>3. Idle.when <= now' /\ ~Revokes(Idle.kind) /\ now + 1 <= now + 1
    BY <2>1 DEF Idle, Revokes
  <2> QED BY Zenon, <1>2, <2>1, <2>2, <2>3 DEF CrlInv, Stamped
<1>5. InventoryIsBacked'
  BY Zenon DEF CrlInv, InventoryIsBacked, store, Transacted, Transacts
<1>6. OperatorStep
  BY Zenon, <1>2 DEF OperatorStep, store, Transacted
<1> QED BY Zenon, <1>3, <1>4, <1>5, <1>6, OperatorKeeps

LEMMA OperateStep ==
    ASSUME CrlInv, NEW p \in Operators, Operate(p)
    PROVE  CrlInv'
<1>0. /\ StoreTypeOK /\ Stamped /\ InventoryIsBacked /\ now \in Times /\ now <= now /\ now <= now + 1
      /\ op \in [Operators -> Operations] /\ UNCHANGED <<crls, generators>>
  <2>1. /\ StoreTypeOK /\ Stamped /\ InventoryIsBacked /\ now \in Times
        /\ op \in [Operators -> Operations]
    BY Zenon DEF CrlInv, TypeOK, StoreTypeOK, Operations, Kinds
  <2>2. now <= now /\ now <= now + 1
    BY <2>1, MaxReadsAssumption DEF Times
  <2> QED BY Zenon, <2>1, <2>2 DEF Operate
<1>a. Idle \in Operations
  BY MaxReadsAssumption DEF Idle, Operations, Kinds, Times, Reasons
<1>1. CASE Request(p)
  <2>1. UNCHANGED store /\ now' = now + 1 /\ now' \in Times
    BY Zenon, <1>0, <1>1, BeginStep
  <2>2. PICK o \in Operations :
            /\ op' = [op EXCEPT ![p] = o] /\ o.when = now + 1
            /\ Revokes(o.kind) => o.reason # "none"
    BY Zenon, <1>0, <1>1, BeginStep
  <2> QED BY Zenon, <1>0, <2>1, <2>2, OneOperation
<1>2. CASE Fail(p)
  BY Zenon, <1>0, <1>a, <1>2, OneOperation DEF Fail
<1>4. CASE Statement(p)
  BY Zenon, <1>0, <1>4, StatementStep, OneOperation
<1>3. ASSUME NEW some \in Batches(p), Commit(p, some) PROVE CrlInv'
  <2>1. Transacted(p) /\ now' = now
    BY Zenon, <1>0, <1>3, TransactionStep DEF Commit
  <2> DEFINE o == Operation(op[p].kind, op[p].todo \ some, op[p].reason, op[p].when)
  <2>2. /\ o \in Operations /\ o.todo \subseteq op[p].todo /\ o.when = op[p].when
        /\ o.kind = op[p].kind /\ o.reason = op[p].reason
    <3>1. /\ op[p].kind \in Kinds
          /\ op[p].todo \in SUBSET Serials /\ op[p].reason \in Reasons /\ op[p].when \in Times
      BY Zenon, <1>0 DEF Operations
    <3> QED BY <3>1 DEF Operations, Operation
  <2>3. op' = [op EXCEPT ![p] = Idle] \/ op' = [op EXCEPT ![p] = o]
    BY Zenon, <1>3 DEF Commit
  <2> HIDE DEF o
  <2> QED BY Zenon, <1>0, <1>a, <2>1, <2>2, <2>3, OneOperation
<1> QED BY Zenon, <1>1, <1>2, <1>3, <1>4 DEF Operate

LEMMA IssueStep ==
    ASSUME CrlInv, NEW s \in Serials, Issue(s)
    PROVE  CrlInv'
<1>1. /\ UNCHANGED <<now, op, crls, generators, reason, revokedAt, releasedAt, lost>>
      /\ book' = [book EXCEPT ![s] = "valid"]
      /\ book \in [Serials -> {"none", "valid", "held", "revoked"}]
  BY Zenon DEF Issue, RecordIssued, CrlInv, TypeOK, StoreTypeOK
<1>2. book' \in [Serials -> {"none", "valid", "held", "revoked"}]
  BY Zenon, <1>1
<1>3. TypeOK'
  BY Zenon, <1>1, <1>2 DEF CrlInv, TypeOK, StoreTypeOK, crls, generators
<1>4. InventoryIsBacked'
  BY <1>1 DEF CrlInv, InventoryIsBacked
<1>5. Stamped'
  BY Zenon, <1>1 DEF CrlInv, Stamped
<1>6. now <= now
  BY NowIsNat DEF CrlInv
<1>7. OperatorStep
  BY Zenon, <1>1, <1>6 DEF OperatorStep
<1> QED BY Zenon, <1>3, <1>4, <1>5, <1>7, OperatorKeeps

-----------------------------------------------------------------------------
(* The steps of the generators.                                            *)

\* A generator that moves leaves what the others rely on.
LEMMA GenOthers ==
    ASSUME CrlInv, TypeOK', NEW g \in Generators, UNCHANGED <<store, op>>, now <= now',
           counter <= counter',
           \A h \in Generators \ {g} : gpc'[h] = gpc[h] /\ gen'[h] = gen[h],
           \/ base' = base
           \/ gpc[g] = "store base" /\ base' = gen[g],
           delta' = delta \/ delta' = gen[g],
           gen'[g].baseNumber \in {0, counter, gen[g].baseNumber, base.number}
    PROVE  \A h \in Generators \ {g} : Generating(h)'
<1> SUFFICES ASSUME NEW h \in Generators \ {g} PROVE Generating(h)'
  BY Zenon
<1>0. /\ Generating(h) /\ Generating(g) /\ now \in Nat /\ now' \in Nat
      /\ gen[h].cut \in Nat /\ gen[h].number \in Nat /\ gen[h].baseNumber \in Nat
      /\ counter \in Nat /\ counter' \in Nat
  <2>1. now' \in Nat
    <3>1. (TypeOK => now \in Nat)'
      BY NowIsNat, PTL
    <3> QED BY Zenon, <3>1
  <2>2. counter \in Nat /\ counter' \in Nat
    BY Zenon DEF CrlInv, TypeOK
  <2>3. gen[h] \in CRLs
    BY Zenon DEF CrlInv, TypeOK
  <2> QED BY Zenon, <2>1, <2>2, <2>3, NowIsNat, CrlFields DEF CrlInv
<1>1. gen[h].cut <= now' /\ gen[h].baseNumber < counter'
  <2>1. gen[h].cut <= now /\ gen[h].baseNumber < counter
    BY Zenon, <1>0 DEF Generating
  <2> QED BY ZenonT(60), <1>0, <2>1, NatOrder
<1>2. Since(gen[h])' <=> Since(gen[h])
  BY ZenonT(60) DEF Since, store
<1>3. gpc[h] = "store base" =>
          /\ gen[h].number # base'.number /\ gen[h].number # delta'.baseNumber
          /\ \A k \in Generators \ {h} : gen[h].number # gen'[k].baseNumber
  <2> SUFFICES ASSUME gpc[h] = "store base"
               PROVE  /\ gen[h].number # base'.number /\ gen[h].number # delta'.baseNumber
                      /\ \A k \in Generators \ {h} : gen[h].number # gen'[k].baseNumber
    BY Zenon
  <2>1. /\ gen[h].number = gen[h].baseNumber /\ gen[h].number > 0 /\ gen[h].number < counter
        /\ gen[h].number # base.number /\ gen[h].number # delta.baseNumber
        /\ \A k \in Generators \ {h} : gen[h].number # gen[k].baseNumber
    BY Zenon, <1>0 DEF Generating
  <2>2. gen[h].number # 0 /\ gen[h].number # counter
    BY ZenonT(60), <1>0, <2>1, NatOrder
  <2>3. gpc[g] = "store base" => gen[g].number = gen[g].baseNumber
    BY ZenonT(60), <1>0 DEF Generating
  <2> QED BY ZenonT(60), <2>1, <2>2, <2>3
<1>4. /\ gpc[h] \in {"list delta", "list released"} /\ Of(gen[h])' => gen[h].cut = base'.cut
      /\ gpc[h] \in {"list released", "number delta", "store delta"} /\ Of(gen[h])' => CoversRevoked(gen[h])'
      /\ gpc[h] \in {"number delta", "store delta"} /\ Of(gen[h])' => CoversReleased(gen[h])'
  <2>1. CASE base' = base
    BY Zenon, <1>0, <2>1 DEF Generating, Of, CoversRevoked, CoversReleased
  <2>2. CASE gpc[g] = "store base" /\ base' = gen[g]
    BY Zenon, <1>0, <2>2 DEF Generating, Of
  <2> QED BY Zenon, <2>1, <2>2
<1> QED BY Zenon, <1>0, <1>1, <1>2, <1>3, <1>4 DEF Generating

\* A CRL that is not yet a base of a number, or a delta, is of no one's concern.
LEMMA GenMoves ==
    ASSUME CrlInv, TypeOK', NEW g \in Generators, UNCHANGED <<store, op, base, delta>>, now <= now',
           counter <= counter',
           \A h \in Generators \ {g} : gpc'[h] = gpc[h] /\ gen'[h] = gen[h],
           gen'[g].baseNumber \in {0, counter, gen[g].baseNumber, base.number},
           Generating(g)'
    PROVE  CrlInv'
<1>1. \A h \in Generators : Generating(h)'
  BY Zenon, GenOthers
<1>2. Stamped' /\ InventoryIsBacked'
  <2>0. now \in Nat /\ now' \in Nat /\ \A p \in Operators : op[p].when \in Nat
    <3>1. now \in Times /\ now' \in Times /\ \A p \in Operators : op[p].when \in Times
      BY Zenon DEF CrlInv, TypeOK, StoreTypeOK
    <3> QED BY <3>1, MaxReadsAssumption DEF Times
  <2> QED BY ZenonT(60), <2>0, NatOrder DEF CrlInv, Stamped, InventoryIsBacked, store
<1>3. Published'
  <2>0. /\ now \in Nat /\ now' \in Nat /\ base.cut \in Nat /\ base.number \in Nat
        /\ delta.baseNumber \in Nat /\ counter \in Nat /\ counter' \in Nat
    <3>1. (TypeOK => now \in Nat)'
      BY NowIsNat, PTL
    <3>2. base \in CRLs /\ delta \in CRLs /\ counter \in Nat /\ counter' \in Nat
      BY Zenon DEF CrlInv, TypeOK
    <3> QED BY Zenon, <3>1, <3>2, NowIsNat, CrlFields DEF CrlInv
  <2>1. Since(base)' <=> Since(base)
    BY Zenon DEF Since, store
  <2> QED BY Zenon, <2>0, <2>1, NatOrder DEF CrlInv, Published, PairMissesOnlyInFlight, Paired
<1> QED BY Zenon, <1>1, <1>2, <1>3 DEF CrlInv

LEMMA GenFacts ==
    ASSUME CrlInv, NEW g \in Generators
    PROVE  /\ TypeOK /\ Generating(g) /\ gen[g] \in CRLs /\ base \in CRLs /\ delta \in CRLs
           /\ now \in Times /\ now \in Nat /\ now <= now /\ now <= now + 1
           /\ counter \in Nat \ {0} /\ 0 < counter /\ counter <= counter /\ counter <= counter + 1
           /\ \A b \in CRLs : b.cut \in Nat /\ b.number \in Nat /\ b.baseNumber \in Nat
           /\ \A p \in Operators : op[p].todo \subseteq Serials /\ op[p].when \in Nat /\ op[p].when <= now
<1>1. /\ TypeOK /\ Generating(g) /\ gen[g] \in CRLs /\ base \in CRLs /\ delta \in CRLs
      /\ now \in Times /\ counter \in Nat \ {0}
      /\ \A p \in Operators : op[p].todo \subseteq Serials /\ op[p].when \in Times /\ op[p].when <= now
  BY Zenon DEF CrlInv, TypeOK, StoreTypeOK, Stamped
<1>2. \A n \in Times : n \in Nat
  BY MaxReadsAssumption DEF Times
<1> QED BY Zenon, <1>1, <1>2, CrlFields, NatOrder

\* A generator puts down the CRL x and goes on to place l.
LEMMA GenGoes ==
    ASSUME TypeOK, NEW g \in Generators, NEW x \in CRLs, Made(g, x), NEW l \in Places, Goto(g, l),
           UNCHANGED <<store, op>>, asked' \in [Generators -> {"base", "delta"}], now' \in Times,
           counter' \in Nat \ {0}, base' \in CRLs, delta' \in CRLs
    PROVE  /\ TypeOK' /\ gpc'[g] = l /\ gen'[g] = x
           /\ \A h \in Generators \ {g} : gpc'[h] = gpc[h] /\ gen'[h] = gen[h]
<1>1. gpc' \in [Generators -> Places] /\ gen' \in [Generators -> CRLs]
  BY Zenon DEF TypeOK, Goto, Made, Places
<1>2. TypeOK'
  BY Zenon, <1>1 DEF TypeOK, StoreTypeOK, store, Places
<1> QED BY Zenon, <1>2 DEF TypeOK, Made, Goto

LEMMA BeginBaseStep ==
    ASSUME CrlInv, NEW g \in Generators, BeginBase(g)
    PROVE  CrlInv'
<1>0. UNCHANGED <<store, op, counter, base, delta>> /\ asked' \in [Generators -> {"base", "delta"}]
  BY Zenon DEF BeginBase, CrlInv, TypeOK, crls
<1>1. now' \in Times /\ now' = now + 1 /\ now + 1 \in Times
  BY Zenon, GenFacts, ClockTypes DEF BeginBase
<1>2. PICK x : x = [NoCRL EXCEPT !.cut = now + 1]
  BY Zenon
<1>3. x \in CRLs /\ x.cut = now + 1 /\ x.baseNumber = 0
  BY <1>1, <1>2, MaxReadsAssumption DEF NoCRL, CRLs, Times
<1>4. /\ TypeOK' /\ gpc'[g] = "list base" /\ gen'[g] = x
      /\ \A h \in Generators \ {g} : gpc'[h] = gpc[h] /\ gen'[h] = gen[h]
  BY Zenon, <1>0, <1>1, <1>2, <1>3, GenFacts, GenGoes DEF BeginBase, Places
<1>5. Generating(g)'
  <2>1. now + 1 > 0 /\ now + 1 <= now + 1
    BY <1>0, GenFacts
  <2>2. \A p \in Operators : op[p].when # now + 1
    BY Zenon, GenFacts, NatOrder
  <2> QED BY ZenonT(60), <1>0, <1>1, <1>3, <1>4, <2>1, <2>2, GenFacts DEF Generating
<1> QED BY Zenon, <1>0, <1>1, <1>3, <1>4, <1>5, GenFacts, GenMoves

LEMMA ListBaseStep ==
    ASSUME CrlInv, NEW g \in Generators, ListBase(g)
    PROVE  CrlInv'
<1>0. /\ UNCHANGED <<now, store, op, counter, base, delta, asked>> /\ gpc[g] = "list base"
      /\ asked \in [Generators -> {"base", "delta"}]
  BY Zenon DEF ListBase, CrlInv, TypeOK, crls
<1>1. PICK x : x = [gen[g] EXCEPT !.listed = Revoked, !.inFlight = InFlight(gen[g].cut)]
  BY Zenon
<1>2. /\ x \in CRLs /\ x.cut = gen[g].cut /\ x.baseNumber = gen[g].baseNumber
      /\ x.listed = Revoked /\ x.inFlight = InFlight(gen[g].cut)
  <2>1. Revoked \in SUBSET Serials /\ InFlight(gen[g].cut) \in SUBSET Serials
    BY Zenon, GenFacts DEF Revoked, InFlight
  <2> QED BY Zenon, <1>1, <2>1, GenFacts DEF CRLs
<1>3. /\ TypeOK' /\ gpc'[g] = "number base" /\ gen'[g] = x
      /\ \A h \in Generators \ {g} : gpc'[h] = gpc[h] /\ gen'[h] = gen[h]
  BY Zenon, <1>0, <1>1, <1>2, GenFacts, GenGoes DEF ListBase, Places
<1>4. Since(x)
  <2> SUFFICES ASSUME NEW s \in Serials \ x.inFlight
               PROVE  \A p \in Operators : s \in op[p].todo => op[p].when > x.cut
    BY Zenon, <1>2 DEF Since, Revoked
  <2>1. ASSUME NEW p \in Operators, s \in op[p].todo PROVE op[p].when > x.cut
    <3>1. ~(op[p].when < gen[g].cut)
      BY Zenon, <1>2, <2>1 DEF InFlight
    <3>2. op[p].when # gen[g].cut /\ op[p].when \in Nat
      BY Zenon, <1>0, GenFacts DEF Generating
    <3> QED BY Zenon, <1>2, <3>1, <3>2, GenFacts, NatOrder
  <2> QED BY Zenon, <2>1
<1>5. Since(x)'
  BY Zenon, <1>0, <1>4 DEF Since, store
<1>6. Generating(g)'
  BY Zenon, <1>0, <1>2, <1>3, <1>5, GenFacts DEF Generating
<1> QED BY Zenon, <1>0, <1>2, <1>3, <1>6, GenFacts, GenMoves

LEMMA NumberBaseStep ==
    ASSUME CrlInv, NEW g \in Generators, NumberBase(g)
    PROVE  CrlInv'
<1>0. /\ UNCHANGED <<now, store, op, base, delta, asked>> /\ gpc[g] = "number base"
      /\ counter' = counter + 1 /\ asked \in [Generators -> {"base", "delta"}]
  BY Zenon DEF NumberBase, CrlInv, TypeOK
<1>1. PICK x : x = [gen[g] EXCEPT !.number = counter, !.baseNumber = counter]
  BY Zenon
<1>2. /\ x \in CRLs /\ x.cut = gen[g].cut /\ x.baseNumber = counter /\ x.number = counter
      /\ x.listed = gen[g].listed /\ x.inFlight = gen[g].inFlight
  BY Zenon, <1>1, GenFacts DEF CRLs
<1>a. counter + 1 \in Nat \ {0} /\ counter < counter + 1
  BY GenFacts
<1>3. /\ TypeOK' /\ gpc'[g] = "store base" /\ gen'[g] = x
      /\ \A h \in Generators \ {g} : gpc'[h] = gpc[h] /\ gen'[h] = gen[h]
  BY ZenonT(60), <1>0, <1>1, <1>2, <1>a, GenFacts, GenGoes DEF NumberBase, Places
<1>4. Since(x)'
  BY Zenon, <1>0, <1>2, GenFacts DEF Generating, Since, store
<1>5. /\ counter # base.number /\ counter # delta.baseNumber /\ counter > 0
      /\ \A h \in Generators : counter # gen[h].baseNumber
  <2>1. base.number < counter /\ delta.baseNumber < counter
        /\ \A h \in Generators : gen[h].baseNumber < counter
    BY Zenon DEF CrlInv, Published, Generating
  <2>2. \A h \in Generators : gen[h].baseNumber \in Nat
    BY Zenon, GenFacts
  <2>3. counter > 0
    BY GenFacts
  <2> QED BY Zenon, <2>1, <2>2, <2>3, GenFacts, NatOrder
<1>6. Generating(g)'
  BY ZenonT(60), <1>0, <1>2, <1>a, <1>3, <1>4, <1>5, GenFacts DEF Generating
<1> QED BY Zenon, <1>0, <1>2, <1>3, <1>6, GenFacts, GenMoves

\* A delta is made of the base that is loaded: its number, its cut.
LEMMA DeltaFields ==
    ASSUME NEW b \in CRLs
    PROVE  /\ DeltaOf(b) \in CRLs /\ DeltaOf(b).baseNumber = b.number /\ DeltaOf(b).cut = b.cut
BY Zenon, NoCRLType DEF DeltaOf, NoCRL, CRLs

LEMMA LoadBaseStep ==
    ASSUME CrlInv, NEW g \in Generators, LoadBase(g)
    PROVE  CrlInv'
<1>0. UNCHANGED <<now, store, op, counter, base, delta>> /\ asked' \in [Generators -> {"base", "delta"}]
  BY Zenon DEF LoadBase, CrlInv, TypeOK, crls
<1>1. PICK x : x = DeltaOf(base)
  BY Zenon
<1>2. x \in CRLs /\ x.cut = base.cut /\ x.baseNumber = base.number
  BY Zenon, <1>1, GenFacts, DeltaFields
<1>3. /\ TypeOK' /\ gpc'[g] = "list delta" /\ gen'[g] = x
      /\ \A h \in Generators \ {g} : gpc'[h] = gpc[h] /\ gen'[h] = gen[h]
  BY Zenon, <1>0, <1>1, <1>2, GenFacts, GenGoes DEF LoadBase, Places
<1>4. Generating(g)'
  BY Zenon, <1>0, <1>2, <1>3 DEF Generating, CrlInv, Published
<1> QED BY Zenon, <1>0, <1>2, <1>3, <1>4, GenFacts, GenMoves

LEMMA ListDeltaStep ==
    ASSUME CrlInv, NEW g \in Generators, ListDelta(g)
    PROVE  CrlInv'
<1>0. /\ UNCHANGED <<now, store, op, counter, base, delta, asked>> /\ gpc[g] = "list delta"
      /\ asked \in [Generators -> {"base", "delta"}]
  BY Zenon DEF ListDelta, CrlInv, TypeOK, crls
<1>1. PICK x : x = [gen[g] EXCEPT !.listed = {s \in Revoked : revokedAt[s] > gen[g].cut},
                                  !.revoked = Revoked]
  BY Zenon
<1>2. /\ x \in CRLs /\ x.cut = gen[g].cut /\ x.baseNumber = gen[g].baseNumber
      /\ x.listed = {s \in Revoked : revokedAt[s] > gen[g].cut} /\ x.revoked = Revoked
  <2>1. Revoked \in SUBSET Serials /\ {s \in Revoked : revokedAt[s] > gen[g].cut} \in SUBSET Serials
    BY Zenon DEF Revoked
  <2> QED BY Zenon, <1>1, <2>1, GenFacts DEF CRLs
<1>3. /\ TypeOK' /\ gpc'[g] = "list released" /\ gen'[g] = x
      /\ \A h \in Generators \ {g} : gpc'[h] = gpc[h] /\ gen'[h] = gen[h]
  BY Zenon, <1>0, <1>1, <1>2, GenFacts, GenGoes DEF ListDelta, Places
<1>4. Of(x) => gen[g].cut = base.cut /\ Since(base)
  BY ZenonT(60), <1>0, <1>2, GenFacts DEF Of, Generating, CrlInv, Published
<1>5. Of(x) => CoversRevoked(x)
  BY Zenon, <1>2, <1>4 DEF CoversRevoked, Since, Revoked
<1>6. /\ Of(gen[g])' => Of(x)
      /\ CoversRevoked(x) => CoversRevoked(gen[g])'
  BY Zenon, <1>0, <1>3 DEF Of, CoversRevoked
<1>7. Generating(g)'
  BY Zenon, <1>0, <1>2, <1>3, <1>4, <1>5, <1>6, GenFacts DEF Generating
<1> QED BY Zenon, <1>0, <1>2, <1>3, <1>7, GenFacts, GenMoves

LEMMA ListReleasedStep ==
    ASSUME CrlInv, NEW g \in Generators, ListReleased(g)
    PROVE  CrlInv'
<1>0. /\ UNCHANGED <<now, store, op, counter, base, delta, asked>> /\ gpc[g] = "list released"
      /\ asked \in [Generators -> {"base", "delta"}]
  BY Zenon DEF ListReleased, CrlInv, TypeOK, crls
<1>1. PICK x : x = [gen[g] EXCEPT !.removed = {s \in Serials : releasedAt[s] > gen[g].cut},
                                  !.stillRevoked = Revoked, !.lost = lost]
  BY Zenon
<1>2. /\ x \in CRLs /\ x.cut = gen[g].cut /\ x.baseNumber = gen[g].baseNumber
      /\ x.listed = gen[g].listed /\ x.revoked = gen[g].revoked
      /\ x.removed = {s \in Serials : releasedAt[s] > gen[g].cut} /\ x.stillRevoked = Revoked
      /\ x.lost = lost
  <2>1. Revoked \in SUBSET Serials /\ {s \in Serials : releasedAt[s] > gen[g].cut} \in SUBSET Serials
        /\ lost \in SUBSET Serials
    BY Zenon DEF Revoked, CrlInv, TypeOK, StoreTypeOK
  <2> QED BY Zenon, <1>1, <2>1, GenFacts DEF CRLs
<1>3. /\ TypeOK' /\ gpc'[g] = "number delta" /\ gen'[g] = x
      /\ \A h \in Generators \ {g} : gpc'[h] = gpc[h] /\ gen'[h] = gen[h]
  BY Zenon, <1>0, <1>1, <1>2, GenFacts, GenGoes DEF ListReleased, Places
<1>4. Of(x) => gen[g].cut = base.cut /\ Since(base) /\ CoversRevoked(x)
  BY ZenonT(60), <1>0, <1>2, GenFacts DEF Of, Generating, CrlInv, Published, CoversRevoked
<1>5. Of(x) => CoversReleased(x)
  <2>1. base.listed \subseteq Serials
    BY Zenon, GenFacts DEF CRLs
  <2> QED BY Zenon, <1>2, <1>4, <2>1 DEF CoversReleased, Since, Revoked
<1>6. /\ Of(gen[g])' => Of(x)
      /\ CoversRevoked(x) => CoversRevoked(gen[g])'
      /\ CoversReleased(x) => CoversReleased(gen[g])'
  BY Zenon, <1>0, <1>3 DEF Of, CoversRevoked, CoversReleased
<1>7. Generating(g)'
  BY Zenon, <1>0, <1>2, <1>3, <1>4, <1>5, <1>6, GenFacts DEF Generating
<1> QED BY Zenon, <1>0, <1>2, <1>3, <1>7, GenFacts, GenMoves

LEMMA NumberDeltaStep ==
    ASSUME CrlInv, NEW g \in Generators, NumberDelta(g)
    PROVE  CrlInv'
<1>0. /\ UNCHANGED <<now, store, op, base, delta, asked>> /\ gpc[g] = "number delta"
      /\ counter' = counter + 1 /\ asked \in [Generators -> {"base", "delta"}]
  BY Zenon DEF NumberDelta, CrlInv, TypeOK
<1>1. PICK x : x = [gen[g] EXCEPT !.number = counter]
  BY Zenon
<1>2. /\ x \in CRLs /\ x.cut = gen[g].cut /\ x.baseNumber = gen[g].baseNumber
      /\ x.listed = gen[g].listed /\ x.revoked = gen[g].revoked
      /\ x.removed = gen[g].removed /\ x.stillRevoked = gen[g].stillRevoked /\ x.lost = gen[g].lost
  BY Zenon, <1>1, GenFacts DEF CRLs
<1>a. counter + 1 \in Nat \ {0} /\ (gen[g].baseNumber < counter => gen[g].baseNumber < counter + 1)
  <2>1. counter \in Nat /\ gen[g].baseNumber \in Nat
    BY Zenon, GenFacts
  <2> QED BY <2>1
<1>3. /\ TypeOK' /\ gpc'[g] = "store delta" /\ gen'[g] = x
      /\ \A h \in Generators \ {g} : gpc'[h] = gpc[h] /\ gen'[h] = gen[h]
  BY ZenonT(60), <1>0, <1>1, <1>2, <1>a, GenFacts, GenGoes DEF NumberDelta, Places
<1>4. Of(x) => CoversRevoked(x) /\ CoversReleased(x)
  BY ZenonT(60), <1>0, <1>2, GenFacts DEF Of, Generating, CoversRevoked, CoversReleased
<1>5. /\ Of(gen[g])' => Of(x)
      /\ CoversRevoked(x) => CoversRevoked(gen[g])'
      /\ CoversReleased(x) => CoversReleased(gen[g])'
  BY Zenon, <1>0, <1>3 DEF Of, CoversRevoked, CoversReleased
<1>6. Generating(g)'
  BY Zenon, <1>0, <1>2, <1>a, <1>3, <1>4, <1>5, GenFacts DEF Generating
<1> QED BY Zenon, <1>0, <1>2, <1>3, <1>6, GenFacts, GenMoves

LEMMA NoCRLFields == NoCRL.cut = 0 /\ NoCRL.baseNumber = 0 /\ NoCRL.number = 0
BY Zenon DEF NoCRL

\* A generator that is idle, with nothing in its hands.
LEMMA IdleGenerates ==
    ASSUME TypeOK', NEW g \in Generators, gpc'[g] = "idle", gen'[g] = NoCRL
    PROVE  Generating(g)'
<1>1. (TypeOK => now \in Nat)'
  BY NowIsNat, PTL
<1>2. 0 <= now' /\ 0 < counter'
  <2>1. now' \in Nat /\ counter' \in Nat \ {0}
    BY Zenon, <1>1 DEF TypeOK
  <2> QED BY <2>1
<1> QED BY Zenon, <1>2, NoCRLFields DEF Generating

\* The generation ends: Return clears what the generator held.
LEMMA Returns ==
    ASSUME TypeOK, NEW g \in Generators, Return(g),
           UNCHANGED <<store, op, now, counter>>, base' \in CRLs, delta' \in CRLs
    PROVE  /\ TypeOK' /\ gpc'[g] = "idle" /\ gen'[g] = NoCRL /\ gen'[g].baseNumber = 0
           /\ Generating(g)'
           /\ \A h \in Generators \ {g} : gpc'[h] = gpc[h] /\ gen'[h] = gen[h]
<1>1. asked' \in [Generators -> {"base", "delta"}] /\ now' \in Times /\ counter' \in Nat \ {0}
  BY Zenon DEF TypeOK, StoreTypeOK, Return
<1>2. /\ TypeOK' /\ gpc'[g] = "idle" /\ gen'[g] = NoCRL
      /\ \A h \in Generators \ {g} : gpc'[h] = gpc[h] /\ gen'[h] = gen[h]
  BY Zenon, <1>1, NoCRLType, GenGoes DEF Return, Places
<1> QED BY Zenon, <1>2, IdleGenerates, NoCRLFields

LEMMA GenerationFailsStep ==
    ASSUME CrlInv, NEW g \in Generators, GenerationFails(g)
    PROVE  CrlInv'
<1>1. UNCHANGED <<now, store, op, counter, base, delta>> /\ Return(g)
  BY Zenon DEF GenerationFails, crls
<1> QED BY Zenon, <1>1, GenFacts, Returns, GenMoves

LEMMA RecordsStay ==
    ASSUME CrlInv, UNCHANGED <<now, store, op>>
    PROVE  Stamped' /\ InventoryIsBacked'
BY Zenon DEF CrlInv, Stamped, InventoryIsBacked, store

LEMMA StoreBaseStep ==
    ASSUME CrlInv, NEW g \in Generators, StoreBase(g)
    PROVE  CrlInv'
<1>0. /\ UNCHANGED <<now, store, op, counter, delta>> /\ gpc[g] = "store base" /\ base' = gen[g]
      /\ asked \in [Generators -> {"base", "delta"}]
  BY Zenon DEF StoreBase, CrlInv, TypeOK
<1>1. /\ gen[g].number = gen[g].baseNumber /\ gen[g].number > 0 /\ gen[g].number < counter
      /\ gen[g].number # delta.baseNumber /\ gen[g].cut <= now /\ Since(gen[g])
  BY Zenon, <1>0, GenFacts DEF Generating
<1>2. /\ TypeOK' /\ gen'[g].baseNumber \in {0, gen[g].baseNumber} /\ Generating(g)'
      /\ \A h \in Generators \ {g} : gpc'[h] = gpc[h] /\ gen'[h] = gen[h]
  <2>1. CASE Return(g)
    BY Zenon, <1>0, <2>1, GenFacts, Returns
  <2>2. CASE Goto(g, "list delta") /\ Made(g, DeltaOf(gen[g])) /\ UNCHANGED asked
    <3>1. PICK x : x = DeltaOf(gen[g])
      BY Zenon
    <3>2. x \in CRLs /\ x.cut = gen[g].cut /\ x.baseNumber = gen[g].number
      BY Zenon, <3>1, GenFacts, DeltaFields
    <3>3. /\ TypeOK' /\ gpc'[g] = "list delta" /\ gen'[g] = x
          /\ \A h \in Generators \ {g} : gpc'[h] = gpc[h] /\ gen'[h] = gen[h]
      BY Zenon, <1>0, <2>2, <3>1, <3>2, GenFacts, GenGoes DEF Places
    <3> QED BY Zenon, <1>0, <1>1, <3>2, <3>3 DEF Generating
  <2> QED BY Zenon, <2>1, <2>2 DEF StoreBase
<1>3. \A h \in Generators : Generating(h)'
  BY Zenon, <1>0, <1>2, GenFacts, GenOthers
<1>4. Published'
  <2>1. Since(base)'
    BY Zenon, <1>0, <1>1 DEF Since, store
  <2>2. delta.baseNumber < counter
    BY Zenon DEF CrlInv, Published
  <2> QED BY Zenon, <1>0, <1>1, <2>1, <2>2 DEF Published, PairMissesOnlyInFlight, Paired
<1> QED BY Zenon, <1>0, <1>2, <1>3, <1>4, RecordsStay DEF CrlInv

LEMMA StoreDeltaStep ==
    ASSUME CrlInv, NEW g \in Generators, StoreDelta(g)
    PROVE  CrlInv'
<1>0. /\ UNCHANGED <<now, store, op, counter, base>> /\ gpc[g] = "store delta" /\ delta' = gen[g]
      /\ Return(g)
  BY Zenon DEF StoreDelta
<1>1. /\ TypeOK' /\ gen'[g].baseNumber = 0 /\ Generating(g)'
      /\ \A h \in Generators \ {g} : gpc'[h] = gpc[h] /\ gen'[h] = gen[h]
  BY Zenon, <1>0, GenFacts, Returns
<1>2. \A h \in Generators : Generating(h)'
  BY Zenon, <1>0, <1>1, GenFacts, GenOthers
<1>3. Published'
  <2>1. Since(base)' <=> Since(base)
    BY Zenon, <1>0 DEF Since, store
  <2>2. gen[g].baseNumber < counter
    BY Zenon, GenFacts DEF Generating
  <2>3. Of(gen[g]) => CoversRevoked(gen[g]) /\ CoversReleased(gen[g])
    BY Zenon, <1>0, GenFacts DEF Generating
  <2>4. PairMissesOnlyInFlight'
    BY Zenon, <1>0, <2>3 DEF PairMissesOnlyInFlight, Paired, Of, CoversRevoked, CoversReleased
  <2> QED BY Zenon, <1>0, <2>1, <2>2, <2>4 DEF CrlInv, Published
<1> QED BY Zenon, <1>0, <1>1, <1>2, <1>3, RecordsStay DEF CrlInv

\* A number is taken for a CRL that is not stored.
LEMMA GenerateCRLStep ==
    ASSUME CrlInv, GenerateCRL
    PROVE  CrlInv'
<1>0. UNCHANGED <<now, store, op, base, delta, gpc, asked, gen>> /\ counter' = counter + 1
  BY Zenon DEF GenerateCRL, generators
<1>1. counter \in Nat /\ \A n \in Nat : n < counter => n < counter + 1
  <2>1. counter \in Nat
    BY Zenon DEF CrlInv, TypeOK
  <2> QED BY <2>1
<1>2. TypeOK'
  <2>1. counter' \in Nat \ {0}
    BY <1>0, <1>1
  <2> QED BY Zenon, <1>0, <2>1 DEF CrlInv, TypeOK, StoreTypeOK, store
<1>3. Published'
  <2>0. base.number \in Nat /\ delta.baseNumber \in Nat
    BY Zenon, CrlFields DEF CrlInv, TypeOK
  <2>1. Since(base)' <=> Since(base)
    BY Zenon, <1>0 DEF Since, store
  <2> QED BY Zenon, <1>0, <1>1, <2>0, <2>1 DEF CrlInv, Published, PairMissesOnlyInFlight, Paired
<1>4. ASSUME NEW g \in Generators PROVE Generating(g)'
  <2>0. Generating(g) /\ gen[g].baseNumber \in Nat
    BY Zenon, GenFacts
  <2>1. Since(gen[g])' <=> Since(gen[g])
    BY Zenon, <1>0 DEF Since, store
  <2> QED BY Zenon, <1>0, <1>1, <2>0, <2>1 DEF Generating, Of, CoversRevoked, CoversReleased
<1> QED BY Zenon, <1>0, <1>2, <1>3, <1>4, RecordsStay DEF CrlInv

LEMMA StutteringStep ==
    ASSUME CrlInv, UNCHANGED vars
    PROVE  CrlInv'
<1>0. UNCHANGED <<now, store, op, counter, base, delta, gpc, asked, gen>>
  BY Zenon DEF vars, crls, generators
<1>1. TypeOK'
  BY Zenon, <1>0 DEF CrlInv, TypeOK, StoreTypeOK, store
<1>2. Published'
  <2>1. Since(base)' <=> Since(base)
    BY Zenon, <1>0 DEF Since, store
  <2> QED BY Zenon, <1>0, <2>1 DEF CrlInv, Published, PairMissesOnlyInFlight, Paired
<1>3. ASSUME NEW g \in Generators PROVE Generating(g)'
  <2>1. Since(gen[g])' <=> Since(gen[g])
    BY Zenon, <1>0 DEF Since, store
  <2> QED BY Zenon, <1>0, <2>1, GenFacts DEF Generating, Of, CoversRevoked, CoversReleased
<1> QED BY Zenon, <1>0, <1>1, <1>2, <1>3, RecordsStay DEF CrlInv

-----------------------------------------------------------------------------
(* The theorems.                                                           *)

LEMMA IInvInit == Init => CrlInv
<1> SUFFICES ASSUME Init PROVE CrlInv
  BY Zenon
<1>1. /\ now = 0 /\ counter = 1 /\ base = NoCRL /\ delta = NoCRL
      /\ \A p \in Operators : op[p] = Idle
      /\ \A s \in Serials : book[s] = "none"
      /\ \A g \in Generators : gpc[g] = "idle" /\ gen[g] = NoCRL
  BY Zenon DEF Init, StoreInit
<1>2. Stamped
  <2>1. Idle.when = 0 /\ Idle.kind = "idle" /\ 0 <= 0
    BY DEF Idle
  <2> QED BY Zenon, <1>1, <2>1 DEF Stamped, Revokes
<1>3. InventoryIsBacked
  BY Zenon, <1>1 DEF InventoryIsBacked
<1>4. 0 < 1 /\ 0 <= 0
  OBVIOUS
<1>5. Published
  BY Zenon, <1>1, <1>4, NoCRLFields DEF Published, PairMissesOnlyInFlight, Paired
<1>6. \A g \in Generators : Generating(g)
  BY Zenon, <1>1, <1>4, NoCRLFields DEF Generating
<1> QED BY Zenon, <1>2, <1>3, <1>5, <1>6, TypeInit DEF CrlInv

LEMMA IInvStep == CrlInv /\ [Next]_vars => CrlInv'
<1> SUFFICES ASSUME CrlInv, [Next]_vars PROVE CrlInv'
  BY Zenon
<1>1. ASSUME NEW g \in Generators, Generate(g) PROVE CrlInv'
  BY Zenon, <1>1, BeginBaseStep, ListBaseStep, NumberBaseStep, StoreBaseStep, LoadBaseStep,
     ListDeltaStep, ListReleasedStep, NumberDeltaStep, StoreDeltaStep, GenerationFailsStep
     DEF Generate
<1> QED BY Zenon, <1>1, OperateStep, IssueStep, GenerateCRLStep, StutteringStep DEF Next

\* However the operations that write the two overlap and fail, the inventory calls
\* a certificate held or revoked that the revocation records do not only if
\* RevokeCertificate found the record in its INSERT and, after a ReleaseHold,
\* found it gone in its UPDATE: every other transaction of the four operations
\* locks the revocation row before it writes the inventory.
THEOREM RecordsBackTheInventory == Spec => []InventoryIsBacked
<1>1. CrlInv => InventoryIsBacked
  BY Zenon DEF CrlInv
<1> QED BY <1>1, IInvInit, IInvStep, PTL DEF Spec

\* Whoever generates, on any number of replicas, a stored base CRL and a stored
\* delta of it miss only a revocation or a release that was stamped and not yet
\* committed while the base was listed (regenerateBaseCRL reads the clock before
\* it lists the records, and regenerateDeltaCRL takes what is stamped later), or a
\* release whose marker a RevokeCertificate that it overtook has deleted.
THEOREM PairMissesNothingElse == Spec => []PairMissesOnlyInFlight
<1>1. CrlInv => PairMissesOnlyInFlight
  BY Zenon DEF CrlInv, Published
<1> QED BY <1>1, IInvInit, IInvStep, PTL DEF Spec

-----------------------------------------------------------------------------
(* The OCSP caches: the inductive invariant.                               *)

Answers == [at : {"idle", "revoked", "issued", "sign"}, replica : Replicas \union {"none"},
            serial : Serials \union {"none"}, nonce : BOOLEAN, status : Statuses, late : BOOLEAN]
Presigned == [at : {"idle", "revoked", "sign", "put"}, status : [Serials -> Statuses],
              late : SUBSET Serials]

\* What a responder has looked up is still so, unless it is late.
Answered(a) ==
    /\ a.at # "idle" => a.replica \in Replicas /\ a.serial \in Serials
    /\ a.at = "issued" /\ ~a.late => reason[a.serial] = "none"
    /\ a.at = "sign" /\ ~a.late => a.status = Status(a.serial)

\* What a presigner has collected is still so, for what is neither late nor long
\* expired.
Collected(b) ==
    \A s \in Serials \ (b.late \union aged) :
        /\ b.at = "revoked" => b.status[s] = IF book[s] # "none" THEN "good" ELSE "none"
        /\ b.at \in {"sign", "put"} => b.status[s] \in {"none", Status(s)}

CacheInv ==
    /\ OcspTypeOK
    /\ \A q \in Requests : Answered(ask[q])
    /\ \A r \in Replicas : Collected(batch[r])
    /\ WrongOnlyIfMissed

-----------------------------------------------------------------------------
(* Changes of the records.                                                 *)

LEMMA StatusTypes == \A s : Status(s) \in Statuses
BY Zenon DEF Status, Statuses

LEMMA RequestTypes ==
    ASSUME StoreTypeOK, NEW p \in Operators, Request(p)
    PROVE  StoreTypeOK' /\ UNCHANGED <<reason, book>>
<1>1. UNCHANGED store /\ now' \in Times /\ \E o \in Operations : op' = [op EXCEPT ![p] = o]
  BY Zenon, BeginStep
<1>2. op' \in [Operators -> Operations]
  BY Zenon, <1>1 DEF StoreTypeOK, Operations, Kinds
<1> QED BY Zenon, <1>1, <1>2 DEF StoreTypeOK, Operations, Kinds, store

LEMMA StatementTypes ==
    ASSUME StoreTypeOK, NEW p \in Operators, Statement(p)
    PROVE  StoreTypeOK' /\ UNCHANGED <<reason, book>>
<1>1. UNCHANGED <<now, store>> /\ \E o \in Operations : op' = [op EXCEPT ![p] = o]
  BY Zenon, StatementStep
<1>2. op' \in [Operators -> Operations]
  BY Zenon, <1>1 DEF StoreTypeOK, Operations, Kinds
<1> QED BY Zenon, <1>1, <1>2 DEF StoreTypeOK, Operations, Kinds, store

LEMMA FailTypes ==
    ASSUME StoreTypeOK, NEW p \in Operators, Fail(p)
    PROVE  StoreTypeOK' /\ UNCHANGED <<reason, book>>
<1>1. Idle \in Operations
  BY MaxReadsAssumption DEF Idle, Operations, Kinds, Times, Reasons
<1>2. op' \in [Operators -> Operations]
  BY Zenon, <1>1 DEF StoreTypeOK, Operations, Kinds, Fail
<1> QED BY Zenon, <1>2 DEF StoreTypeOK, Operations, Kinds, store, Fail

LEMMA CommitTypes ==
    ASSUME StoreTypeOK, NEW p \in Operators, NEW b \in Batches(p), Commit(p, b)
    PROVE  StoreTypeOK'
<1>1. UNCHANGED now /\ Transaction(p, b)
  BY Zenon DEF Commit
<1>2. Written
  BY Zenon, <1>1, TransactionTypes
<1>3. op[p] \in Operations /\ op \in [Operators -> Operations]
  BY Zenon DEF StoreTypeOK, Operations, Kinds
<1>4. Idle \in Operations
  BY MaxReadsAssumption DEF Idle, Operations, Kinds, Times, Reasons
<1>5. Operation(op[p].kind, op[p].todo \ b, op[p].reason, op[p].when) \in Operations
  <2>1. /\ op[p].kind \in Kinds
        /\ op[p].todo \in SUBSET Serials /\ op[p].reason \in Reasons /\ op[p].when \in Times
    BY Zenon, <1>3 DEF Operations
  <2> QED BY <2>1 DEF Operations, Operation
<1>6. op' \in [Operators -> Operations]
  BY Zenon, <1>3, <1>4, <1>5 DEF Commit
<1> QED BY Zenon, <1>1, <1>2, <1>6 DEF StoreTypeOK, Operations, Kinds, Written

\* The serials a transaction of p applies to.
Applied(p, b) == IF op[p].kind = "bulk" THEN b \ Revoked ELSE b

LEMMA CommitSpares ==
    ASSUME StoreTypeOK, NEW p \in Operators, NEW b \in Batches(p), Commit(p, b),
           NEW s \in Serials \ Applied(p, b)
    PROVE  reason'[s] = reason[s] /\ (book'[s] = "none" <=> book[s] = "none")
<1>0. /\ reason \in [Serials -> Reasons] /\ Transaction(p, b) /\ b \in SUBSET Serials
      /\ book \in [Serials -> {"none", "valid", "held", "revoked"}]
  <2>1. op[p] \in Operations
    BY Zenon DEF StoreTypeOK, Operations, Kinds
  <2> QED BY Zenon, <2>1 DEF StoreTypeOK, Commit, Batches, Operations, Kinds
<1>1. CASE op[p].kind = "bulk" /\ BulkRevokeCertificates(b, op[p].reason, op[p].when)
  BY Zenon, <1>0, <1>1 DEF BulkRevokeCertificates, Applied
<1>2. ASSUME NEW x \in b, op[p].kind # "bulk",
             \/ RevokeCertificate(x, op[p].reason, op[p].when)
             \/ SuspendCertificate(x, op[p].when)
             \/ ReleaseHold(x, op[p].when)
             \/ RevokeNothingRecorded(x)
      PROVE  reason'[s] = reason[s] /\ (book'[s] = "none" <=> book[s] = "none")
  <2>1. x # s /\ x \in Serials
    BY Zenon, <1>0, <1>2 DEF Applied
  <2> QED BY Zenon, <1>0, <1>2, <2>1
             DEF RevokeCertificate, SuspendCertificate, ReleaseHold, RevokeNothingRecorded, Inventory
<1> QED BY Zenon, <1>0, <1>1, <1>2 DEF Transaction

\* A change of the records, made known to the replicas but those of untold,
\* which invalidate what they hold later.
LEMMA ChangeKeeps ==
    ASSUME CacheInv, StoreTypeOK', NEW some \in SUBSET Serials, NEW untold \in SUBSET Replicas,
           Changed(some, untold), UNCHANGED <<cache, aged>>,
           \A s \in Serials \ some :
              reason'[s] = reason[s] /\ (book'[s] = "none" <=> book[s] = "none"),
           flush' \in [Operators -> SUBSET (Replicas \X Serials)],
           \A r \in Replicas, s \in Serials : Pending(r, s) => Pending(r, s)',
           \A r \in Replicas \ untold, s \in some : Pending(r, s)'
    PROVE  CacheInv'
<1>0. /\ ask \in [Requests -> Answers] /\ batch \in [Replicas -> Presigned]
      /\ cache \in [Replicas -> [Serials -> Statuses]] /\ aged \in SUBSET Serials
      /\ missed \in SUBSET (Replicas \X Serials)
  BY Zenon DEF CacheInv, OcspTypeOK, Answers, Presigned
<1>1. \A s \in Serials \ some : Status(s)' = Status(s)
  BY Zenon DEF Status
<1>2. ASSUME NEW q \in Requests PROVE ask'[q] \in Answers /\ Answered(ask[q])'
  <2> DEFINE late == ask[q].late \/ (ask[q].at \in {"issued", "sign"} /\ ask[q].serial \in some)
  <2>1. ask'[q] = [ask[q] EXCEPT !.late = late] /\ ask[q] \in Answers /\ late \in BOOLEAN
    BY Zenon, <1>0 DEF Changed
  <2>2. /\ ask'[q] \in Answers
        /\ ask'[q].at = ask[q].at /\ ask'[q].replica = ask[q].replica
        /\ ask'[q].serial = ask[q].serial /\ ask'[q].status = ask[q].status
        /\ ask'[q].late = late
    BY Zenon, <2>1 DEF Answers
  <2>3. Answered(ask[q])
    BY Zenon DEF CacheInv
  <2> QED BY Zenon, <1>1, <2>2, <2>3 DEF Answered
<1>3. ASSUME NEW r \in Replicas PROVE batch'[r] \in Presigned /\ Collected(batch[r])'
  <2> DEFINE late == IF batch[r].at = "idle" THEN {} ELSE batch[r].late \union some
  <2>1. batch'[r] = [batch[r] EXCEPT !.late = late] /\ batch[r] \in Presigned
    BY Zenon, <1>0 DEF Changed
  <2>2. late \in SUBSET Serials
    BY Zenon, <2>1 DEF Presigned
  <2>3. /\ batch'[r] \in Presigned /\ batch'[r].at = batch[r].at
        /\ batch'[r].status = batch[r].status /\ batch'[r].late = late
    BY <2>1, <2>2 DEF Presigned
  <2>4. Collected(batch[r])
    BY Zenon DEF CacheInv
  <2> QED BY ZenonT(60), <1>1, <2>3, <2>4 DEF Collected
<1>4. missed' = missed \union (untold \X some)
      /\ ask' = [q \in Requests |-> ask'[q]] /\ batch' = [r \in Replicas |-> batch'[r]]
  BY DEF Changed
<1>5. OcspTypeOK'
  <2>1. ask' \in [Requests -> Answers] /\ batch' \in [Replicas -> Presigned]
    BY Zenon, <1>2, <1>3, <1>4
  <2>2. missed' \in SUBSET (Replicas \X Serials)
    BY Zenon, <1>0, <1>4
  <2> QED BY Zenon, <1>0, <2>1, <2>2 DEF OcspTypeOK, Answers, Presigned
<1>6. WrongOnlyIfMissed'
  <2> SUFFICES ASSUME NEW r \in Replicas, NEW s \in Serials,
                      cache[r][s] \notin {"none", Status(s)'}
               PROVE  Pending(r, s)' \/ <<r, s>> \in missed' \/ s \in aged
    BY Zenon DEF WrongOnlyIfMissed
  <2>1. CASE s \in some
    BY Zenon, <1>4, <2>1
  <2>2. CASE s \notin some
    BY Zenon, <1>1, <1>4, <2>2 DEF CacheInv, WrongOnlyIfMissed
  <2> QED BY Zenon, <2>1, <2>2
<1> QED BY Zenon, <1>2, <1>3, <1>5, <1>6 DEF CacheInv

-----------------------------------------------------------------------------
(* Steps that leave the records alone.                                     *)

LEMMA CacheTypes ==
    ASSUME CacheInv
    PROVE  /\ StoreTypeOK /\ ask \in [Requests -> Answers] /\ batch \in [Replicas -> Presigned]
           /\ cache \in [Replicas -> [Serials -> Statuses]] /\ aged \in SUBSET Serials
           /\ missed \in SUBSET (Replicas \X Serials)
           /\ flush \in [Operators -> SUBSET (Replicas \X Serials)]
BY Zenon DEF CacheInv, OcspTypeOK, Answers, Presigned

LEMMA AnswerKept ==
    ASSUME NEW a, Answered(a), UNCHANGED <<reason, book>>
    PROVE  Answered(a)'
BY Zenon DEF Answered, Status

LEMMA CollectedKept ==
    ASSUME NEW b, Collected(b), UNCHANGED <<reason, book>>, aged \subseteq aged'
    PROVE  Collected(b)'
BY Zenon DEF Collected, Status

\* What the caches hold is right or excused after the step.
Excused ==
    \A r \in Replicas, s \in Serials :
        cache'[r][s] \notin {"none", Status(s)} =>
            Pending(r, s)' \/ <<r, s>> \in missed' \/ s \in aged'

LEMMA WorkKeeps ==
    ASSUME CacheInv, StoreTypeOK', UNCHANGED <<reason, book>>,
           ask' \in [Requests -> Answers], batch' \in [Replicas -> Presigned],
           cache' \in [Replicas -> [Serials -> Statuses]],
           missed' \in SUBSET (Replicas \X Serials),
           flush' \in [Operators -> SUBSET (Replicas \X Serials)],
           aged \subseteq aged', aged' \in SUBSET Serials,
           \A q \in Requests : Answered(ask'[q]), \A r \in Replicas : Collected(batch'[r]),
           Excused
    PROVE  CacheInv'
<1>1. ASSUME NEW q \in Requests PROVE Answered(ask[q])'
  <2>1. PICK a : a = ask'[q]
    BY Zenon
  <2>2. Answered(a)'
    BY Zenon, <2>1, AnswerKept
  <2> QED BY Zenon, <2>1, <2>2 DEF Answered
<1>2. ASSUME NEW r \in Replicas PROVE Collected(batch[r])'
  <2>1. PICK b : b = batch'[r]
    BY Zenon
  <2>2. Collected(b)'
    BY Zenon, <2>1, CollectedKept
  <2> QED BY Zenon, <2>1, <2>2 DEF Collected
<1>3. WrongOnlyIfMissed'
  BY Zenon DEF Excused, WrongOnlyIfMissed, Status
<1>4. OcspTypeOK'
  BY Zenon DEF OcspTypeOK, Answers, Presigned
<1> QED BY Zenon, <1>1, <1>2, <1>3, <1>4 DEF CacheInv

LEMMA RecordsUnchanged ==
    ASSUME StoreTypeOK, UNCHANGED <<now, store, op>>
    PROVE  StoreTypeOK' /\ UNCHANGED <<reason, book>>
BY Zenon DEF StoreTypeOK, store

\* A cache is written: what is not late is what the records say, or expired.
LEMMA StoreKeeps ==
    ASSUME CacheInv, NEW r \in Replicas, NEW s \in Serials, NEW st \in Statuses,
           NEW late, Store(r, s, st, late), aged' = aged,
           late \/ st \in {"none", Status(s)} \/ s \in aged,
           \A x \in Replicas, y \in Serials :
              Pending(x, y) => Pending(x, y)' \/ <<x, y>> = <<r, s>>
    PROVE  /\ cache' \in [Replicas -> [Serials -> Statuses]]
           /\ missed' \in SUBSET (Replicas \X Serials) /\ Excused
<1>0. /\ cache \in [Replicas -> [Serials -> Statuses]] /\ WrongOnlyIfMissed
      /\ missed \in SUBSET (Replicas \X Serials) /\ aged' = aged
  BY Zenon, CacheTypes DEF CacheInv
<1>1. /\ cache' \in [Replicas -> [Serials -> Statuses]] /\ cache'[r][s] = st
      /\ \A x \in Replicas, y \in Serials : <<x, y>> # <<r, s>> => cache'[x][y] = cache[x][y]
  BY <1>0 DEF Store
<1>2. /\ missed' \in SUBSET (Replicas \X Serials) /\ (late => <<r, s>> \in missed')
      /\ \A x, y : <<x, y>> \in missed => <<x, y>> \in missed' \/ <<x, y>> = <<r, s>>
  BY <1>0 DEF Store
<1>3. ASSUME NEW x \in Replicas, NEW y \in Serials, cache'[x][y] \notin {"none", Status(y)}
      PROVE  Pending(x, y)' \/ <<x, y>> \in missed' \/ y \in aged'
  <2>1. CASE x = r /\ y = s
    BY Zenon, <1>0, <1>1, <1>2, <1>3, <2>1
  <2>2. CASE <<x, y>> # <<r, s>>
    BY Zenon, <1>0, <1>1, <1>2, <1>3, <2>2 DEF WrongOnlyIfMissed
  <2> QED BY Zenon, <2>1, <2>2
<1> QED BY Zenon, <1>1, <1>2, <1>3 DEF Excused

LEMMA CachesUntouched ==
    ASSUME CacheInv, UNCHANGED <<cache, flush, missed>>, aged \subseteq aged'
    PROVE  Excused
BY Zenon DEF CacheInv, Excused, WrongOnlyIfMissed, Pending

\* A responder moves on.
LEMMA AskKeeps ==
    ASSUME CacheInv, NEW q \in Requests, NEW a \in Answers, ask' = [ask EXCEPT ![q] = a],
           Answered(a), UNCHANGED <<now, store, op, batch, flush, aged>>,
           cache' \in [Replicas -> [Serials -> Statuses]],
           missed' \in SUBSET (Replicas \X Serials), Excused
    PROVE  CacheInv'
<1>1. /\ ask' \in [Requests -> Answers] /\ ask'[q] = a
      /\ \A x \in Requests \ {q} : ask'[x] = ask[x]
  BY Zenon, CacheTypes
<1>2. \A x \in Requests : Answered(ask'[x])
  BY Zenon, <1>1 DEF CacheInv
<1>3. \A r \in Replicas : Collected(batch'[r])
  BY Zenon DEF CacheInv
<1> QED BY Zenon, <1>1, <1>2, <1>3, CacheTypes, RecordsUnchanged, WorkKeeps

\* A presigner moves on.
LEMMA BatchKeeps ==
    ASSUME CacheInv, NEW r \in Replicas, NEW b \in Presigned, batch' = [batch EXCEPT ![r] = b],
           Collected(b), UNCHANGED <<now, store, op, ask, flush, aged>>,
           cache' \in [Replicas -> [Serials -> Statuses]],
           missed' \in SUBSET (Replicas \X Serials), Excused
    PROVE  CacheInv'
<1>1. /\ batch' \in [Replicas -> Presigned] /\ batch'[r] = b
      /\ \A x \in Replicas \ {r} : batch'[x] = batch[x]
  BY Zenon, CacheTypes
<1>2. \A x \in Replicas : Collected(batch'[x])
  BY Zenon, <1>1 DEF CacheInv
<1>3. \A q \in Requests : Answered(ask'[q])
  BY Zenon DEF CacheInv
<1> QED BY Zenon, <1>1, <1>2, <1>3, CacheTypes, RecordsUnchanged, WorkKeeps

-----------------------------------------------------------------------------
(* The steps of the responders and the presigners.                         *)

LEMMA NoRequestFacts ==
    /\ NoRequest \in Answers /\ NoRequest.at = "idle" /\ Answered(NoRequest)
    /\ NoBatch \in Presigned /\ NoBatch.at = "idle" /\ Collected(NoBatch)
<1>1. NoRequest \in Answers /\ NoRequest.at = "idle"
  BY DEF NoRequest, Answers, Statuses
<1>2. NoBatch \in Presigned /\ NoBatch.at = "idle"
  BY DEF NoBatch, Presigned, Statuses
<1> QED BY Zenon, <1>1, <1>2 DEF Answered, Collected

LEMMA QueryStep ==
    ASSUME CacheInv, NEW q \in Requests, Query(q)
    PROVE  CacheInv'
<1>1. PICK r \in Replicas, s \in Serials, nonce \in BOOLEAN :
         ask' = [ask EXCEPT ![q] = [NoRequest EXCEPT !.at = "revoked", !.replica = r,
                                                       !.serial = s, !.nonce = nonce]]
  BY Zenon DEF Query
<1>2. PICK a : a = [NoRequest EXCEPT !.at = "revoked", !.replica = r, !.serial = s,
                                       !.nonce = nonce]
  BY Zenon
<1>3. a \in Answers /\ a.at = "revoked" /\ a.replica = r /\ a.serial = s
  BY Zenon, <1>2 DEF Answers, NoRequest, Statuses
<1>4. Answered(a)
  BY Zenon, <1>3 DEF Answered
<1>5. UNCHANGED <<now, store, op, cache, batch, flush, aged, missed>>
  BY Zenon DEF Query
<1> QED BY ZenonT(60), <1>1, <1>2, <1>3, <1>4, <1>5, AskKeeps, CachesUntouched, CacheTypes

LEMMA LookupRevokedStep ==
    ASSUME CacheInv, NEW q \in Requests, LookupRevoked(q)
    PROVE  CacheInv'
<1>0. /\ ask[q] \in Answers /\ ask[q].at = "revoked" /\ ask[q].serial \in Serials
      /\ ask[q].replica \in Replicas /\ ask \in [Requests -> Answers]
      /\ UNCHANGED <<now, store, op, cache, batch, flush, aged, missed>>
  BY Zenon, CacheTypes DEF LookupRevoked, CacheInv, Answered
<1>1. PICK a : a = IF reason[ask[q].serial] # "none"
                   THEN [ask[q] EXCEPT !.at = "sign", !.status = "revoked"]
                   ELSE [ask[q] EXCEPT !.at = "issued"]
  BY Zenon
<1>2. ask' = [ask EXCEPT ![q] = a]
  BY Zenon, <1>0, <1>1 DEF LookupRevoked
<1>3. /\ a \in Answers /\ a.replica = ask[q].replica /\ a.serial = ask[q].serial
      /\ \/ a.at = "sign" /\ a.status = "revoked" /\ reason[ask[q].serial] # "none"
         \/ a.at = "issued" /\ reason[ask[q].serial] = "none"
  BY Zenon, <1>0, <1>1 DEF Answers, Statuses
<1>4. Answered(a)
  BY Zenon, <1>0, <1>3 DEF Answered, Status
<1> QED BY Zenon, <1>0, <1>2, <1>3, <1>4, AskKeeps, CachesUntouched, CacheTypes

LEMMA LookupIssuedStep ==
    ASSUME CacheInv, NEW q \in Requests, LookupIssued(q)
    PROVE  CacheInv'
<1>0. /\ ask[q] \in Answers /\ ask[q].at = "issued" /\ Answered(ask[q])
      /\ ask \in [Requests -> Answers]
      /\ UNCHANGED <<now, store, op, cache, batch, flush, aged, missed>>
  BY Zenon, CacheTypes DEF LookupIssued, CacheInv
<1>1. PICK a : a = [ask[q] EXCEPT !.at = "sign",
                                  !.status = IF book[ask[q].serial] # "none" THEN "good" ELSE "unknown"]
  BY Zenon
<1>2. ask' = [ask EXCEPT ![q] = a]
  BY Zenon, <1>0, <1>1 DEF LookupIssued
<1>3. /\ a \in Answers /\ a.replica = ask[q].replica /\ a.serial = ask[q].serial
      /\ a.at = "sign" /\ a.late = ask[q].late
      /\ a.status = IF book[ask[q].serial] # "none" THEN "good" ELSE "unknown"
  BY Zenon, <1>0, <1>1 DEF Answers, Statuses
<1>4. Answered(a)
  BY Zenon, <1>0, <1>3 DEF Answered, Status
<1> QED BY Zenon, <1>0, <1>2, <1>3, <1>4, AskKeeps, CachesUntouched, CacheTypes

LEMMA RespondStep ==
    ASSUME CacheInv, NEW q \in Requests, Respond(q)
    PROVE  CacheInv'
<1>0. /\ ask[q] \in Answers /\ ask[q].at = "sign" /\ Answered(ask[q])
      /\ ask' = [ask EXCEPT ![q] = NoRequest]
      /\ UNCHANGED <<now, store, op, batch, flush, aged>>
  BY Zenon, CacheTypes DEF Respond, CacheInv
<1>1. CASE UNCHANGED <<cache, missed>>
  BY Zenon, <1>0, <1>1, NoRequestFacts, AskKeeps, CachesUntouched, CacheTypes
<1>2. CASE Store(ask[q].replica, ask[q].serial, ask[q].status, ask[q].late)
  <2>1. /\ ask[q].replica \in Replicas /\ ask[q].serial \in Serials
        /\ ask[q].status \in Statuses /\ ask[q].late \in BOOLEAN
        /\ ask[q].late \/ ask[q].status = Status(ask[q].serial)
    BY Zenon, <1>0 DEF Answered, Answers
  <2>2. \A x, y : Pending(x, y) => Pending(x, y)'
    BY Zenon, <1>0 DEF Pending
  <2>3. /\ cache' \in [Replicas -> [Serials -> Statuses]]
        /\ missed' \in SUBSET (Replicas \X Serials) /\ Excused
    BY Zenon, <1>0, <1>2, <2>1, <2>2, StoreKeeps
  <2> QED BY Zenon, <1>0, <2>3, NoRequestFacts, AskKeeps
<1> QED BY Zenon, <1>1, <1>2 DEF Respond

LEMMA RespondFailsStep ==
    ASSUME CacheInv, NEW q \in Requests, RespondFails(q)
    PROVE  CacheInv'
BY Zenon, NoRequestFacts, AskKeeps, CachesUntouched, CacheTypes DEF RespondFails

LEMMA CollectIssuedStep ==
    ASSUME CacheInv, NEW r \in Replicas, CollectIssued(r)
    PROVE  CacheInv'
<1>0. UNCHANGED <<now, store, op, cache, ask, flush, aged, missed>>
  BY Zenon DEF CollectIssued
<1>1. PICK b : b = [at |-> "revoked", late |-> {},
                    status |-> [s \in Serials |-> IF book[s] # "none" /\ s \notin aged
                                                  THEN "good" ELSE "none"]]
  BY Zenon
<1>2. batch' = [batch EXCEPT ![r] = b]
  BY Zenon, <1>1 DEF CollectIssued
<1>3. b \in Presigned
  BY <1>1 DEF Presigned, Statuses
<1>4. Collected(b)
  BY Zenon, <1>1 DEF Collected
<1> QED BY Zenon, <1>0, <1>2, <1>3, <1>4, BatchKeeps, CachesUntouched, CacheTypes

LEMMA CollectRevokedStep ==
    ASSUME CacheInv, NEW r \in Replicas, CollectRevoked(r)
    PROVE  CacheInv'
<1>0. /\ batch[r] \in Presigned /\ batch[r].at = "revoked" /\ Collected(batch[r])
      /\ batch \in [Replicas -> Presigned]
      /\ UNCHANGED <<now, store, op, cache, ask, flush, aged, missed>>
  BY Zenon, CacheTypes DEF CollectRevoked, CacheInv
<1>1. PICK recent \in SUBSET Serials :
         batch' = [batch EXCEPT ![r] =
                      [@ EXCEPT !.at = "sign",
                                !.status = [s \in Serials |->
                                    IF reason[s] # "none" THEN "revoked"
                                    ELSE IF batch[r].status[s] = "none" /\ s \in recent THEN "unknown"
                                    ELSE batch[r].status[s]]]]
  BY Zenon DEF CollectRevoked
<1>2. PICK st : st = [s \in Serials |->
                         IF reason[s] # "none" THEN "revoked"
                         ELSE IF batch[r].status[s] = "none" /\ s \in recent THEN "unknown"
                         ELSE batch[r].status[s]]
  BY Zenon
<1>3. PICK b : b = [batch[r] EXCEPT !.at = "sign", !.status = st]
  BY Zenon
<1>4. batch' = [batch EXCEPT ![r] = b]
  BY Zenon, <1>0, <1>1, <1>2, <1>3
<1>5. batch[r].status \in [Serials -> Statuses] /\ batch[r].late \in SUBSET Serials
  BY Zenon, <1>0 DEF Presigned
<1>6. st \in [Serials -> Statuses]
  BY Zenon, <1>2, <1>5 DEF Statuses
<1>7. b \in Presigned /\ b.at = "sign" /\ b.late = batch[r].late /\ b.status = st
  BY Zenon, <1>0, <1>3, <1>6 DEF Presigned
<1>8. Collected(b)
  <2> SUFFICES ASSUME NEW s \in Serials \ (batch[r].late \union aged)
               PROVE  st[s] \in {"none", Status(s)}
    BY Zenon, <1>7 DEF Collected
  <2>1. batch[r].status[s] = IF book[s] # "none" THEN "good" ELSE "none"
    BY Zenon, <1>0 DEF Collected
  <2> QED BY Zenon, <1>2, <2>1 DEF Status
<1> QED BY Zenon, <1>0, <1>4, <1>7, <1>8, BatchKeeps, CachesUntouched, CacheTypes

LEMMA SignStep ==
    ASSUME CacheInv, NEW r \in Replicas, Sign(r)
    PROVE  CacheInv'
<1>0. /\ batch[r] \in Presigned /\ batch[r].at = "sign" /\ Collected(batch[r])
      /\ batch \in [Replicas -> Presigned]
      /\ UNCHANGED <<now, store, op, cache, ask, flush, aged, missed>>
  BY Zenon, CacheTypes DEF Sign, CacheInv
<1>1. PICK signed \in SUBSET Serials :
         batch' = [batch EXCEPT ![r] =
                      [@ EXCEPT !.at = "put",
                                !.status = [s \in Serials |->
                                    IF s \in signed THEN batch[r].status[s] ELSE "none"]]]
  BY Zenon DEF Sign
<1>2. PICK st : st = [s \in Serials |-> IF s \in signed THEN batch[r].status[s] ELSE "none"]
  BY Zenon
<1>3. PICK b : b = [batch[r] EXCEPT !.at = "put", !.status = st]
  BY Zenon
<1>4. batch' = [batch EXCEPT ![r] = b]
  BY Zenon, <1>0, <1>1, <1>2, <1>3
<1>5. batch[r].status \in [Serials -> Statuses] /\ batch[r].late \in SUBSET Serials
  BY Zenon, <1>0 DEF Presigned
<1>6. st \in [Serials -> Statuses]
  BY Zenon, <1>2, <1>5 DEF Statuses
<1>7. b \in Presigned /\ b.at = "put" /\ b.late = batch[r].late /\ b.status = st
  BY Zenon, <1>0, <1>3, <1>6 DEF Presigned
<1>8. Collected(b)
  <2> SUFFICES ASSUME NEW s \in Serials \ (batch[r].late \union aged)
               PROVE  st[s] \in {"none", Status(s)}
    BY Zenon, <1>7 DEF Collected
  <2>1. batch[r].status[s] \in {"none", Status(s)}
    BY Zenon, <1>0 DEF Collected
  <2> QED BY Zenon, <1>2, <2>1
<1> QED BY ZenonT(60), <1>0, <1>4, <1>7, <1>8, BatchKeeps, CachesUntouched, CacheTypes

LEMMA PutUntilStep ==
    ASSUME CacheInv, NEW r \in Replicas, PutUntil(r)
    PROVE  CacheInv'
<1>0. /\ batch[r] \in Presigned /\ batch[r].at = "put" /\ Collected(batch[r])
      /\ batch \in [Replicas -> Presigned]
      /\ UNCHANGED <<now, store, op, ask, flush, aged>>
  BY Zenon, CacheTypes DEF PutUntil, CacheInv
<1>1. PICK s \in Serials :
         /\ Store(r, s, batch[r].status[s], s \in batch[r].late)
         /\ batch' = [batch EXCEPT ![r] =
                         [batch[r] EXCEPT !.status = [batch[r].status EXCEPT ![s] = "none"]]]
  BY Zenon DEF PutUntil
<1>2. PICK st : st = [batch[r].status EXCEPT ![s] = "none"]
  BY Zenon
<1>3. PICK b : b = [batch[r] EXCEPT !.status = st]
  BY Zenon
<1>4. batch' = [batch EXCEPT ![r] = b]
  BY Zenon, <1>1, <1>2, <1>3
<1>5. batch[r].status \in [Serials -> Statuses] /\ batch[r].late \in SUBSET Serials
  BY Zenon, <1>0 DEF Presigned
<1>6. st \in [Serials -> Statuses]
  BY Zenon, <1>2, <1>5 DEF Statuses
<1>7. b \in Presigned /\ b.at = "put" /\ b.late = batch[r].late /\ b.status = st
  BY Zenon, <1>0, <1>3, <1>6 DEF Presigned
<1>8. Collected(b)
  <2> SUFFICES ASSUME NEW x \in Serials \ (batch[r].late \union aged)
               PROVE  st[x] \in {"none", Status(x)}
    BY Zenon, <1>7 DEF Collected
  <2>1. batch[r].status[x] \in {"none", Status(x)}
    BY Zenon, <1>0 DEF Collected
  <2> QED BY Zenon, <1>2, <1>5, <2>1
<1>9. /\ cache' \in [Replicas -> [Serials -> Statuses]]
      /\ missed' \in SUBSET (Replicas \X Serials) /\ Excused
  <2>2. s \in batch[r].late \/ batch[r].status[s] \in {"none", Status(s)} \/ s \in aged
    BY Zenon, <1>0 DEF Collected
  <2>3. \A x, y : Pending(x, y) => Pending(x, y)'
    BY Zenon, <1>0 DEF Pending
  <2>5. batch[r].status[s] \in Statuses
    BY Zenon, <1>5
  <2> QED BY ZenonT(60), <1>0, <1>1, <2>2, <2>3, <2>5, StoreKeeps
<1> QED BY Zenon, <1>0, <1>4, <1>7, <1>8, <1>9, BatchKeeps

LEMMA BatchEndsStep ==
    ASSUME CacheInv, NEW r \in Replicas, BatchEnds(r)
    PROVE  CacheInv'
BY Zenon, NoRequestFacts, BatchKeeps, CachesUntouched, CacheTypes DEF BatchEnds

-----------------------------------------------------------------------------
(* The steps of the operators and of time.                                 *)

LEMMA ChangeStarts ==
    ASSUME CacheInv, NEW p \in Operators, RequestChange(p) \/ ChangeFails(p)
    PROVE  CacheInv'
<1>1. UNCHANGED <<cache, ask, batch, flush, aged, missed>>
  BY Zenon DEF RequestChange, ChangeFails
<1>2. Request(p) \/ Statement(p) \/ Fail(p)
  BY Zenon DEF RequestChange, ChangeFails
<1>3. StoreTypeOK' /\ UNCHANGED <<reason, book>>
  BY Zenon, <1>2, CacheTypes, RequestTypes, StatementTypes, FailTypes
<1>4. (\A q \in Requests : Answered(ask'[q])) /\ \A r \in Replicas : Collected(batch'[r])
  BY Zenon, <1>1 DEF CacheInv
<1> QED BY Zenon, <1>1, <1>3, <1>4, CacheTypes, CachesUntouched, WorkKeeps

LEMMA CommitChangeStep ==
    ASSUME CacheInv, NEW p \in Operators, CommitChange(p)
    PROVE  CacheInv'
<1>1. PICK b \in Batches(p), rs \in SUBSET Replicas :
         /\ Commit(p, b) /\ Changed(Applied(p, b), Replicas \ rs)
         /\ flush' = [flush EXCEPT ![p] = rs \X Applied(p, b)]
  <2>1. PICK b \in Batches(p), rs \in {{r} : r \in Replicas} \union (IF Elsewhere THEN {{}} ELSE {}) :
           /\ Commit(p, b)
           /\ flush' = [flush EXCEPT ![p] = rs \X (IF op[p].kind = "bulk" THEN b \ Revoked ELSE b)]
           /\ Changed(IF op[p].kind = "bulk" THEN b \ Revoked ELSE b, Replicas \ rs)
    BY Zenon DEF CommitChange
  <2>2. Applied(p, b) = IF op[p].kind = "bulk" THEN b \ Revoked ELSE b
    BY Zenon DEF Applied
  <2>3. rs \in SUBSET Replicas /\ b \in Batches(p) /\ Commit(p, b)
    BY Zenon, <2>1
  <2> QED BY Zenon, <2>1, <2>2, <2>3
<1>2. /\ flush[p] = {} /\ UNCHANGED <<cache, aged>>
      /\ flush \in [Operators -> SUBSET (Replicas \X Serials)] /\ StoreTypeOK
  BY Zenon, CacheTypes DEF CommitChange
<1>3. Applied(p, b) \in SUBSET Serials
  <2>1. op[p] \in Operations
    BY Zenon, <1>2 DEF StoreTypeOK, Operations, Kinds
  <2> QED BY Zenon, <2>1 DEF Applied, Batches, Operations
<1>4. /\ flush' \in [Operators -> SUBSET (Replicas \X Serials)]
      /\ flush'[p] = rs \X Applied(p, b) /\ \A x \in Operators \ {p} : flush'[x] = flush[x]
  BY Zenon, <1>1, <1>2, <1>3
<1>5. \A r \in Replicas, s \in Serials : Pending(r, s) => Pending(r, s)'
  BY Zenon, <1>2, <1>4 DEF Pending
<1>6. PICK untold \in SUBSET Replicas : untold = Replicas \ rs
  BY Zenon
<1>a. /\ Changed(Applied(p, b), untold)
      /\ \A r \in Replicas \ untold, s \in Applied(p, b) : Pending(r, s)'
  BY Zenon, <1>1, <1>4, <1>6 DEF Pending
<1>7. StoreTypeOK'
  BY Zenon, <1>1, <1>2, CommitTypes
<1>8. \A s \in Serials \ Applied(p, b) :
         reason'[s] = reason[s] /\ (book'[s] = "none" <=> book[s] = "none")
  BY Zenon, <1>1, <1>2, CommitSpares
<1> QED BY ZenonT(60), <1>2, <1>3, <1>4, <1>5, <1>7, <1>8, <1>a, ChangeKeeps

LEMMA InvalidateStep ==
    ASSUME CacheInv, NEW p \in Operators, Invalidate(p)
    PROVE  CacheInv'
<1>1. PICK e \in flush[p] : flush' = [flush EXCEPT ![p] = @ \ {e}] /\ Remove(e[1], e[2])
  BY Zenon DEF Invalidate
<1>2. /\ UNCHANGED <<now, store, op, ask, batch, aged>>
      /\ flush \in [Operators -> SUBSET (Replicas \X Serials)]
  BY Zenon, CacheTypes DEF Invalidate
<1>3. PICK r \in Replicas, s \in Serials : e = <<r, s>> /\ e[1] = r /\ e[2] = s
  BY <1>2
<1>4. flush' \in [Operators -> SUBSET (Replicas \X Serials)]
  BY Zenon, <1>1, <1>2
<1>5. \A x \in Replicas, y \in Serials :
         Pending(x, y) => Pending(x, y)' \/ <<x, y>> = <<r, s>>
  <2>1. \A q \in Operators : flush'[q] = flush[q] \/ flush'[q] = flush[q] \ {e}
    BY Zenon, <1>1, <1>2
  <2> QED BY Zenon, <1>3, <2>1 DEF Pending
<1>6. Store(r, s, "none", FALSE) /\ "none" \in Statuses
  BY Zenon, <1>1, <1>3 DEF Remove, Statuses
<1>7. /\ cache' \in [Replicas -> [Serials -> Statuses]]
      /\ missed' \in SUBSET (Replicas \X Serials) /\ Excused
  BY Zenon, <1>2, <1>5, <1>6, StoreKeeps
<1>8. (\A q \in Requests : Answered(ask'[q])) /\ \A x \in Replicas : Collected(batch'[x])
  BY Zenon, <1>2 DEF CacheInv
<1> QED BY ZenonT(60), <1>2, <1>4, <1>7, <1>8, CacheTypes, RecordsUnchanged, WorkKeeps

LEMMA DropStep ==
    ASSUME CacheInv, NEW r \in Replicas, NEW s \in Serials, Drop(r, s)
    PROVE  CacheInv'
<1>1. UNCHANGED <<now, store, op, ask, batch, flush, aged>>
  BY Zenon DEF Drop
<1>2. Store(r, s, "none", FALSE) /\ "none" \in Statuses
  BY Zenon DEF Drop, Remove, Statuses
<1>3. \A x, y : Pending(x, y) => Pending(x, y)'
  BY Zenon, <1>1 DEF Pending
<1>4. /\ cache' \in [Replicas -> [Serials -> Statuses]]
      /\ missed' \in SUBSET (Replicas \X Serials) /\ Excused
  BY Zenon, <1>1, <1>2, <1>3, StoreKeeps
<1>5. (\A q \in Requests : Answered(ask'[q])) /\ \A x \in Replicas : Collected(batch'[x])
  BY Zenon, <1>1 DEF CacheInv
<1> QED BY Zenon, <1>1, <1>4, <1>5, CacheTypes, RecordsUnchanged, WorkKeeps

LEMMA AgeStep ==
    ASSUME CacheInv, NEW s \in Serials, Age(s)
    PROVE  CacheInv'
<1>1. /\ UNCHANGED <<now, store, op, cache, ask, batch, flush, missed>>
      /\ aged \subseteq aged' /\ aged' \in SUBSET Serials
  BY Zenon, CacheTypes DEF Age
<1>2. (\A q \in Requests : Answered(ask'[q])) /\ \A r \in Replicas : Collected(batch'[r])
  BY Zenon, <1>1 DEF CacheInv
<1> QED BY Zenon, <1>1, <1>2, CacheTypes, CachesUntouched, RecordsUnchanged, WorkKeeps

LEMMA OcspIssueStep ==
    ASSUME CacheInv, NEW s \in Serials, IssueUntold(s)
    PROVE  CacheInv'
<1>1. /\ UNCHANGED <<now, op, cache, flush, aged, reason, revokedAt, releasedAt, lost>>
      /\ book' = [book EXCEPT ![s] = "valid"] /\ Changed({s}, Replicas)
  BY Zenon DEF IssueUntold, RecordIssued
<1>2. StoreTypeOK /\ book \in [Serials -> {"none", "valid", "held", "revoked"}]
  BY Zenon, CacheTypes DEF StoreTypeOK
<1>3. /\ book' \in [Serials -> {"none", "valid", "held", "revoked"}]
      /\ \A x \in Serials \ {s} : book'[x] = book[x]
  BY Zenon, <1>1, <1>2
<1>4. StoreTypeOK'
  BY Zenon, <1>1, <1>2, <1>3 DEF StoreTypeOK
<1>5. /\ \A x \in Serials \ {s} : reason'[x] = reason[x] /\ (book'[x] = "none" <=> book[x] = "none")
      /\ \A x \in Replicas, y \in Serials : Pending(x, y) => Pending(x, y)'
      /\ flush' \in [Operators -> SUBSET (Replicas \X Serials)]
  BY Zenon, <1>1, <1>3, CacheTypes DEF Pending
<1> QED BY Zenon, <1>1, <1>4, <1>5, ChangeKeeps

LEMMA CacheStarts == OcspInit => CacheInv
<1> SUFFICES ASSUME OcspInit PROVE CacheInv
  OBVIOUS
<1>1. StoreTypeOK
  BY MaxReadsAssumption DEF OcspInit, StoreInit, StoreTypeOK, Idle, Times, Reasons
<1>2. OcspTypeOK
  BY Zenon, <1>1, NoRequestFacts DEF OcspInit, OcspTypeOK, Answers, Presigned, Statuses
<1>3. \A r \in Replicas, s \in Serials : cache[r][s] = "none"
  BY Zenon DEF OcspInit
<1>4. \A q \in Requests : Answered(ask[q])
  BY Zenon, NoRequestFacts DEF OcspInit
<1>5. \A r \in Replicas : Collected(batch[r])
  BY Zenon, NoRequestFacts DEF OcspInit
<1> QED BY Zenon, <1>2, <1>3, <1>4, <1>5 DEF CacheInv, WrongOnlyIfMissed

LEMMA CacheSteps == CacheInv /\ [OcspNext]_ocspVars => CacheInv'
<1> SUFFICES ASSUME CacheInv, [OcspNext]_ocspVars PROVE CacheInv'
  OBVIOUS
<1>1. CASE UNCHANGED ocspVars
  <2>1. /\ UNCHANGED <<now, store, op, cache, ask, batch, flush, aged, missed>>
    BY Zenon, <1>1 DEF ocspVars
  <2>2. (\A q \in Requests : Answered(ask'[q])) /\ \A r \in Replicas : Collected(batch'[r])
    BY Zenon, <2>1 DEF CacheInv
  <2> QED BY Zenon, <2>1, <2>2, CacheTypes, CachesUntouched, RecordsUnchanged, WorkKeeps
<1>2. CASE OcspNext
  BY ZenonT(60), <1>2, QueryStep, LookupRevokedStep, LookupIssuedStep, RespondStep, RespondFailsStep,
     CollectIssuedStep, CollectRevokedStep, SignStep, PutUntilStep, BatchEndsStep, ChangeStarts,
     CommitChangeStep, InvalidateStep, OcspIssueStep, AgeStep, DropStep
     DEF OcspNext, Responder, Presigner
<1> QED BY Zenon, <1>1, <1>2

\* A cached OCSP response is wrong only for a reason: for any number of replicas,
\* requests, operators and serials, it differs from the recorded status only while
\* its invalidation is pending, or if the change did not reach this replica or
\* overtook the lookup, or if the certificate has expired (ocspcache.go, presign.go
\* and the handlers that call Invalidate).
THEOREM StaleAnswersHaveACause == OcspSpec => []WrongOnlyIfMissed
<1>1. CacheInv => WrongOnlyIfMissed
  BY Zenon DEF CacheInv
<1> QED BY <1>1, CacheStarts, CacheSteps, PTL DEF OcspSpec
=============================================================================
