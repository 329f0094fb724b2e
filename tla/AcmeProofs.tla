----------------------------- MODULE AcmeProofs -----------------------------
(***************************************************************************)
(* The safety of ACME orders, for any number of requests, orders, names,   *)
(* authorizations and certificates.                                        *)
(***************************************************************************)
EXTENDS AcmeOrder, TLAPS

-----------------------------------------------------------------------------
(* The inductive invariants.                                               *)

OrderTypes ==
    /\ conf \in Scenarios
    /\ status \in [Orders -> OrderStatus \union {"none"}]
    /\ star \in [Orders -> BOOLEAN] /\ renew \in [Orders -> BOOLEAN]
    /\ cert \in [Orders -> 0 .. MaxCerts] /\ csr \in [Orders -> SUBSET Ids]
    /\ lapsed \subseteq Orders /\ ended \subseteq Orders

AuthzTypes ==
    /\ aid \in Seq(Ids) /\ made <= MaxAuthzs
    /\ mailed \subseteq 1 .. made /\ proved \subseteq 1 .. made
    /\ alapsed \subseteq Authzs
    /\ aorder \in [Authzs -> Orders \union {NoOrder}]
    /\ astatus \in [Authzs -> AuthzStatus] /\ chall \in [Authzs -> [Types -> ChallStatus]]

\* An order or an authorization that a request goes on to write.
Ordered == {"authorize", "claim", "create", "refresh", "store", "match", "processing",
            "issue", "record", "renew", "rerecord"}
Authorized == {"claim", "create", "expire", "mail", "attempt", "check", "validate",
               "invalidate", "deactivate", "close"}

Todos == {S \in SUBSET (Ids \union Authzs) : S \subseteq Ids \/ S \subseteq Authzs}

RequestTypes ==
    /\ pc \in [Procs -> Labels] /\ op \in [Procs -> {"finalize", "other"}]
    /\ ord \in [Procs -> Orders \union {NoOrder}]
    /\ seen \in [Procs -> {"pending", "ready", "canceled"}]
    /\ new \in [Procs -> {"pending", "ready", "invalid"}]
    /\ todo \in [Procs -> Todos]
    /\ az \in [Procs -> 0 .. MaxAuthzs] /\ ty \in [Procs -> Types]
    /\ names \in [Procs -> SUBSET Ids] /\ serial \in [Procs -> 0 .. MaxCerts]

\* What request p goes on to write exists.
Refers(p) ==
    /\ pc[p] \in Ordered => ord[p] \in Orders
    /\ pc[p] \in Authorized => az[p] \in 1 .. made

\* Nothing leads to an order before its row exists.
Unused(o) ==
    /\ \A p \in Procs : ord[p] # o
    /\ \A a \in Authzs : aorder[a] # o

References ==
    /\ \A p \in Procs : Refers(p)
    /\ \A a \in Authzs : a > made => aorder[a] = NoOrder
    /\ \A o \in Orders : status[o] = "none" => Unused(o)

CertTypes == issued \subseteq Certs /\ IsFiniteSet(issued) /\ hasty \subseteq Orders

TypeInv == OrderTypes /\ AuthzTypes /\ RequestTypes /\ References /\ CertTypes

-----------------------------------------------------------------------------
(* Types.                                                                  *)

\* An UPDATE whose error is dropped.
LEMMA WrittenOrNot ==
    ASSUME NEW f, NEW x, NEW v, NEW g \in Written(f, x, v)
    PROVE  g = f \/ g = [f EXCEPT ![x] = v]
BY Zenon DEF Written

\* What a step makes of the row of order o.
Row(o) ==
    /\ status'[o] = "none" => status[o] = "none"
    /\ status'[o] = "valid" =>
          \/ status[o] = "valid" /\ cert'[o] = cert[o]
          \/ \E p \in Procs : pc[p] \in {"record", "rerecord"} /\ ord[p] = o /\ cert'[o] = serial[p]
    /\ status'[o] = "canceled" => (status[o] = "canceled" /\ renew'[o] = renew[o]) \/ ~renew'[o]
    /\ status'[o] = "ready" =>
          \/ status[o] = "ready"
          \/ \E p \in Procs : ord[p] = o /\ (new[p] = "ready" \/ pc[p] = "issue")
    /\ \/ csr'[o] = csr[o]
       \/ \E p \in Procs : pc[p] = "record" /\ ord[p] = o /\ csr'[o] = names[p]

Rows == OrderTypes' /\ \A o \in Orders : Row(o)

LEMMA RowsStep ==
    ASSUME TypeInv, [Next]_vars
    PROVE  Rows
<1>0. /\ OrderTypes /\ \A p \in Procs : serial[p] \in 0 .. MaxCerts /\ names[p] \in SUBSET Ids
      /\ \A p \in Procs : new[p] \in {"pending", "ready", "invalid"}
  BY Zenon DEF TypeInv, RequestTypes
<1>1. CASE UNCHANGED <<conf, rows, lapsed, ended>>
  BY Zenon, <1>0, <1>1 DEF Rows, Row, OrderTypes, rows
<1>2. ASSUME NEW p \in Procs, Ordering(p) PROVE Rows
  <2>1. ASSUME NEW x \in Orders, NEW I, NEW s \in BOOLEAN, NewOrder(p, x, I, s) PROVE Rows
    BY Zenon, <1>0, <2>1 DEF NewOrder, Rows, Row, OrderTypes, OrderStatus, clock
  <2> QED BY Zenon, <1>1, <1>2, <2>1 DEF Ordering, FindPreAuthorization, Create, Claim, clock
<1>3. ASSUME NEW p \in Procs, Refreshing(p) PROVE Rows
  <2>1. CASE RefreshLapsed(p)
    BY Zenon, <1>0, <2>1 DEF RefreshLapsed, Rows, Row, OrderTypes, OrderStatus, clock
  <2>2. CASE StoreStatus(p)
    <3>0. status' = status \/ status' = [status EXCEPT ![ord[p]] = new[p]]
      BY Zenon, <2>2, WrittenOrNot DEF StoreStatus
    <3>1. \A o \in Orders : status'[o] = status[o] \/ (ord[p] = o /\ status'[o] = new[p])
      BY Zenon, <1>0, <2>2, <3>0 DEF OrderTypes
    <3>2. OrderTypes'
      BY Zenon, <1>0, <2>2, <3>0 DEF StoreStatus, OrderTypes, OrderStatus, clock
    <3> QED BY Zenon, <1>0, <2>2, <3>1, <3>2 DEF StoreStatus, Rows, Row
  <2> QED BY Zenon, <1>1, <1>3, <2>1, <2>2 DEF Refreshing, Load, RefreshRead, RefreshError, StoreExpired,
             clock
<1>4. ASSUME NEW p \in Procs, Finalizing(p) PROVE Rows
  <2>1. CASE MarkProcessing(p)
    <3>1. status' = status \/ status' = [status EXCEPT ![ord[p]] = "processing"]
      BY Zenon, <2>1, WrittenOrNot DEF MarkProcessing
    <3> QED BY Zenon, <1>0, <2>1, <3>1 DEF MarkProcessing, Rows, Row, OrderTypes, OrderStatus, clock
  <2>2. ASSUME NEW st \in {"ready", "invalid"}, IssueFails(p, st) PROVE Rows
    BY Zenon, <1>0, <2>2 DEF IssueFails, Rows, Row, OrderTypes, OrderStatus, clock
  <2>3. ASSUME NEW again \in BOOLEAN, Record(p, again) PROVE Rows
    <3>1. OrderTypes'
      BY Zenon, <1>0, <2>3 DEF Record, OrderTypes, OrderStatus, clock
    <3>2. ASSUME NEW o \in Orders, o # ord[p] PROVE UNCHANGED <<status[o], cert[o], csr[o], renew[o]>>
      BY Zenon, <1>0, <2>3, <3>2 DEF Record, OrderTypes
    <3>3. ord[p] \in Orders =>
             /\ pc[p] = "record" /\ status'[ord[p]] = "valid" /\ cert'[ord[p]] = serial[p]
             /\ csr'[ord[p]] \in {csr[ord[p]], names[p]}
      BY Zenon, <1>0, <2>3 DEF Record, OrderTypes
    <3> QED BY Zenon, <3>1, <3>2, <3>3 DEF Rows, Row
  <2> QED BY Zenon, <1>1, <1>4, <2>1, <2>2, <2>3 DEF Finalizing, Match, Issue, clock
<1>5. ASSUME NEW p \in Procs, Renewing(p) PROVE Rows
  <2>1. CASE StopRenewal(p)
    BY Zenon, <1>0, <2>1 DEF StopRenewal, Rows, Row, OrderTypes, clock
  <2>2. ASSUME NEW again \in BOOLEAN, RecordRenewal(p, again) PROVE Rows
    BY Zenon, <1>0, <2>2 DEF RecordRenewal, Rows, Row, OrderTypes, clock
  <2> QED BY Zenon, <1>1, <1>5, <2>1, <2>2 DEF Renewing, ListDue, Reissue, clock
<1>6. ASSUME NEW p \in Procs, Authorizing(p) PROVE Rows
  <2>1. CASE FailOrder(p)
    BY Zenon, <1>0, <2>1 DEF FailOrder, Rows, Row, OrderTypes, OrderStatus, clock
  <2> QED BY Zenon, <1>1, <1>6, <2>1 DEF Authorizing, LoadOverdue, Deactivate, Respond, MailReply,
             LoadAuthz,
        Expire, Attempt, SendMail, CheckPasses, CheckFails, StoreAuthz, StoreDeactivated, Reload,
        Close, clock
<1>7. ASSUME NEW x \in Orders, CancelStarOrder(x) PROVE Rows
  BY Zenon, <1>0, <1>7 DEF CancelStarOrder, Rows, Row, OrderTypes, OrderStatus, clock
<1>8. CASE Lapse
  <2>1. OrderTypes'
    BY Zenon, <1>0, <1>8 DEF Lapse, OrderTypes, rows
  <2> QED BY Zenon, <1>8, <2>1 DEF Lapse, Rows, Row, rows
<1> QED BY Zenon, <1>1, <1>2, <1>3, <1>4, <1>5, <1>6, <1>7, <1>8 DEF Next, Abort, NewAuthz, vars, clock

LEMMA AuthzTypesKept ==
    ASSUME AuthzTypes, UNCHANGED <<authz, proved, alapsed>>
    PROVE  AuthzTypes'
BY Zenon DEF AuthzTypes, authz, made, Authzs

\* A new row of acme_authorizations.
LEMMA Inserted ==
    ASSUME AuthzTypes, conf \in Scenarios, NEW i \in Ids, NEW o \in Orders \union {NoOrder},
           CreateAuthorization(i, o)
    PROVE  /\ made + 1 \in Authzs /\ aid' \in Seq(Ids) /\ made' = made + 1 /\ made' <= MaxAuthzs
           /\ \A a \in 1 .. made : aid'[a] = aid[a]
           /\ aid'[made + 1] = i /\ 1 .. made \subseteq 1 .. made'
           /\ aorder' \in [Authzs -> Orders \union {NoOrder}] /\ aorder'[made + 1] = o
           /\ \A a \in Authzs : a # made + 1 => aorder'[a] = aorder[a]
<1>1. made \in Nat /\ aid \in Seq(Ids) /\ conf.authzs \in 0 .. MaxAuthzs /\ MaxAuthzs \in Nat
  BY AcmeAssumption DEF AuthzTypes, made
<1>2. made + 1 \in Authzs /\ made + 1 <= MaxAuthzs
  BY <1>1 DEF CreateAuthorization, Authzs
<1>3. aid' \in Seq(Ids) /\ made' = made + 1 /\ (\A a \in 1 .. made : aid'[a] = aid[a]) /\ aid'[made + 1] = i
  BY <1>1 DEF CreateAuthorization, made
<1>4. /\ aorder' \in [Authzs -> Orders \union {NoOrder}] /\ aorder'[made + 1] = o
      /\ \A a \in Authzs : a # made + 1 => aorder'[a] = aorder[a]
  BY Zenon, <1>2 DEF CreateAuthorization, AuthzTypes
<1>5. 1 .. made \subseteq 1 .. made'
  BY <1>1, <1>3
<1> QED BY Zenon, <1>2, <1>3, <1>4, <1>5

LEMMA InsertedTypes ==
    ASSUME AuthzTypes, conf \in Scenarios, NEW i \in Ids, NEW o \in Orders \union {NoOrder},
           CreateAuthorization(i, o),
           UNCHANGED <<proved, alapsed>>
    PROVE  AuthzTypes'
<1>1. /\ made + 1 \in Authzs /\ aid' \in Seq(Ids) /\ made' = made + 1 /\ made' <= MaxAuthzs
      /\ 1 .. made \subseteq 1 .. made' /\ aorder' \in [Authzs -> Orders \union {NoOrder}]
  BY Zenon, Inserted
<1>2. made + 1 \in 1 .. made'
  BY <1>1 DEF Authzs
<1>3. UNCHANGED <<astatus, chall, mailed>> /\ Authzs' = Authzs
  BY Zenon DEF CreateAuthorization, Authzs
<1> QED BY Zenon, <1>1, <1>2, <1>3 DEF AuthzTypes

\* A write of an authorization's status.
LEMMA StoredAuthz ==
    ASSUME NEW p \in Procs, StoreAuthz(p) \/ StoreDeactivated(p)
    PROVE  /\ pc[p] \in {"validate", "invalidate", "deactivate"}
           /\ \E l \in {"reload", "failorder", "close"} : Goto(p, l)
           /\ \/ astatus' = astatus
              \/ pc[p] = "validate" /\ astatus' = [astatus EXCEPT ![az[p]] = "valid"]
              \/ astatus' = [astatus EXCEPT ![az[p]] = "invalid"]
              \/ astatus' = [astatus EXCEPT ![az[p]] = "deactivated"]
<1>1. CASE pc[p] = "validate" /\ astatus' \in Written(astatus, az[p], "valid") /\ Goto(p, "reload")
  BY Zenon, <1>1, WrittenOrNot
<1>2. CASE pc[p] = "invalidate" /\ astatus' \in Written(astatus, az[p], "invalid") /\ Goto(p, "failorder")
  BY Zenon, <1>2, WrittenOrNot
<1>3. CASE StoreDeactivated(p)
  BY Zenon, <1>3 DEF StoreDeactivated
<1> QED BY Zenon, <1>1, <1>2, <1>3 DEF StoreAuthz

LEMMA AuthzTypesStep ==
    ASSUME TypeInv, [Next]_vars
    PROVE  AuthzTypes'
<1>0. /\ AuthzTypes /\ References /\ conf \in Scenarios /\ Authzs' = Authzs
      /\ \A p \in Procs : ord[p] \in Orders \union {NoOrder} /\ ty[p] \in Types
      /\ \A p \in Procs : pc[p] \in Authorized => az[p] \in 1 .. made
  BY Zenon DEF TypeInv, OrderTypes, RequestTypes, References, Refers, Authzs
<1>1. ASSUME NEW p \in Procs, Ordering(p) PROVE AuthzTypes'
  <2>1. ASSUME NEW i \in Ids, Create(p, i) PROVE AuthzTypes'
    BY Zenon, <1>0, <2>1, InsertedTypes DEF Create, hist, clock
  <2>2. CASE Claim(p)
    <3>1. made' = made /\ aorder' \in [Authzs -> Orders \union {NoOrder}]
      BY Zenon, <1>0, <2>2 DEF Claim, AuthzTypes, made
    <3> QED BY Zenon, <1>0, <2>2, <3>1 DEF Claim, AuthzTypes, clock, hist
  <2>3. CASE UNCHANGED <<clock, authz, hist>>
    BY Zenon, <1>0, <2>3, AuthzTypesKept DEF clock, hist
  <2> QED BY Zenon, <1>1, <2>1, <2>2, <2>3 DEF Ordering, FindPreAuthorization, NewOrder
<1>2. ASSUME NEW p \in Procs, Refreshing(p) PROVE AuthzTypes'
  <2>1. ASSUME NEW a \in Authzs, StoreExpired(p, a) PROVE AuthzTypes'
    <3>1. astatus' = astatus \/ astatus' = [astatus EXCEPT ![a] = "expired"]
      BY Zenon, <2>1, WrittenOrNot DEF StoreExpired
    <3> QED BY Zenon, <1>0, <2>1, <3>1 DEF StoreExpired, AuthzTypes, made, AuthzStatus, clock, hist
  <2>2. CASE UNCHANGED <<clock, authz, proved>>
    BY Zenon, <1>0, <2>2, AuthzTypesKept DEF clock
  <2> QED BY Zenon, <1>2, <2>1, <2>2 DEF Refreshing, Load, RefreshLapsed, RefreshRead, RefreshError,
             StoreStatus, hist
<1>3. ASSUME NEW p \in Procs, Finalizing(p) \/ Renewing(p) \/ Abort(p) PROVE AuthzTypes'
  <2>1. UNCHANGED <<clock, authz, proved>>
    BY Zenon, <1>3 DEF Finalizing, Renewing, Abort, Match, MarkProcessing, Issue, IssueFails, Record,
       ListDue, StopRenewal,
       Reissue, RecordRenewal, hist
  <2> QED BY Zenon, <1>0, <2>1, AuthzTypesKept DEF clock
<1>4. ASSUME NEW p \in Procs, Authorizing(p) PROVE AuthzTypes'
  <2>1. ASSUME NEW x \in AuthzStatus, astatus' = [astatus EXCEPT ![az[p]] = x],
               UNCHANGED <<aid, aorder, chall, mailed, clock, proved>>
        PROVE AuthzTypes'
    BY Zenon, <1>0, <2>1 DEF AuthzTypes, made, clock
  <2>2. ASSUME NEW x \in ChallStatus, UNCHANGED <<aid, aorder, astatus, clock>>,
               SetChallenge(p, x) \/ chall' = [chall EXCEPT ![az[p]][ty[p]] = x],
               mailed' \in {mailed, mailed \union {az[p]}}, proved' \in {proved, proved \union {az[p]}},
               pc[p] \in Authorized
        PROVE AuthzTypes'
    <3>1. az[p] \in 1 .. made /\ made' = made
      BY Zenon, <1>0, <2>2 DEF made
    <3>2. chall' \in [Authzs -> [Types -> ChallStatus]]
      <4>1. az[p] \in Authzs
        BY <1>0, <3>1, AcmeAssumption DEF AuthzTypes, Authzs, made
      <4>2. [chall[az[p]] EXCEPT ![ty[p]] = x] \in [Types -> ChallStatus]
        BY Zenon, <1>0, <2>2, <4>1 DEF AuthzTypes
      <4>3. chall' = chall \/ chall' = [chall EXCEPT ![az[p]] = [chall[az[p]] EXCEPT ![ty[p]] = x]]
        BY Zenon, <2>2, WrittenOrNot DEF SetChallenge
      <4> QED BY Zenon, <1>0, <4>1, <4>2, <4>3 DEF AuthzTypes
    <3>3. mailed' \subseteq 1 .. made' /\ proved' \subseteq 1 .. made'
      BY Zenon, <1>0, <2>2, <3>1 DEF AuthzTypes
    <3> QED BY Zenon, <1>0, <2>2, <3>1, <3>2, <3>3 DEF AuthzTypes, clock
  <2>3. CASE Expire(p)
    BY Zenon, <2>1, <2>3 DEF Expire, AuthzStatus, hist
  <2>4. CASE StoreAuthz(p) \/ StoreDeactivated(p)
    <3>1. astatus' = astatus \/ \E x \in AuthzStatus : astatus' = [astatus EXCEPT ![az[p]] = x]
      BY Zenon, <2>4, StoredAuthz DEF AuthzStatus
    <3>2. UNCHANGED <<aid, aorder, chall, mailed, clock, proved>>
      BY Zenon, <2>4 DEF StoreAuthz, StoreDeactivated, hist
    <3> QED BY Zenon, <1>0, <2>1, <3>1, <3>2, AuthzTypesKept DEF authz, clock
  <2>5. CASE Attempt(p) \/ SendMail(p)
    BY Zenon, <2>2, <2>5 DEF Attempt, SendMail, ChallStatus, Authorized, hist
  <2>6. CASE CheckPasses(p) \/ CheckFails(p)
    BY Zenon, <2>2, <2>6 DEF CheckPasses, CheckFails, ChallStatus, Authorized, hist
  <2>7. ASSUME NEW T \in SUBSET Types, Close(p, T) PROVE AuthzTypes'
    <3>1. az[p] \in 1 .. made /\ made' = made
      BY Zenon, <1>0, <2>7 DEF Close, made, Authorized
    <3>2. chall' \in [Authzs -> [Types -> ChallStatus]]
      <4> DEFINE f == [t \in Types |-> IF t \in T /\ chall[az[p]][t] \in {"pending", "processing"}
                                       THEN "invalid" ELSE chall[az[p]][t]]
      <4>1. az[p] \in Authzs
        BY <1>0, <3>1, AcmeAssumption DEF AuthzTypes, Authzs, made
      <4>2. f \in [Types -> ChallStatus]
        BY Zenon, <1>0, <4>1 DEF AuthzTypes, ChallStatus
      <4>3. chall' = [chall EXCEPT ![az[p]] = f]
        BY Zenon, <2>7 DEF Close
      <4> QED BY Zenon, <1>0, <4>2, <4>3 DEF AuthzTypes
    <3> QED BY Zenon, <1>0, <2>7, <3>1, <3>2 DEF Close, AuthzTypes, clock, hist
  <2>8. CASE UNCHANGED <<clock, authz, hist>>
    BY Zenon, <1>0, <2>8, AuthzTypesKept DEF clock, hist
  <2> QED BY Zenon, <1>4, <2>3, <2>4, <2>5, <2>6, <2>7, <2>8 DEF Authorizing, LoadOverdue, Deactivate,
             Respond, MailReply,
             LoadAuthz, FailOrder, Reload
<1>5. ASSUME NEW i \in Ids, NewAuthz(i) PROVE AuthzTypes'
  BY Zenon, <1>0, <1>5, InsertedTypes DEF NewAuthz, clock, hist
<1>6. CASE Lapse
  <2>1. alapsed' \subseteq Authzs
    <3>1. 1 .. made \subseteq Authzs
      BY <1>0, AcmeAssumption DEF AuthzTypes, Authzs, made
    <3>2. \/ alapsed' = alapsed
          \/ \E a \in (1 .. made) \ alapsed : alapsed' = alapsed \union {a}
      BY Zenon, <1>6 DEF Lapse
    <3>3. alapsed \subseteq Authzs
      BY Zenon, <1>0 DEF AuthzTypes
    <3> QED BY Zenon, <3>1, <3>2, <3>3
  <2>2. UNCHANGED <<authz, proved, made>>
    BY Zenon, <1>6 DEF Lapse, authz, hist, made
  <2> QED BY Zenon, <1>0, <2>1, <2>2 DEF AuthzTypes, authz
<1>7. CASE UNCHANGED <<clock, authz, hist>>
  BY Zenon, <1>0, <1>7, AuthzTypesKept DEF clock, hist
<1> QED BY Zenon, <1>1, <1>2, <1>3, <1>4, <1>5, <1>6, <1>7 DEF Next, CancelStarOrder, vars


-----------------------------------------------------------------------------
(* Requests.                                                               *)

\* A step of p leaves the locals of the others alone.
Alone(p) ==
    \A q \in Procs \ {p} :
        /\ pc'[q] = pc[q] /\ op'[q] = op[q] /\ ord'[q] = ord[q] /\ seen'[q] = seen[q]
        /\ new'[q] = new[q] /\ todo'[q] = todo[q] /\ az'[q] = az[q]
        /\ names'[q] = names[q] /\ serial'[q] = serial[q]

HasCert(n, o) == \E c \in issued : c.serial = n /\ c.order = o

\* A certificate that request p goes on to record was issued for its order.
Holds(p) == pc[p] \in {"record", "rerecord"} => HasCert(serial[p], ord[p])

\* newOrder inserts a row and goes on to build its order.
Opens(p) == pc[p] = "idle" /\ ord'[p] \in Orders /\ status[ord'[p]] = "none" /\ status'[ord'[p]] = "pending"

\* Every other step works on with an order whose row exists, or with that of an
\* authorization.
Keeps(p) ==
    \/ ord'[p] \in {NoOrder, ord[p]}
    \/ ord'[p] \in Orders /\ status[ord'[p]] # "none"
    \/ \E a \in Authzs : ord'[p] = aorder[a]

Gives(p) == \A a \in Authzs : aorder'[a] = aorder[a] \/ aorder'[a] = ord[p]

Decided == {"match", "processing", "issue"}
Named == {"processing", "issue", "record", "renew", "rerecord"}

\* Where the status that p acts on, its names and its check come from.
Reads(p) == /\ pc[p] = "refresh" /\ new'[p] = StatusFrom(AuthzsOf(ord[p]))
            /\ new'[p] = "ready" /\ BeingBuilt(ord[p]) => ord[p] \in hasty'
            /\ UNCHANGED <<aid, aorder, astatus, proved>>
Matches(p) == /\ pc[p] = "match" /\ ord'[p] = ord[p] /\ names'[p] = {aid[a] : a \in AuthzsOf(ord[p])}
              /\ UNCHANGED <<aid, aorder, proved>>
Lists(p) == ord'[p] \in Orders /\ names'[p] = csr[ord'[p]]

Causes(p) ==
    /\ seen'[p] # "pending" =>
          \/ seen'[p] = seen[p] /\ pc[p] \notin {"refresh", "store"}
          \/ seen'[p] = seen[p] /\ pc'[p] \in {"refresh", "store"} /\ ord'[p] = ord[p]
          \/ pc'[p] = "refresh" /\ ord'[p] \in Orders /\ seen'[p] = status[ord'[p]]
    /\ new'[p] # "pending" =>
          \/ new'[p] = new[p] /\ pc[p] # "store"
          \/ pc'[p] = "store" /\ ord'[p] = ord[p] /\ (new'[p] = new[p] \/ Reads(p))
    /\ pc'[p] \in Decided => ord'[p] = ord[p] /\ (pc[p] \in Decided \/ seen[p] = "ready" \/ new[p] = "ready")
    /\ pc'[p] \in Named => \/ pc[p] \in Named /\ ord'[p] = ord[p] /\ names'[p] = names[p]
                           \/ Lists(p) \/ Matches(p)
    /\ pc'[p] = "validate" => az'[p] \in proved'
    /\ pc'[p] \in Building => Opens(p) \/ (pc[p] \in Building /\ ord'[p] = ord[p])

Stays == UNCHANGED <<status, aid, aorder>>

\* What a step of p does to the locals and to what they refer to.
Takes(p) == /\ RequestTypes' /\ Alone(p) /\ Refers(p)' /\ Holds(p)' /\ Causes(p)
            /\ Opens(p) \/ Keeps(p)
            /\ Gives(p)

LEMMA DefaultTyped == DefaultType \in Types
<1>1. \E t \in Types : TRUE
  BY Zenon, AcmeAssumption
<1> QED BY Zenon, <1>1 DEF DefaultType

LEMMA Answered ==
    ASSUME NEW p \in Procs, RequestTypes, Answer(p), aorder' = aorder
    PROVE  Takes(p)
<1>2. RequestTypes'
  <2>1. {} \in Todos /\ 0 \in 0 .. MaxAuthzs /\ 0 \in 0 .. MaxCerts
    BY AcmeAssumption DEF Todos
  <2> QED BY Zenon, <2>1, DefaultTyped DEF Answer, Goto, RequestTypes, Labels
<1>3. Alone(p)
  BY Zenon DEF Answer, Goto, RequestTypes, Alone
<1>4. /\ pc'[p] = "idle" /\ op'[p] = "other" /\ ord'[p] = NoOrder /\ seen'[p] = "pending"
      /\ new'[p] = "pending"
  BY Zenon DEF Answer, Goto, RequestTypes
<1>5. Refers(p)' /\ Holds(p)' /\ Causes(p)
  BY Zenon, <1>4 DEF Refers, Holds, Causes, Ordered, Authorized, Building, Decided, Named
<1> QED BY Zenon, <1>2, <1>3, <1>4, <1>5 DEF Takes, Keeps, Gives

\* What is used of finite sets.
Counted ==
    /\ IsFiniteSet({})
    /\ \A S : IsFiniteSet(S) => Cardinality(S) \in Nat /\ \A x : IsFiniteSet(S \union {x})

\* A certificate and its number.
LEMMA Signed ==
    ASSUME Counted, OrderTypes, CertTypes, NEW p \in Procs, Sign(p, names[p])
    PROVE  \E n \in 1 .. MaxCerts : /\ serial' = [serial EXCEPT ![p] = n]
                                    /\ issued' = issued \union {[serial |-> n, order |-> ord[p], names |-> names[p]]}
<1>1. Cardinality(issued) \in Nat /\ conf.certs \in 0 .. MaxCerts /\ MaxCerts \in Nat
  BY Zenon, AcmeAssumption DEF Counted, OrderTypes, CertTypes
<1>2. Cardinality(issued) + 1 \in 1 .. MaxCerts
  BY <1>1 DEF Sign
<1> QED BY Zenon, <1>2 DEF Sign

LEMMA Certified ==
    ASSUME NEW p \in Procs, NEW n \in 1 .. MaxCerts, RequestTypes, serial' = [serial EXCEPT ![p] = n],
           ord' = ord,
           issued' = issued \union {[serial |-> n, order |-> ord[p], names |-> names[p]]}
    PROVE  HasCert(serial[p], ord[p])'
<1> DEFINE c == [serial |-> n, order |-> ord[p], names |-> names[p]]
<1>1. c.serial = n /\ c.order = ord[p] /\ serial'[p] = n /\ ord'[p] = ord[p]
  BY Zenon DEF RequestTypes
<1>2. c \in issued'
  OBVIOUS
<1> HIDE DEF c
<1> QED BY Zenon, <1>1, <1>2 DEF HasCert

LEMMA RequestStep ==
    ASSUME Counted, TypeInv, NEW p \in Procs,
           Ordering(p) \/ Refreshing(p) \/ Finalizing(p) \/ Renewing(p) \/ Authorizing(p) \/ Abort(p)
    PROVE  Takes(p)
<1>r. RequestTypes /\ Refers(p) /\ todo[p] \in Todos
  BY Zenon DEF TypeInv, References, RequestTypes
<1>0. References /\ AuthzTypes /\ OrderTypes /\ CertTypes
  BY Zenon DEF TypeInv
<1>n. /\ 1 .. made \subseteq Authzs /\ Authzs \subseteq 0 .. MaxAuthzs /\ 0 \in 0 .. MaxAuthzs
      /\ \A a \in Authzs : a <= made => a \in 1 .. made
  BY <1>0, AcmeAssumption DEF Authzs, made, AuthzTypes
<1>m. \A i : todo[p] \ {i} \in Todos
  BY Zenon, <1>r DEF Todos
<1>a. CASE Answer(p) /\ aorder' = aorder
  BY Zenon, <1>r, <1>a, Answered
<1>b. ASSUME NEW st, Refreshed(p, st), UNCHANGED authz,
             pc[p] \in {"refresh", "store"}, st \in {"invalid", seen[p], new[p]}
      PROVE Takes(p)
  <2>1. CASE op[p] = "finalize" /\ st = "ready"
    <3>t. /\ RequestTypes' /\ Alone(p) /\ pc'[p] = "match" /\ op'[p] = op[p] /\ ord'[p] = ord[p]
          /\ seen'[p] = "pending" /\ new'[p] = "pending"
          /\ UNCHANGED <<aid, aorder>>
      BY <1>r, <1>b, <2>1 DEF Refreshed, Goto, RequestTypes, Alone, Labels, Stays, rows, authz
    <3> QED BY Zenon, <1>r, <1>b, <2>1, <3>t DEF Takes, Refers, Holds, Causes, Keeps, Gives,
               Ordered, Authorized, Building, Decided, Named, made, Stays
  <2> QED BY Zenon, <1>a, <1>b, <2>1 DEF Refreshed, authz
<1>c. ASSUME NEW a \in Authzs, NEW t \in Types, NEW l \in {"mail", "attempt", "check", "deactivate"},
             LoadAuthz(p, a, t, l)
      PROVE Takes(p)
  <2>1. /\ a \in 0 .. MaxAuthzs /\ aorder[a] \in Orders \union {NoOrder} /\ a \in 1 .. made
    BY Zenon, <1>0, <1>n, <1>c DEF AuthzTypes, LoadAuthz
  <2>t. /\ RequestTypes' /\ Alone(p) /\ Stays /\ pc'[p] = l /\ op'[p] = op[p] /\ ord'[p] = aorder[a]
        /\ seen'[p] = seen[p] /\ new'[p] = new[p] /\ az'[p] = a /\ pc[p] = "idle"
    BY Zenon, <1>r, <1>c, <2>1 DEF LoadAuthz, Goto, RequestTypes, Alone, Labels, Stays, rows, authz
  <2> QED BY Zenon, <1>r, <2>1, <1>c, <2>t DEF Takes, Refers, Holds, Causes, Keeps, Gives,
             Ordered, Authorized, Building, Decided, Named, made, Stays
<1>1. CASE Ordering(p)
  <2>1. ASSUME NEW o \in Orders, NEW I \in SUBSET Ids \ {{}}, NEW s \in BOOLEAN, NewOrder(p, o, I, s)
        PROVE  Takes(p)
    <3>1. I \in Todos
      BY Zenon, <1>r, <2>1 DEF NewOrder, Todos
    <3>2. Opens(p)
      BY Zenon, <1>r, <1>0, <2>1 DEF NewOrder, Goto, Opens, RequestTypes, OrderTypes
    <3>t. /\ RequestTypes' /\ Alone(p) /\ pc'[p] = "authorize" /\ op'[p] = op[p] /\ ord'[p] = o
          /\ seen'[p] = seen[p] /\ new'[p] = new[p] /\ pc[p] = "idle" /\ UNCHANGED <<aid, aorder>>
      BY Zenon, <1>r, <2>1, <3>1 DEF NewOrder, Goto, RequestTypes, Alone, Labels, Stays, rows, authz
    <3> QED BY Zenon, <1>r, <3>2, <3>t DEF Takes, Refers, Holds, Causes, Keeps, Gives, Ordered,
               Authorized, Building, Decided, Named, made, Stays
  <2>2. ASSUME NEW i \in Ids, FindPreAuthorization(p, i) PROVE Takes(p)
    <3>1. PICK a : az' = [az EXCEPT ![p] = a] /\ a \in 1 .. made /\ aid[a] = i
      BY Zenon, <2>2 DEF FindPreAuthorization, BestReusable, Reusable
    <3>2. a \in 0 .. MaxAuthzs
      BY Zenon, <1>n, <3>1
    <3>t. /\ RequestTypes' /\ Alone(p) /\ Stays /\ pc'[p] = "claim" /\ op'[p] = op[p] /\ ord'[p] = ord[p]
          /\ seen'[p] = seen[p] /\ new'[p] = new[p] /\ az'[p] = a /\ pc[p] = "authorize"
      BY Zenon, <1>r, <2>2, <3>1, <3>2 DEF FindPreAuthorization, Goto, RequestTypes, Alone, Labels, Stays,
         rows, authz
    <3> QED BY Zenon, <1>r, <3>1, <3>t DEF Takes, Refers, Holds, Causes, Keeps, Gives,
               Ordered, Authorized, Building, Decided, Named, made, Stays
  <2>a. ASSUME NEW i, Goto(p, Remaining(p, i)), todo' = [todo EXCEPT ![p] = @ \ {i}],
               az' = [az EXCEPT ![p] = 0],
               pc[p] \in Building,
               UNCHANGED <<op, ord, seen, new, ty, names, serial>>, Gives(p)
        PROVE Takes(p)
    <3>1. Remaining(p, i) = "refresh" \/ Remaining(p, i) = "authorize"
      BY Zenon DEF Remaining
    <3>2. todo[p] \ {i} \in Todos
      BY Zenon, <1>m
    <3>t. /\ RequestTypes' /\ Alone(p) /\ pc'[p] = Remaining(p, i) /\ op'[p] = op[p] /\ ord'[p] = ord[p]
          /\ seen'[p] = seen[p] /\ new'[p] = new[p]
      BY Zenon, <1>r, <1>n, <2>a, <3>1, <3>2 DEF Goto, RequestTypes, Alone, Labels
    <3> QED BY Zenon, <1>r, <2>a, <3>1, <3>t DEF Takes, Refers, Holds, Causes, Keeps,
               Ordered, Authorized, Building, Decided, Named
  <2>3. ASSUME NEW i \in Ids, Create(p, i) PROVE Takes(p)
    <3>1. Gives(p)
      BY Zenon, <1>0, <2>3 DEF Create, CreateAuthorization, Gives, AuthzTypes
    <3>2. pc[p] \in Building
      BY Zenon, <2>3 DEF Create, Building
    <3> QED BY Zenon, <2>a, <2>3, <3>1, <3>2 DEF Create, rows
  <2>4. CASE Claim(p)
    <3>1. Gives(p)
      BY Zenon, <1>0, <2>4 DEF Claim, Gives, AuthzTypes
    <3>2. CASE aorder[az[p]] = NoOrder
      BY Zenon, <2>a, <2>4, <3>1, <3>2 DEF Claim, rows, Building
    <3>3. CASE aorder[az[p]] # NoOrder
      <4>t. /\ RequestTypes' /\ Alone(p) /\ Stays /\ pc'[p] = "create" /\ op'[p] = op[p]
            /\ ord'[p] = ord[p] /\ seen'[p] = seen[p] /\ new'[p] = new[p] /\ az'[p] = az[p]
            /\ pc[p] = "claim"
        BY Zenon, <1>r, <2>4, <3>3 DEF Claim, Goto, RequestTypes, Alone, Labels, Stays, rows, authz
      <4> QED BY Zenon, <1>r, <4>t DEF Takes, Refers, Holds, Causes, Keeps, Gives,
                 Ordered, Authorized, Building, Decided, Named, made, Stays
    <3> QED BY Zenon, <3>2, <3>3
  <2> QED BY Zenon, <1>1, <2>1, <2>2, <2>3, <2>4 DEF Ordering
<1>2. CASE Refreshing(p)
  <2>1. ASSUME NEW o \in Orders, NEW f \in {"other", "finalize"}, Load(p, o, f) PROVE Takes(p)
    <3>2. status[o] \in {"pending", "ready", "canceled"}
      BY Zenon, <1>0, <2>1 DEF Load, Settled, OrderTypes, OrderStatus
    <3>t. /\ RequestTypes' /\ Alone(p) /\ Stays /\ pc'[p] = "refresh" /\ op'[p] = f /\ ord'[p] = o
          /\ seen'[p] = status[o] /\ new'[p] = new[p] /\ pc[p] = "idle" /\ status[o] # "none"
      BY Zenon, <1>r, <2>1, <3>2 DEF Load, Goto, RequestTypes, Alone, Labels, Stays, rows, authz
    <3> QED BY Zenon, <1>r, <3>t DEF Takes, Refers, Holds, Causes, Keeps, Gives,
               Ordered, Authorized, Building, Decided, Named, made, Stays
  <2>2. CASE RefreshLapsed(p)
    BY Zenon, <1>b, <2>2 DEF RefreshLapsed
  <2>3. CASE RefreshRead(p)
    <3>1. StatusFrom(AuthzsOf(ord[p])) \in {"pending", "ready", "invalid"}
      BY Zenon DEF StatusFrom
    <3>2. {a \in AuthzsOf(ord[p]) : Overdue(a)} \in Todos
      BY Zenon, <1>n DEF AuthzsOf, Todos
    <3>3. Reads(p)
      BY Zenon, <1>r, <2>3 DEF RefreshRead, Reads, RequestTypes, authz
    <3>t. /\ RequestTypes' /\ Alone(p) /\ Stays /\ pc'[p] = "store" /\ op'[p] = op[p] /\ ord'[p] = ord[p]
          /\ seen'[p] = seen[p] /\ pc[p] = "refresh"
      BY Zenon, <1>r, <2>3, <3>1, <3>2 DEF RefreshRead, Goto, RequestTypes, Alone, Labels, Stays, rows,
         authz
    <3> QED BY Zenon, <1>r, <3>3, <3>t DEF Takes, Refers, Holds, Causes, Keeps, Gives, Ordered,
               Authorized, Building, Decided, Named, made, Stays
  <2>4. CASE RefreshError(p)
    BY Zenon, <1>b, <2>4 DEF RefreshError, rows
  <2>5. ASSUME NEW a \in Authzs, StoreExpired(p, a) PROVE Takes(p)
    <3>1. todo[p] \ {a} \in Todos
      BY Zenon, <1>m
    <3>t. /\ RequestTypes' /\ Alone(p) /\ Stays /\ pc'[p] = "store" /\ op'[p] = op[p] /\ ord'[p] = ord[p]
          /\ seen'[p] = seen[p] /\ new'[p] = new[p] /\ pc[p] = "store"
      BY Zenon, <1>r, <2>5, <3>1 DEF StoreExpired, Goto, RequestTypes, Alone, Labels, Stays, rows, authz
    <3> QED BY Zenon, <1>r, <3>t DEF Takes, Refers, Holds, Causes, Keeps, Gives, Ordered,
               Authorized, Building, Decided, Named, made, Stays
  <2>6. CASE StoreStatus(p)
    BY Zenon, <1>b, <2>6 DEF StoreStatus
  <2> QED BY Zenon, <1>2, <2>1, <2>2, <2>3, <2>4, <2>5, <2>6 DEF Refreshing
<1>3. CASE Finalizing(p)
  <2>1. CASE Match(p)
    <3>1. {aid[a] : a \in AuthzsOf(ord[p])} \in SUBSET Ids
      BY <1>0 DEF AuthzsOf, AuthzTypes, made
    <3>2. Matches(p)
      BY Zenon, <1>r, <2>1 DEF Match, Matches, RequestTypes, authz, hist
    <3>t. /\ RequestTypes' /\ Alone(p) /\ Stays /\ pc'[p] = "processing" /\ op'[p] = op[p]
          /\ ord'[p] = ord[p] /\ seen'[p] = seen[p] /\ new'[p] = new[p] /\ pc[p] = "match"
      BY Zenon, <1>r, <2>1, <3>1 DEF Match, Goto, RequestTypes, Alone, Labels, Stays, rows, authz
    <3> QED BY Zenon, <1>r, <3>2, <3>t DEF Takes, Refers, Holds, Causes, Keeps, Gives, Ordered,
               Authorized, Building, Decided, Named, made, Stays
  <2>2. CASE MarkProcessing(p)
    <3>t. /\ RequestTypes' /\ Alone(p) /\ pc'[p] = "issue" /\ op'[p] = op[p] /\ ord'[p] = ord[p]
          /\ seen'[p] = seen[p] /\ new'[p] = new[p] /\ names'[p] = names[p] /\ pc[p] = "processing"
          /\ UNCHANGED <<aid, aorder>>
      BY Zenon, <1>r, <2>2 DEF MarkProcessing, Goto, RequestTypes, Alone, Labels, Stays, rows, authz
    <3> QED BY Zenon, <1>r, <3>t DEF Takes, Refers, Holds, Causes, Keeps, Gives, Ordered,
               Authorized, Building, Decided, Named, made, Stays
  <2>3. CASE Issue(p)
    <3>1. PICK n \in 1 .. MaxCerts : /\ serial' = [serial EXCEPT ![p] = n]
                                     /\ issued' = issued \union {[serial |-> n, order |-> ord[p], names |-> names[p]]}
      BY Zenon, <1>0, <2>3, Signed DEF Issue
    <3>2. HasCert(serial[p], ord[p])'
      BY Zenon, <1>r, <2>3, <3>1, Certified DEF Issue
    <3>3. n \in 0 .. MaxCerts
      BY <3>1, AcmeAssumption
    <3>t. /\ RequestTypes' /\ Alone(p) /\ Stays /\ pc'[p] = "record" /\ op'[p] = op[p] /\ ord'[p] = ord[p]
          /\ seen'[p] = seen[p] /\ new'[p] = new[p] /\ names'[p] = names[p] /\ pc[p] = "issue"
      BY Zenon, <1>r, <2>3, <3>1, <3>3 DEF Issue, Goto, RequestTypes, Alone, Labels, Stays, rows, authz
    <3> QED BY Zenon, <1>r, <3>2, <3>t DEF Takes, Refers, Holds, Causes, Keeps, Gives, Ordered,
               Authorized, Building, Decided, Named, made, Stays
  <2> QED BY Zenon, <1>a, <1>3, <2>1, <2>2, <2>3 DEF Finalizing, IssueFails, Record, authz
<1>4. CASE Renewing(p)
  <2>1. ASSUME NEW o \in Orders, ListDue(p, o) PROVE Takes(p)
    <3>1. csr[o] \in SUBSET Ids
      BY Zenon, <1>0 DEF OrderTypes
    <3>t. /\ RequestTypes' /\ Alone(p) /\ Stays /\ pc'[p] = "renew" /\ op'[p] = op[p] /\ ord'[p] = o
          /\ seen'[p] = seen[p] /\ new'[p] = new[p] /\ names'[p] = csr[o] /\ pc[p] = "idle"
          /\ status[o] = "valid"
      BY Zenon, <1>r, <2>1, <3>1 DEF ListDue, Goto, RequestTypes, Alone, Labels, Stays, rows, authz
    <3> QED BY Zenon, <1>r, <3>t DEF Lists, Takes, Refers, Holds, Causes, Keeps, Gives,
               Ordered, Authorized, Building, Decided, Named, made, Stays
  <2>2. CASE Reissue(p)
    <3>1. PICK n \in 1 .. MaxCerts : /\ serial' = [serial EXCEPT ![p] = n]
                                     /\ issued' = issued \union {[serial |-> n, order |-> ord[p], names |-> names[p]]}
      BY Zenon, <1>0, <2>2, Signed DEF Reissue
    <3>2. HasCert(serial[p], ord[p])'
      BY Zenon, <1>r, <2>2, <3>1, Certified DEF Reissue
    <3>3. n \in 0 .. MaxCerts
      BY <3>1, AcmeAssumption
    <3>t. /\ RequestTypes' /\ Alone(p) /\ Stays /\ pc'[p] = "rerecord" /\ op'[p] = op[p]
          /\ ord'[p] = ord[p] /\ seen'[p] = seen[p] /\ new'[p] = new[p] /\ names'[p] = names[p]
          /\ pc[p] = "renew"
      BY Zenon, <1>r, <2>2, <3>1, <3>3 DEF Reissue, Goto, RequestTypes, Alone, Labels, Stays, rows, authz
    <3> QED BY Zenon, <1>r, <3>2, <3>t DEF Takes, Refers, Holds, Causes, Keeps, Gives, Ordered,
               Authorized, Building, Decided, Named, made, Stays
  <2> QED BY Zenon, <1>a, <1>4, <2>1, <2>2 DEF Renewing, StopRenewal, RecordRenewal, authz
<1>5. CASE Authorizing(p)
  <2>1. ASSUME NEW a \in Authzs, LoadOverdue(p, a) PROVE Takes(p)
    <3>1. a \in 0 .. MaxAuthzs /\ a \in 1 .. made
      BY Zenon, <1>n, <2>1 DEF LoadOverdue
    <3>t. /\ RequestTypes' /\ Alone(p) /\ Stays /\ pc'[p] = "expire" /\ op'[p] = op[p] /\ ord'[p] = ord[p]
          /\ seen'[p] = seen[p] /\ new'[p] = new[p] /\ az'[p] = a /\ pc[p] = "idle"
      BY Zenon, <1>r, <2>1, <3>1 DEF LoadOverdue, Goto, RequestTypes, Alone, Labels, Stays, rows, authz
    <3> QED BY Zenon, <1>r, <3>1, <3>t DEF Takes, Refers, Holds, Causes, Keeps, Gives, Ordered,
               Authorized, Building, Decided, Named, made, Stays
  <2>2. ASSUME NEW a \in Authzs, Deactivate(p, a) PROVE Takes(p)
    BY Zenon, <1>c, <2>2, DefaultTyped DEF Deactivate
  <2>3. ASSUME NEW a \in Authzs, NEW t \in Types, Respond(p, a, t) \/ MailReply(p, a, t) PROVE Takes(p)
    BY Zenon, <1>c, <2>3 DEF Respond, MailReply
  <2>4. ASSUME Attempt(p) \/ CheckFails(p) \/ \E T \in SUBSET Types : Close(p, T) PROVE Takes(p)
    <3>t. /\ RequestTypes' /\ Alone(p) /\ Stays /\ pc'[p] \in {"check", "invalidate", "reload"}
          /\ op'[p] = op[p] /\ ord'[p] = ord[p]
          /\ seen'[p] = seen[p] /\ new'[p] = new[p] /\ az'[p] = az[p]
          /\ pc[p] \in {"attempt", "check", "mail", "close"}
      BY Zenon, <1>r, <2>4 DEF Attempt, CheckFails, Close, Goto, RequestTypes, Alone, Labels, Stays, rows,
         authz
    <3> QED BY Zenon, <1>r, <3>t DEF Takes, Refers, Holds, Causes, Keeps, Gives, Ordered,
               Authorized, Building, Decided, Named, made, Stays
  <2>5. CASE CheckPasses(p)
    <3>t. /\ RequestTypes' /\ Alone(p) /\ Stays /\ pc'[p] = "validate" /\ op'[p] = op[p]
          /\ ord'[p] = ord[p] /\ seen'[p] = seen[p] /\ new'[p] = new[p] /\ az'[p] = az[p]
          /\ pc[p] = "check" /\ az[p] \in proved'
      BY Zenon, <1>r, <2>5 DEF CheckPasses, Goto, RequestTypes, Alone, Labels, Stays, rows, authz
    <3> QED BY Zenon, <1>r, <3>t DEF Takes, Refers, Holds, Causes, Keeps, Gives, Ordered,
               Authorized, Building, Decided, Named, made, Stays
  <2>6. CASE StoreAuthz(p) \/ StoreDeactivated(p)
    <3>1. PICK l \in {"reload", "failorder", "close"} : Goto(p, l)
      BY Zenon, <2>6, StoredAuthz
    <3>2. pc[p] \in Authorized \ {"refresh", "store"}
      BY Zenon, <2>6, StoredAuthz DEF Authorized
    <3>3. UNCHANGED <<status, aid, aorder, op, ord, seen, new, todo, az, ty, names, serial>>
      BY Zenon, <2>6 DEF StoreAuthz, StoreDeactivated, rows
    <3>t. /\ RequestTypes' /\ Alone(p) /\ Stays /\ pc'[p] = l /\ op'[p] = op[p] /\ ord'[p] = ord[p]
          /\ seen'[p] = seen[p] /\ new'[p] = new[p] /\ az'[p] = az[p]
      BY Zenon, <1>r, <3>1, <3>3 DEF Goto, RequestTypes, Alone, Labels, Stays, rows, authz
    <3> QED BY Zenon, <1>r, <3>1, <3>2, <3>t DEF Takes, Refers, Holds, Causes, Keeps, Gives,
               Ordered, Authorized, Building, Decided, Named, made, Stays
  <2>7. CASE Reload(p)
    <3>1. CASE ord[p] \in Orders /\ status[ord[p]] \notin Settled
      <4>1. status[ord[p]] # "none"
        BY Zenon, <1>0, <3>1 DEF References, Unused
      <4>2. status[ord[p]] \in {"pending", "ready", "canceled"}
        BY Zenon, <1>0, <3>1, <4>1 DEF Settled, OrderTypes, OrderStatus
      <4>t. /\ RequestTypes' /\ Alone(p) /\ Stays /\ pc'[p] = "refresh" /\ op'[p] = op[p]
            /\ ord'[p] = ord[p] /\ seen'[p] = status[ord[p]] /\ new'[p] = new[p] /\ pc[p] = "reload"
        BY <1>r, <1>n, <2>7, <3>1, <4>2, DefaultTyped DEF Reload, Goto, RequestTypes, Alone, Labels,
           Stays, rows, authz
      <4> QED BY Zenon, <1>r, <3>1, <4>t DEF Takes, Refers, Holds, Causes, Keeps, Gives,
                 Ordered, Authorized, Building, Decided, Named, made, Stays
    <3>2. CASE ~(ord[p] \in Orders /\ status[ord[p]] \notin Settled)
      BY Zenon, <1>a, <2>7, <3>2 DEF Reload, authz, rows
    <3> QED BY Zenon, <3>1, <3>2
  <2> QED BY Zenon, <1>a, <1>5, <2>1, <2>2, <2>3, <2>4, <2>5, <2>6, <2>7 DEF Authorizing, Expire,
             SendMail, FailOrder, authz, rows
<1>6. CASE Abort(p)
  BY Zenon, <1>6, <1>a DEF Abort, authz, rows
<1> QED BY Zenon, <1>1, <1>2, <1>3, <1>4, <1>5, <1>6

-----------------------------------------------------------------------------
(* Authorizations and certificates.                                        *)

\* An authorization's order is set once, by a request that still builds the order.
Given(o) == o = NoOrder \/ \E p \in Procs : pc[p] \in Building /\ o = ord[p]
Owned ==
    /\ made <= made'
    /\ \A a \in Authzs : aorder'[a] = aorder[a] \/ (aorder[a] = NoOrder /\ a <= made' /\ Given(aorder'[a]))

\* Checks that passed and identifiers stay.
Grown == proved \subseteq proved' /\ \A a \in 1 .. made : aid'[a] = aid[a]

\* An authorization becomes valid by the outcome of a check alone.
Validated ==
    \A a \in Authzs : astatus'[a] = "valid" =>
        astatus[a] = "valid" \/ \E p \in Procs : pc[p] = "validate" /\ az[p] = a

\* A step signs no certificate, or one for the names of a request.
Signs ==
    \/ issued' = issued
    \/ \E p \in Procs : \E n \in 1 .. MaxCerts :
          /\ pc[p] \in {"issue", "renew"}
          /\ issued' = issued \union {[serial |-> n, order |-> ord[p], names |-> names[p]]}

\* An order is found ready, half built or not, by a refresh of it.
Rushes ==
    /\ hasty \subseteq hasty'
    /\ \A o \in hasty' : o \in hasty \/ \E p \in Procs : pc[p] = "refresh" /\ ord[p] = o

Shares == conf' = conf /\ Owned /\ Grown /\ Validated /\ Signs /\ Rushes

LEMMA SharesStep ==
    ASSUME Counted, TypeInv, [Next]_vars
    PROVE  Shares
<1>0. AuthzTypes /\ OrderTypes /\ CertTypes /\ References /\ made \in Nat
  BY DEF TypeInv, AuthzTypes, made
<1>1. CASE UNCHANGED <<conf, aid, aorder, astatus, issued, proved>> /\ Rushes
  BY <1>0, <1>1 DEF Shares, Owned, Grown, Validated, Signs, made
<1>2. ASSUME NEW i \in Ids, NEW o, CreateAuthorization(i, o), Given(o),
             UNCHANGED <<conf, issued, proved, hasty>>
      PROVE  Shares
  <2>1. made' = made + 1 /\ Grown
    BY <1>0, <1>2 DEF CreateAuthorization, AuthzTypes, Grown, made
  <2>2. \A a \in Authzs : \/ aorder'[a] = aorder[a]
                          \/ aorder'[a] = o /\ a = made + 1
    BY Zenon, <1>0, <1>2 DEF CreateAuthorization, AuthzTypes
  <2>3. \A a \in Authzs : a = made + 1 => aorder[a] = NoOrder /\ a <= made' /\ made <= made'
    BY <1>0, <2>1 DEF References
  <2>4. Owned
    BY <1>0, <1>2, <2>1, <2>2, <2>3 DEF Owned
  <2> QED BY Zenon, <1>2, <2>1, <2>4 DEF Shares, CreateAuthorization, Validated, Signs, Rushes
<1>3. ASSUME NEW p \in Procs, Claim(p) PROVE Shares
  <2>1. az[p] \in 1 .. made /\ made' = made /\ Given(ord[p])
    BY Zenon, <1>0, <1>3 DEF Claim, References, Refers, Authorized, made, Given, Building
  <2>2. Owned
    BY <1>0, <1>3, <2>1 DEF Claim, Owned, AuthzTypes
  <2> QED BY Zenon, <1>3, <2>2 DEF Claim, Shares, Grown, Validated, Signs, Rushes, hist
<1>4. ASSUME NEW p \in Procs, NEW a, NEW x, astatus' = [astatus EXCEPT ![a] = x],
             x = "valid" => pc[p] = "validate" /\ a = az[p], UNCHANGED <<conf, aid, aorder, issued, proved, hasty>>
      PROVE  Shares
  <2>1. Validated
    BY Zenon, <1>0, <1>4 DEF Validated, AuthzTypes
  <2>2. Owned
    BY <1>0, <1>4 DEF Owned, made
  <2> QED BY Zenon, <1>4, <2>1, <2>2 DEF Shares, Grown, Signs, Rushes
<1>5. ASSUME NEW p \in Procs, CheckPasses(p) PROVE Shares
  <2>1. Owned
    BY <1>0, <1>5 DEF CheckPasses, Owned, made
  <2> QED BY Zenon, <1>5, <2>1 DEF CheckPasses, Shares, Grown, Validated, Signs, Rushes
<1>6. ASSUME NEW p \in Procs, Issue(p) \/ Reissue(p) PROVE Shares
  <2>1. UNCHANGED <<conf, aid, aorder, astatus, proved, hasty>>
    BY Zenon, <1>6 DEF Issue, Reissue, authz
  <2>2. Owned
    BY <1>0, <2>1 DEF Owned, made
  <2>3. Signs
    BY Zenon, <1>0, <1>6, Signed DEF Issue, Reissue, Signs
  <2> QED BY Zenon, <2>1, <2>2, <2>3 DEF Shares, Grown, Validated, Rushes
<1>7. ASSUME NEW p \in Procs, Ordering(p) PROVE Shares
  <2>1. ASSUME NEW i \in Ids, Create(p, i) PROVE Shares
    BY Zenon, <1>2, <2>1 DEF Create, Given, Building, hist
  <2> QED BY Zenon, <1>1, <1>3, <1>7, <2>1 DEF Ordering, NewOrder, FindPreAuthorization, Rushes, authz, hist
<1>8. ASSUME NEW p \in Procs, Refreshing(p) PROVE Shares
  <2>1. ASSUME NEW a \in Authzs, StoreExpired(p, a) PROVE Shares
    <3>1. "expired" # "valid"
      OBVIOUS
    <3>2. astatus' = astatus \/ astatus' = [astatus EXCEPT ![a] = "expired"]
      BY Zenon, <2>1, WrittenOrNot DEF StoreExpired
    <3> QED BY Zenon, <1>1, <1>4, <2>1, <3>1, <3>2 DEF StoreExpired, Rushes, hist
  <2>2. CASE RefreshRead(p)
    BY Zenon, <1>1, <2>2 DEF RefreshRead, Rushes, authz
  <2> QED BY Zenon, <1>1, <1>8, <2>1, <2>2 DEF Refreshing, Load, RefreshLapsed, RefreshError,
             StoreStatus, Rushes, authz, hist
<1>9. ASSUME NEW p \in Procs, Finalizing(p) \/ Renewing(p) PROVE Shares
  BY Zenon, <1>1, <1>6, <1>9 DEF Finalizing, Match, MarkProcessing, IssueFails, Record,
     Renewing, ListDue, StopRenewal, RecordRenewal, Rushes, authz, hist
<1>10. ASSUME NEW p \in Procs, Authorizing(p) PROVE Shares
  <2>1. CASE Expire(p)
    <3>1. "expired" # "valid"
      OBVIOUS
    <3> QED BY Zenon, <1>4, <2>1, <3>1 DEF Expire, hist
  <2>2. CASE StoreAuthz(p) \/ StoreDeactivated(p)
    <3>1. \/ astatus' = astatus
          \/ \E x : astatus' = [astatus EXCEPT ![az[p]] = x] /\ (x = "valid" => pc[p] = "validate")
      BY <2>2, StoredAuthz
    <3>2. UNCHANGED <<conf, aid, aorder, issued, proved, hasty>>
      BY Zenon, <2>2 DEF StoreAuthz, StoreDeactivated, hist
    <3> QED BY Zenon, <1>1, <1>4, <3>1, <3>2 DEF Rushes
  <2> QED BY Zenon, <1>1, <1>5, <1>10, <2>1, <2>2 DEF Authorizing, LoadOverdue, Deactivate, Respond,
             MailReply, LoadAuthz,
        Attempt, SendMail, CheckFails, FailOrder, Reload, Close, Rushes, authz, hist
<1>11. ASSUME NEW i \in Ids, NewAuthz(i) PROVE Shares
  BY Zenon, <1>2, <1>11 DEF NewAuthz, Given, hist
<1> QED BY Zenon, <1>1, <1>7, <1>8, <1>9, <1>10, <1>11 DEF Next, Abort, CancelStarOrder, Lapse, vars,
           Rushes, authz, hist

LEMMA CertTypesStep ==
    ASSUME Counted, TypeInv, Signs, Rushes
    PROVE  CertTypes'
<1>0. RequestTypes /\ References /\ CertTypes
  BY Zenon DEF TypeInv
<1>h. hasty' \subseteq Orders
  BY Zenon, <1>0 DEF CertTypes, Rushes, References, Refers, Ordered
<1>1. CASE UNCHANGED issued
  BY Zenon, <1>0, <1>1, <1>h DEF CertTypes
<1>2. ASSUME NEW p \in Procs, NEW n \in 1 .. MaxCerts, pc[p] \in {"issue", "renew"},
             issued' = issued \union {[serial |-> n, order |-> ord[p], names |-> names[p]]}
      PROVE  CertTypes'
  <2>1. ord[p] \in Orders /\ names[p] \in SUBSET Ids
    BY Zenon, <1>0, <1>2 DEF References, Refers, RequestTypes, Ordered
  <2>2. IsFiniteSet(issued')
    BY Zenon, <1>0, <1>2 DEF Counted, CertTypes
  <2> QED BY <1>0, <1>2, <1>h, <2>1, <2>2 DEF CertTypes, Certs
<1> QED BY Zenon, <1>1, <1>2 DEF Signs

-----------------------------------------------------------------------------
(* References.                                                             *)

\* A step of anybody: one request takes it, or the locals stay as they are.
Idles == /\ UNCHANGED local
         /\ \A a \in Authzs : aorder'[a] = aorder[a] \/ aorder'[a] = NoOrder

LEMMA StepOf ==
    ASSUME Counted, TypeInv, [Next]_vars
    PROVE  Idles \/ \E p \in Procs : Takes(p)
<1>0. AuthzTypes
  BY Zenon DEF TypeInv
<1>1. CASE UNCHANGED <<local, aorder>>
  BY Zenon, <1>1 DEF Idles
<1>2. ASSUME NEW i \in Ids, NewAuthz(i) PROVE Idles
  <2>1. aorder' = [aorder EXCEPT ![made + 1] = NoOrder] /\ UNCHANGED local
    BY Zenon, <1>2 DEF NewAuthz, CreateAuthorization
  <2> QED BY Zenon, <1>0, <2>1 DEF AuthzTypes, Idles
<1> QED BY Zenon, <1>1, <1>2, RequestStep DEF Next, CancelStarOrder, Lapse, vars, authz

LEMMA ReferencesStep ==
    ASSUME Counted, TypeInv, AuthzTypes', Rows, Owned, [Next]_vars
    PROVE  References' /\ RequestTypes'
<1>0. RequestTypes /\ References /\ AuthzTypes
  BY Zenon DEF TypeInv
<1>1. \A a \in Authzs : a > made' => aorder'[a] = NoOrder
  BY <1>0 DEF References, Owned, AuthzTypes, made, Authzs
<1>2. \A o \in Orders : status'[o] = "none" => status[o] = "none" /\ Unused(o)
  <2>1. ASSUME NEW o \in Orders, status'[o] = "none" PROVE status[o] = "none"
    BY Zenon, <2>1 DEF Rows, Row
  <2> QED BY Zenon, <1>0, <2>1 DEF References
<1>3. ASSUME NEW q \in Procs, pc'[q] = pc[q], op'[q] = op[q], ord'[q] = ord[q], az'[q] = az[q]
      PROVE  Refers(q)'
  <2>1. Refers(q)
    BY Zenon, <1>0 DEF References
  <2>2. made \in Nat /\ made' \in Nat /\ made <= made'
    BY <1>0 DEF AuthzTypes, made, Owned
  <2> QED BY <1>3, <2>1, <2>2 DEF Refers
<1>4. ASSUME NEW p \in Procs, Takes(p)
      PROVE  References' /\ RequestTypes'
  <2>1. \A q \in Procs : Refers(q)'
    <3>1. ASSUME NEW q \in Procs \ {p} PROVE Refers(q)'
      BY Zenon, <1>3, <1>4 DEF Takes, Alone
    <3> QED BY Zenon, <1>4, <3>1 DEF Takes
  <2>2. ASSUME NEW o \in Orders, status'[o] = "none" PROVE Unused(o)'
    <3>1. /\ status[o] = "none" /\ (\A q \in Procs : ord[q] # o)
          /\ (\A a \in Authzs : aorder[a] # o) /\ o # NoOrder
      BY Zenon, <1>2, <2>2, AcmeAssumption DEF Unused
    <3>2. ord'[p] # o
      <4>1. CASE Opens(p)
        BY Zenon, <2>2, <3>1, <4>1 DEF Opens
      <4>2. CASE Keeps(p)
        BY Zenon, <2>2, <3>1, <4>2 DEF Keeps
      <4> QED BY Zenon, <1>4, <4>1, <4>2 DEF Takes
    <3>3. \A q \in Procs : ord'[q] # o
      BY Zenon, <1>4, <3>1, <3>2 DEF Takes, Alone
    <3>4. \A a \in Authzs : aorder'[a] # o
      BY Zenon, <1>4, <3>1 DEF Takes, Gives
    <3> QED BY Zenon, <3>2, <3>3, <3>4 DEF Unused, Authzs
  <2> QED BY Zenon, <1>1, <1>4, <2>1, <2>2 DEF Takes, References, Authzs
<1>5. CASE Idles
  <2>1. RequestTypes' /\ \A q \in Procs : Refers(q)'
    BY Zenon, <1>0, <1>3, <1>5 DEF Idles, RequestTypes, local, Authzs
  <2>2. ASSUME NEW o \in Orders, status'[o] = "none" PROVE Unused(o)'
    <3>1. Unused(o) /\ NoOrder # o
      BY Zenon, <1>2, <2>2, AcmeAssumption
    <3> QED BY Zenon, <1>5, <3>1 DEF Unused, Idles, local
  <2> QED BY Zenon, <1>1, <2>1, <2>2 DEF References, Authzs
<1> QED BY Zenon, <1>4, <1>5, StepOf

LEMMA TypeInit ==
    ASSUME Counted, Init
    PROVE  TypeInv
<1>1. OrderTypes
  BY AcmeAssumption DEF Init, OrderTypes
<1>2. AuthzTypes
  BY AcmeAssumption DEF Init, AuthzTypes, made, Authzs, AuthzStatus, ChallStatus
<1>3. RequestTypes
  <2>1. {} \in Todos /\ 0 \in 0 .. MaxAuthzs /\ 0 \in 0 .. MaxCerts
    BY AcmeAssumption DEF Todos
  <2> QED BY Zenon, <2>1, DefaultTyped DEF Init, RequestTypes, Labels
<1>4. References
  BY Zenon, AcmeAssumption DEF Init, References, Refers, Unused, Ordered, Authorized, made
<1>5. CertTypes
  BY Zenon DEF Init, CertTypes, Counted
<1> QED BY Zenon, <1>1, <1>2, <1>3, <1>4, <1>5 DEF TypeInv

LEMMA TypeStep ==
    ASSUME Counted, TypeInv, [Next]_vars
    PROVE  TypeInv'
<1>1. AuthzTypes' /\ Rows /\ Shares
  BY Zenon, AuthzTypesStep, RowsStep, SharesStep
<1>2. References' /\ RequestTypes'
  BY Zenon, <1>1, ReferencesStep DEF Shares
<1>3. CertTypes'
  BY Zenon, <1>1, CertTypesStep DEF Shares
<1> QED BY Zenon, <1>1, <1>2, <1>3 DEF TypeInv, Rows

-----------------------------------------------------------------------------
(* Certificates and orders.                                                *)

ServeInv == ValidOrderServesItsCertificate /\ \A p \in Procs : Holds(p)

LEMMA ServeStep ==
    ASSUME Counted, TypeInv, ServeInv, [Next]_vars
    PROVE  ServeInv'
<1>0. Rows /\ Shares
  BY Zenon, RowsStep, SharesStep
<1>1. issued \subseteq issued'
  BY Zenon, <1>0 DEF Shares, Signs
<1>2. ASSUME NEW n, NEW o, HasCert(n, o) PROVE \E c \in issued' : c.serial = n /\ c.order = o
  BY Zenon, <1>1, <1>2 DEF HasCert
<1>3. ASSUME NEW q \in Procs, pc'[q] = pc[q], serial'[q] = serial[q], ord'[q] = ord[q] PROVE Holds(q)'
  <2>1. Holds(q)
    BY Zenon DEF ServeInv
  <2>2. pc[q] \in {"record", "rerecord"} => \E c \in issued' : c.serial = serial[q] /\ c.order = ord[q]
    BY <1>2, <2>1 DEF Holds
  <2> QED BY Zenon, <1>3, <2>2 DEF Holds, HasCert
<1>4. \A q \in Procs : Holds(q)'
  <2>1. CASE Idles
    BY Zenon, <1>3, <2>1 DEF Idles, local
  <2>2. ASSUME NEW p \in Procs, Takes(p) PROVE \A q \in Procs : Holds(q)'
    <3>1. ASSUME NEW q \in Procs \ {p} PROVE Holds(q)'
      BY Zenon, <1>3, <2>2 DEF Takes, Alone
    <3> QED BY Zenon, <2>2, <3>1 DEF Takes
  <2> QED BY Zenon, <2>1, <2>2, StepOf
<1>5. ASSUME NEW o \in Orders, status'[o] = "valid"
      PROVE  \E c \in issued' : c.serial = cert'[o] /\ c.order = o
  <2>1. HasCert(cert'[o], o)
    <3>1. \A p \in Procs : pc[p] \in {"record", "rerecord"} => HasCert(serial[p], ord[p])
      BY Zenon DEF ServeInv, Holds
    <3>2. status[o] = "valid" => HasCert(cert[o], o)
      BY Zenon DEF ServeInv, ValidOrderServesItsCertificate, HasCert
    <3>3. \/ status[o] = "valid" /\ cert'[o] = cert[o]
          \/ \E p \in Procs : pc[p] \in {"record", "rerecord"} /\ ord[p] = o /\ cert'[o] = serial[p]
      BY Zenon, <1>0, <1>5 DEF Rows, Row
    <3> QED BY Zenon, <3>1, <3>2, <3>3
  <2> QED BY Zenon, <1>2, <2>1
<1> QED BY Zenon, <1>4, <1>5 DEF ServeInv, ValidOrderServesItsCertificate


-----------------------------------------------------------------------------
(* Validated names.                                                        *)

\* All authorizations of order o, and every name of ns for it, passed a check.
Fit(o) == \A a \in 1 .. made : aorder[a] = o => a \in proved
NamesProved(o, ns) == \A n \in ns : \E a \in proved : aid[a] = n /\ aorder[a] = o

\* Order o is found ready, and the names ns are taken for its own, with reason: it
\* is complete and its authorizations passed their checks, or the haste is on record.
Judged(o) == o \in hasty \/ (Fit(o) /\ ~BeingBuilt(o))
Vouched(o, ns) == o \in hasty \/ NamesProved(o, ns)

\* What request p holds to be true of its order is.
Own(p) ==
    /\ pc[p] \notin {"refresh", "store"} => seen[p] = "pending"
    /\ pc[p] # "store" => new[p] = "pending"
    /\ seen[p] = "ready" \/ new[p] = "ready" \/ pc[p] \in Decided => Judged(ord[p])
    /\ pc[p] \in Named => Vouched(ord[p], names[p])
    /\ pc[p] = "validate" => az[p] \in proved

Vetted ==
    /\ \A a \in Authzs : astatus[a] = "valid" => a \in proved
    /\ \A p \in Procs : Own(p)
    /\ \A o \in Orders : (status[o] = "ready" => Judged(o)) /\ Vouched(o, csr[o])
    /\ CertifiedNamesWereValidated

\* The same after a step, of what was o and ns before it.
FitStill(o) == \A a \in 1 .. made' : aorder'[a] = o => a \in proved'
BuiltStill(o) == \E q \in Procs : pc'[q] \in Building /\ ord'[q] = o
JudgedStill(o) == o \in hasty' \/ (FitStill(o) /\ ~BuiltStill(o))
VouchedStill(o, ns) ==
    o \in hasty' \/ \A n \in ns : \E a \in proved' : aid'[a] = n /\ aorder'[a] = o

\* An order whose authorizations are all inserted gets no more of them.
LEMMA Complete ==
    ASSUME Counted, TypeInv, [Next]_vars, NEW o \in Orders, status[o] # "none", ~BeingBuilt(o)
    PROVE  ~BuiltStill(o)
<1>1. \A q \in Procs : ~(pc[q] \in Building /\ ord[q] = o)
  BY Zenon DEF BeingBuilt
<1>2. CASE Idles
  BY Zenon, <1>1, <1>2 DEF Idles, local, BuiltStill
<1>3. ASSUME NEW p \in Procs, Takes(p) PROVE ~BuiltStill(o)
  <2>1. ~(pc'[p] \in Building /\ ord'[p] = o)
    BY Zenon, <1>1, <1>3 DEF Takes, Causes, Opens
  <2>2. \A q \in Procs \ {p} : ~(pc'[q] \in Building /\ ord'[q] = o)
    BY Zenon, <1>1, <1>3 DEF Takes, Alone
  <2> QED BY Zenon, <2>1, <2>2 DEF BuiltStill
<1> QED BY Zenon, <1>2, <1>3, StepOf

\* What was found of an order still holds after a step.
Still ==
    /\ \A o \in Orders : (status[o] = "ready" => JudgedStill(o)) /\ VouchedStill(o, csr[o])
    /\ \A q \in Procs :
          /\ seen[q] = "ready" \/ new[q] = "ready" \/ pc[q] \in Decided => JudgedStill(ord[q])
          /\ pc[q] \in Named => VouchedStill(ord[q], names[q])
          /\ pc[q] = "validate" => az[q] \in proved'
    /\ \A c \in issued : VouchedStill(c.order, c.names)

LEMMA StillStep ==
    ASSUME Counted, TypeInv, AuthzTypes', Vetted, Shares, [Next]_vars
    PROVE  Still
<1>0. AuthzTypes /\ RequestTypes /\ References /\ CertTypes /\ Grown /\ Owned /\ hasty \subseteq hasty'
  BY Zenon DEF TypeInv, Shares, Rushes
<1>1. /\ 1 .. made \subseteq Authzs /\ 1 .. made \subseteq 1 .. made' /\ 1 .. made' \subseteq Authzs
      /\ proved \subseteq 1 .. made
  BY <1>0, AcmeAssumption DEF AuthzTypes, Authzs, made, Owned
<1>2. ASSUME NEW o \in Orders PROVE \A a \in Authzs : aorder[a] = o => aorder'[a] = o
  BY Zenon, <1>0, <1>2, AcmeAssumption DEF Owned
<1>3. ASSUME NEW o \in Orders, NEW ns, Vouched(o, ns) PROVE VouchedStill(o, ns)
  <2>1. ASSUME NEW a \in proved, aorder[a] = o PROVE a \in proved' /\ aid'[a] = aid[a] /\ aorder'[a] = o
    BY Zenon, <1>0, <1>1, <1>2, <2>1 DEF Grown
  <2>2. ASSUME NamesProved(o, ns), NEW n \in ns PROVE \E a \in proved' : aid'[a] = n /\ aorder'[a] = o
    <3>1. PICK a \in proved : aid[a] = n /\ aorder[a] = o
      BY Zenon, <2>2 DEF NamesProved
    <3> QED BY <2>1, <3>1
  <2> QED BY Zenon, <1>0, <1>3, <2>2 DEF Vouched, VouchedStill
<1>4. ASSUME NEW o \in Orders, status[o] # "none", Judged(o) PROVE JudgedStill(o)
  <2>1. CASE o \in hasty
    BY Zenon, <1>0, <2>1 DEF JudgedStill
  <2>2. ASSUME Fit(o), ~BeingBuilt(o), NEW a \in 1 .. made', aorder'[a] = o PROVE a \in proved'
    <3>1. ~ Given(o) /\ a \in Authzs
      BY Zenon, <1>1, <2>2, AcmeAssumption DEF Given, BeingBuilt
    <3>2. aorder[a] = o
      BY Zenon, <1>0, <2>2, <3>1 DEF Owned
    <3>3. a \in 1 .. made
      <4>1. aorder[a] # NoOrder
        BY Zenon, <3>2, AcmeAssumption
      <4> QED BY <1>0, <2>2, <3>1, <4>1 DEF References, AuthzTypes, made
    <3> QED BY Zenon, <1>0, <2>2, <3>2, <3>3 DEF Fit, Grown
  <2>3. ASSUME ~BeingBuilt(o) PROVE ~BuiltStill(o)
    BY Zenon, <1>4, <2>3, Complete
  <2> QED BY Zenon, <1>4, <2>1, <2>2, <2>3 DEF Judged, JudgedStill, FitStill
<1>5. \A p \in Procs : Own(p) /\ Refers(p)
  BY Zenon, <1>0 DEF Vetted, References
<1>6. \A o \in Orders : status[o] = "ready" => JudgedStill(o)
  <2>1. "ready" # "none"
    OBVIOUS
  <2> QED BY Zenon, <1>4, <2>1 DEF Vetted
<1>7. \A o \in Orders : VouchedStill(o, csr[o])
  BY Zenon, <1>3 DEF Vetted
<1>8. ASSUME NEW q \in Procs, seen[q] = "ready" \/ new[q] = "ready" \/ pc[q] \in Decided
      PROVE  JudgedStill(ord[q])
  <2>1. pc[q] \in {"refresh", "store"} \union Decided /\ Judged(ord[q])
    BY Zenon, <1>5, <1>8 DEF Own
  <2>2. ord[q] \in Orders
    BY Zenon, <1>5, <2>1 DEF Refers, Ordered, Decided
  <2>3. status[ord[q]] # "none"
    BY Zenon, <1>0, <2>2 DEF References, Unused
  <2> QED BY Zenon, <1>4, <2>1, <2>2, <2>3
<1>9. ASSUME NEW q \in Procs, pc[q] \in Named PROVE VouchedStill(ord[q], names[q])
  <2>1. ord[q] \in Orders
    BY Zenon, <1>5, <1>9 DEF Refers, Ordered, Named
  <2> QED BY Zenon, <1>3, <1>5, <1>9, <2>1 DEF Own
<1>10. \A q \in Procs : pc[q] = "validate" => az[q] \in proved'
  BY Zenon, <1>0, <1>5 DEF Own, Grown
<1>11. \A c \in issued : VouchedStill(c.order, c.names)
  <2>1. ASSUME NEW c \in issued PROVE c.order \in Orders /\ Vouched(c.order, c.names)
    BY Zenon, <1>0 DEF CertTypes, Certs, Vetted, CertifiedNamesWereValidated, Vouched, NamesProved
  <2> QED BY Zenon, <1>3, <2>1
<1> QED BY Zenon, <1>6, <1>7, <1>8, <1>9, <1>10, <1>11 DEF Still

\* What Own asks of request p after a step.
OwnNext(p) ==
    /\ pc'[p] \notin {"refresh", "store"} => seen'[p] = "pending"
    /\ pc'[p] # "store" => new'[p] = "pending"
    /\ seen'[p] = "ready" \/ new'[p] = "ready" \/ pc'[p] \in Decided => JudgedStill(ord'[p])
    /\ pc'[p] \in Named => VouchedStill(ord'[p], names'[p])
    /\ pc'[p] = "validate" => az'[p] \in proved'

LEMMA OwnStep ==
    ASSUME Counted, TypeInv, Vetted, Still, Shares, [Next]_vars, NEW p \in Procs, Causes(p)
    PROVE  OwnNext(p)
<1>0. /\ pc[p] \notin {"refresh", "store"} => seen[p] = "pending"
      /\ pc[p] # "store" => new[p] = "pending"
      /\ seen[p] = "ready" \/ new[p] = "ready" \/ pc[p] \in Decided => JudgedStill(ord[p])
      /\ pc[p] \in Named => VouchedStill(ord[p], names[p])
      /\ \A o \in Orders : (status[o] = "ready" => JudgedStill(o)) /\ VouchedStill(o, csr[o])
  BY Zenon DEF Vetted, Own, Still
<1>1. ASSUME Reads(p), new'[p] = "ready" PROVE JudgedStill(ord[p])
  <2>1. \A a \in AuthzsOf(ord[p]) : astatus[a] = "valid"
    BY Zenon, <1>1 DEF Reads, StatusFrom
  <2>2. \A a \in 1 .. made : astatus[a] = "valid" => a \in proved
    <3>1. 1 .. made \subseteq Authzs
      BY AcmeAssumption DEF TypeInv, AuthzTypes, Authzs, made
    <3> QED BY Zenon, <3>1 DEF Vetted
  <2>3. FitStill(ord[p])
    BY Zenon, <1>1, <2>1, <2>2 DEF Reads, FitStill, AuthzsOf, made
  <2>4. ord[p] \in Orders /\ status[ord[p]] # "none"
    BY Zenon, <1>1 DEF Reads, TypeInv, References, Refers, Unused, Ordered
  <2>5. BeingBuilt(ord[p]) \/ ~BuiltStill(ord[p])
    <3>1. ASSUME NEW o \in Orders, status[o] # "none" PROVE BeingBuilt(o) \/ ~BuiltStill(o)
      BY Zenon, <3>1, Complete
    <3> QED BY Zenon, <2>4, <3>1
  <2> QED BY Zenon, <1>1, <2>3, <2>5 DEF Reads, JudgedStill
<1>2. ASSUME Matches(p) PROVE VouchedStill(ord'[p], names'[p])
  <2>1. ord[p] \in hasty \/ \A a \in AuthzsOf(ord[p]) : a \in proved /\ aorder[a] = ord[p]
    BY Zenon, <1>2 DEF Matches, Vetted, Own, Judged, Fit, AuthzsOf, Decided
  <2> QED BY Zenon, <1>2, <2>1 DEF Matches, VouchedStill, Shares, Rushes
<1>3. ASSUME Lists(p) PROVE VouchedStill(ord'[p], names'[p])
  BY Zenon, <1>0, <1>3 DEF Lists
<1>4. /\ (pc'[p] \notin {"refresh", "store"} => seen'[p] = "pending")
      /\ (seen'[p] = "ready" => JudgedStill(ord'[p]))
  BY Zenon, <1>0 DEF Causes
<1>5. (pc'[p] # "store" => new'[p] = "pending") /\ (new'[p] = "ready" => JudgedStill(ord'[p]))
  BY Zenon, <1>0, <1>1 DEF Causes
<1>6. pc'[p] \in Decided => JudgedStill(ord'[p])
  BY Zenon, <1>0 DEF Causes
<1>7. pc'[p] \in Named => VouchedStill(ord'[p], names'[p])
  BY Zenon, <1>0, <1>2, <1>3 DEF Causes
<1> QED BY Zenon, <1>4, <1>5, <1>6, <1>7 DEF Causes, OwnNext

\* The requests after a step.
LEMMA RequestsStep ==
    ASSUME Counted, TypeInv, Vetted, Still, Shares, [Next]_vars
    PROVE  \A q \in Procs : OwnNext(q)
<1>1. ASSUME NEW q \in Procs, pc'[q] = pc[q], seen'[q] = seen[q], new'[q] = new[q], ord'[q] = ord[q],
             az'[q] = az[q], names'[q] = names[q]
      PROVE  OwnNext(q)
  BY Zenon, <1>1 DEF OwnNext, Vetted, Own, Still
<1>2. ASSUME NEW p \in Procs, Takes(p)
      PROVE  \A q \in Procs : OwnNext(q)
  <2>1. Alone(p) /\ OwnNext(p)
    BY Zenon, <1>2, OwnStep DEF Takes
  <2>2. ASSUME NEW q \in Procs \ {p} PROVE OwnNext(q)
    BY Zenon, <1>1, <2>1 DEF Alone
  <2> QED BY Zenon, <2>1, <2>2
<1>3. CASE Idles
  BY Zenon, <1>1, <1>3 DEF Idles, local
<1> QED BY Zenon, <1>2, <1>3, StepOf

LEMMA VettedStep ==
    ASSUME Counted, TypeInv, AuthzTypes', Vetted, [Next]_vars
    PROVE  Vetted'
<1>1. Shares /\ Rows
  BY Zenon, SharesStep, RowsStep
<1>2. Still
  BY Zenon, <1>1, StillStep
<1>4. (\A a \in Authzs : astatus[a] = "valid" => a \in proved)'
  BY Zenon, <1>1, <1>2 DEF Vetted, Still, Shares, Validated, Grown, Authzs
<1>5. (\A p \in Procs : Own(p))'
  <2>1. \A q \in Procs : OwnNext(q)
    BY Zenon, <1>1, <1>2, RequestsStep
  <2> QED BY Zenon, <2>1 DEF OwnNext, Own, Judged, Fit, BeingBuilt, JudgedStill, FitStill, BuiltStill,
             Vouched, NamesProved, VouchedStill
<1>6. (\A o \in Orders : (status[o] = "ready" => Judged(o)) /\ Vouched(o, csr[o]))'
  <2>1. ASSUME NEW o \in Orders PROVE (status'[o] = "ready" => JudgedStill(o)) /\ VouchedStill(o, csr'[o])
    <3>1. Row(o)
      BY Zenon, <1>1 DEF Rows
    <3>2. status'[o] = "ready" => JudgedStill(o)
      BY Zenon, <1>2, <3>1 DEF Row, Still, Decided
    <3>3. VouchedStill(o, csr'[o])
      BY Zenon, <1>2, <3>1 DEF Row, Still, Named
    <3> QED BY Zenon, <3>2, <3>3
  <2> QED BY Zenon, <2>1 DEF Judged, Fit, BeingBuilt, JudgedStill, FitStill, BuiltStill,
             Vouched, NamesProved, VouchedStill
<1>7. CertifiedNamesWereValidated'
  <2>1. ASSUME NEW c \in issued' PROVE VouchedStill(c.order, c.names)
    <3>1. CASE c \in issued
      BY Zenon, <1>2, <3>1 DEF Still
    <3>2. \/ c \in issued
          \/ \E p \in Procs : \E n \in 1 .. MaxCerts : pc[p] \in {"issue", "renew"} /\
                c = [serial |-> n, order |-> ord[p], names |-> names[p]]
      BY Zenon, <1>1, <2>1 DEF Shares, Signs
    <3>3. CASE c \notin issued
      <4>1. PICK p \in Procs, n \in 1 .. MaxCerts :
               /\ pc[p] \in {"issue", "renew"}
               /\ c = [serial |-> n, order |-> ord[p], names |-> names[p]]
        BY Zenon, <3>2, <3>3
      <4>2. VouchedStill(ord[p], names[p])
        BY Zenon, <1>2, <4>1 DEF Still, Named
      <4>3. c.order = ord[p] /\ c.names = names[p]
        BY Zenon, <4>1
      <4> QED BY Zenon, <4>2, <4>3
    <3> QED BY Zenon, <3>1, <3>3
  <2> QED BY Zenon, <2>1 DEF CertifiedNamesWereValidated, VouchedStill
<1> QED BY Zenon, <1>4, <1>5, <1>6, <1>7 DEF Vetted

-----------------------------------------------------------------------------
(* The theorems.                                                           *)

LEMMA InvInit ==
    ASSUME Counted, Init
    PROVE  TypeInv /\ ServeInv /\ CanceledIsNotRenewed /\ Vetted
<1>1. ServeInv /\ CanceledIsNotRenewed
  BY Zenon DEF Init, ServeInv, Holds, ValidOrderServesItsCertificate, CanceledIsNotRenewed
<1>2. Vetted
  BY Zenon DEF Init, Vetted, Own, Decided, Named, Vouched, NamesProved, CertifiedNamesWereValidated
<1> QED BY Zenon, <1>1, <1>2, TypeInit

LEMMA CancelStep ==
    ASSUME TypeInv, CanceledIsNotRenewed, [Next]_vars
    PROVE  CanceledIsNotRenewed'
BY Zenon, RowsStep DEF CanceledIsNotRenewed, Rows, Row

F == INSTANCE FiniteSetTheorems

LEMMA Counting == Counted
<1>1. \A S : (F!IsFiniteSet(S) <=> IsFiniteSet(S)) /\ F!Cardinality(S) = Cardinality(S)
  BY Zenon DEF F!IsFiniteSet, IsFiniteSet, F!Cardinality, Cardinality
<1>2. IsFiniteSet({})
  BY Zenon, <1>1, F!FS_EmptySet
<1>3. \A S : IsFiniteSet(S) => Cardinality(S) \in Nat
  BY Zenon, <1>1, F!FS_CardinalityType
<1>4. \A S : IsFiniteSet(S) => \A x : IsFiniteSet(S \union {x})
  BY Zenon, <1>1, F!FS_AddElement
<1> QED BY Zenon, <1>2, <1>3, <1>4 DEF Counted

\* Rows, locals and certificates keep the types of their columns and variables,
\* through every interleaving of requests, sweeps and expiries.
THEOREM AcmeTypes == Spec => []TypeOK
<1>1. Init => TypeInv
  BY Zenon, Counting, TypeInit
<1>2. TypeInv /\ [Next]_vars => TypeInv'
  BY Zenon, Counting, TypeStep
<1>3. TypeInv => TypeOK
  <2>1. ASSUME RequestTypes, NEW p \in Procs PROVE todo[p] \subseteq Ids \/ todo[p] \subseteq Authzs
    <3>1. todo[p] \in Todos
      BY Zenon, <2>1 DEF RequestTypes
    <3> QED BY Zenon, <3>1 DEF Todos
  <2> QED BY Zenon, <2>1 DEF TypeInv, OrderTypes, AuthzTypes, RequestTypes, CertTypes, TypeOK
<1> QED BY <1>1, <1>2, <1>3, PTL DEF Spec

\* The serial a valid order serves is that of a certificate issued for this very
\* order, whatever finalizes, renewals, cancellations and recomputations of its
\* status overlap (FinalizeACMEOrder, RenewACMEStarOrder, refreshOrderStatus).
THEOREM ValidOrdersServe == Spec => []ValidOrderServesItsCertificate
<1>1. Init => TypeInv /\ ServeInv
  BY Zenon, Counting, InvInit
<1>2. TypeInv /\ ServeInv /\ [Next]_vars => TypeInv' /\ ServeInv'
  BY Zenon, Counting, TypeStep, ServeStep
<1>3. ServeInv => ValidOrderServesItsCertificate
  BY Zenon DEF ServeInv
<1> QED BY <1>1, <1>2, <1>3, PTL DEF Spec

\* A renewal that was in flight when its STAR order was canceled does not give
\* the order a new deadline (CancelACMEStarOrder, RenewACMEStarOrder).
THEOREM CanceledOrdersRest == Spec => []CanceledIsNotRenewed
<1>1. Init => TypeInv /\ CanceledIsNotRenewed
  BY Zenon, Counting, InvInit
<1>2. TypeInv /\ CanceledIsNotRenewed /\ [Next]_vars => TypeInv' /\ CanceledIsNotRenewed'
  BY Zenon, Counting, TypeStep, CancelStep
<1> QED BY <1>1, <1>2, PTL DEF Spec

\* No step takes an authorization from the order it belongs to: of the orders that
\* found the same pre-authorization one claims it (ClaimACMEPreAuthorization).
THEOREM ClaimsAreFinal == Spec => ClaimedForGood
<1>1. Init => TypeInv
  BY Zenon, Counting, TypeInit
<1>2. TypeInv /\ [Next]_vars => TypeInv'
  BY Zenon, Counting, TypeStep
<1>3. TypeInv /\ [Next]_vars => [\A a \in Authzs : aorder[a] # NoOrder => aorder'[a] = aorder[a]]_vars
  BY Zenon, Counting, SharesStep DEF Shares, Owned
<1> QED BY <1>1, <1>2, <1>3, PTL DEF Spec, ClaimedForGood

\* Every name the CA certifies for an order has passed a control check in one of
\* the order's own authorizations, although handleFinalize decides, lists the
\* names and signs in separate steps and dropped writes leave rows behind; the one
\* exception is an order that a refresh found ready while handleNewOrder was still
\* inserting its authorizations.
THEOREM NamesWereValidated == Spec => []CertifiedNamesWereValidated
<1>1. Init => TypeInv /\ Vetted
  BY Zenon, Counting, InvInit
<1>2. TypeInv /\ Vetted /\ [Next]_vars => TypeInv' /\ Vetted'
  <2>1. ASSUME TypeInv, Vetted, [Next]_vars PROVE TypeInv' /\ Vetted'
    <3>1. TypeInv'
      BY Zenon, <2>1, Counting, TypeStep
    <3>2. AuthzTypes'
      BY Zenon, <3>1 DEF TypeInv
    <3> QED BY Zenon, <2>1, <3>1, <3>2, Counting, VettedStep
  <2> QED BY Zenon, <2>1
<1>3. Vetted => CertifiedNamesWereValidated
  BY Zenon DEF Vetted
<1> QED BY <1>1, <1>2, <1>3, PTL DEF Spec

=============================================================================
