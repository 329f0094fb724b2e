------------------------------ MODULE Rotation ------------------------------
(***************************************************************************)
(* The rollover of an intermediate CA: RotateIntermediate puts a new key   *)
(* beside the old one, ActiveIssuerID sends new leaves to the newest key,  *)
(* CombinedChainPEM publishes the overlapping certificates and             *)
(* RetireIntermediate revokes a drained key under the parent.  Every       *)
(* database call is a transaction of its own and nothing locks the         *)
(* lineage between two of them, so rotations, retirements, the monitor's   *)
(* scan and issuance interleave here call by call.                         *)
(*                                                                         *)
(* CAs are numbered in the order of their creation; CA 1 is the            *)
(* intermediate the lineage starts from, its root is not rotated.  A label *)
(* is a pair of a base name and a rollover generation ("x-r3" is           *)
(* <<"x", 3>>).  The retire_after column is a hint for the operator and    *)
(* left out, like the parent's serial and CRL numbers.                     *)
(***************************************************************************)
EXTENDS Integers, Sequences

CONSTANTS
    Procs,      \* goroutines of handlers and of the monitor, and CLI runs
    Names,      \* the labels an operator may choose with -new-label
    MaxCAs,     \* the most CAs any scenario creates
    MaxLeaves,  \* the most leaves any scenario issues
    Scenarios   \* records [rotators, monitors, retirers, issuers : SUBSET Procs,
                \* holds : BOOLEAN, cas, leaves, errors : the scenario's bounds]

VARIABLES
    conf,     \* the scenario: which process does what, and the bounds
    cas,      \* the rows of cas: [status, succ, pred, label]
    keys,     \* the labels of the keys in the provider
    leaf,     \* the rows of issued_certificates: [ca, asked, status]
    revoked,  \* CA -> its revocation under the parent
    job,      \* process -> the call it is in
    errors    \* failed calls so far

ASSUME BoundsAssumption ==
    /\ MaxCAs \in Nat /\ MaxLeaves \in Nat
    /\ \A s \in Scenarios : /\ s.cas \in 1..MaxCAs /\ s.leaves \in 0..MaxLeaves
                            /\ s.errors \in Nat

vars == <<conf, cas, keys, leaf, revoked, job, errors>>

CAs == DOMAIN cas
Leaves == DOMAIN leaf
Idle == [at |-> "idle"]
Standing == [force |-> FALSE, before |-> -1]   \* not revoked

NewRow(label) == [status |-> "active", succ |-> 0, pred |-> 0, label |-> label]
Derived(label) == <<label[1], label[2] + 1>>

Init ==
    /\ conf \in Scenarios
    /\ cas = <<NewRow(<<"ca", 1>>)>>
    /\ keys = {<<"ca", 1>>}
    /\ leaf = <<>>
    /\ revoked = [c \in 1..MaxCAs |-> Standing]
    /\ job = [p \in Procs |-> Idle]
    /\ errors = 0

Goto(p, at) == job' = [job EXCEPT ![p].at = at]
Return(p) == job' = [job EXCEPT ![p] = Idle]

-----------------------------------------------------------------------------
(* ActiveIssuerID, two reads per link.                                     *)

Walking(kind, c, todo, name) ==
    [at |-> "walk", kind |-> kind, asked |-> c, cur |-> c, next |-> 0,
     todo |-> todo, name |-> name]

\* The walk is over: a rotation loads the CA it found, an issuance signs.
Found(p) == Goto(p, IF job[p].kind = "rotate" THEN "load" ELSE "record")

Walk(p) ==
    /\ job[p].at = "walk"
    /\ LET succ == cas[job[p].cur].succ IN
         IF succ = 0 THEN Found(p)
         ELSE job' = [job EXCEPT ![p].at = "peek", ![p].next = succ]
    /\ UNCHANGED <<conf, cas, keys, leaf, revoked, errors>>

Peek(p) ==
    /\ job[p].at = "peek"
    /\ IF cas[job[p].next].status = "retired" THEN Found(p)
       ELSE job' = [job EXCEPT ![p].at = "walk", ![p].cur = job[p].next]
    /\ UNCHANGED <<conf, cas, keys, leaf, revoked, errors>>

\* What the walk answers when nothing moves under it.
ActiveIssuerID(id) ==
    LET go[c \in CAs] == IF \/ cas[c].succ = 0
                            \/ cas[cas[c].succ].status = "retired"
                         THEN c ELSE go[cas[c].succ]
    IN  go[id]

-----------------------------------------------------------------------------
(* The published bundle.                                                   *)

\* Mutant: a superseded CA is left out like a retired one.
ActiveLineage(id) == {c \in CAs : c = id \/ (cas[c].status = "active" /\ cas[c].pred = id)}

\* rolloverLineage, which CombinedChainPEM publishes: everything linked to
\* the CA, through retired rows too, that is not retired.
rolloverLineage(id) ==
    LET linked[n \in 0..Len(cas)] ==
          IF n = 0 THEN {id}
          ELSE linked[n - 1] \union
               (UNION {{cas[c].pred, cas[c].succ} : c \in linked[n - 1]} \ {0})
    IN  {c \in linked[Len(cas)] : cas[c].status # "retired"}

-----------------------------------------------------------------------------
(* RotateIntermediate, called by an operator or by the monitor's scan.     *)

\* The next CA of the scan, or the end of the call.
Done(p) ==
    IF job[p].todo = {} THEN Return(p)
    ELSE \E c \in job[p].todo :
            job' = [job EXCEPT ![p] = Walking("rotate", c, job[p].todo \ {c}, job[p].name)]

\* An operator names any CA of the lineage, and a label or none.
StartRotate(p) ==
    /\ p \in conf.rotators /\ job[p] = Idle /\ Len(cas) < conf.cas
    /\ \E c \in CAs, name \in Names \union {""} :
          job' = [job EXCEPT ![p] = Walking("rotate", c, {}, name)]
    /\ UNCHANGED <<conf, cas, keys, leaf, revoked, errors>>

\* AutoRotateDue: one listing picks the active CAs close to expiry; each is
\* then rotated in turn, whatever has become of it.
AutoRotateDue(p) ==
    /\ p \in conf.monitors /\ job[p] = Idle /\ Len(cas) < conf.cas
    /\ \E due \in SUBSET {c \in CAs : cas[c].status = "active"} : \E c \in due :
          job' = [job EXCEPT ![p] = Walking("rotate", c, due \ {c}, "")]
    /\ UNCHANGED <<conf, cas, keys, leaf, revoked, errors>>

\* GetCA on the CA found, and its guard.
LoadOld(p) ==
    /\ job[p].at = "load"
    /\ IF cas[job[p].cur].status = "retired" THEN Done(p) ELSE Goto(p, "label")
    /\ UNCHANGED <<conf, cas, keys, leaf, revoked, errors>>

NewLabel(p) == IF job[p].name = "" THEN Derived(cas[job[p].cur].label) ELSE <<job[p].name, 1>>

\* GetCAByLabel: the label is free in the database.
CheckLabel(p) ==
    /\ job[p].at = "label"
    /\ IF \E c \in CAs : cas[c].label = NewLabel(p) THEN Done(p) ELSE Goto(p, "find")
    /\ UNCHANGED <<conf, cas, keys, leaf, revoked, errors>>

\* GenerateKey first looks for a key of that label on the token ...
FindKey(p) ==
    /\ job[p].at = "find"
    /\ IF NewLabel(p) \in keys THEN Done(p) ELSE Goto(p, "generate")
    /\ UNCHANGED <<conf, cas, keys, leaf, revoked, errors>>

\* ... and then makes it.
GenerateKey(p) ==
    /\ job[p].at = "generate"
    /\ keys' = keys \union {NewLabel(p)}
    /\ Goto(p, "persist")
    /\ UNCHANGED <<conf, cas, leaf, revoked, errors>>

\* The certificate is signed and persistCA inserts the row, active at once.
PersistCA(p) ==
    /\ job[p].at = "persist" /\ Len(cas) < conf.cas
    /\ cas' = Append(cas, NewRow(NewLabel(p)))
    /\ job' = [job EXCEPT ![p].at = "link", ![p].next = Len(cas) + 1]
    /\ UNCHANGED <<conf, keys, leaf, revoked, errors>>

\* Mutant: the new CA is not pointed back at its predecessor.
MarkOldRotated(old, new) ==
    cas' = [cas EXCEPT ![old].status = "superseded", ![old].succ = new]

\* One transaction, whatever the rows hold by now.
MarkCARotated(old, new) ==
    cas' = [cas EXCEPT ![old].status = "superseded", ![old].succ = new, ![new].pred = old]

Link(p) ==
    /\ job[p].at = "link"
    /\ MarkCARotated(job[p].cur, job[p].next)
    /\ Done(p)
    /\ UNCHANGED <<conf, keys, leaf, revoked, errors>>

-----------------------------------------------------------------------------
(* RetireIntermediate.                                                     *)

\* Mutant: the leaves asked for under this CA, wherever they were signed.
OutstandingAsked(c) == {l \in Leaves : leaf[l].asked = c /\ leaf[l].status \in {"valid", "released"}}

\* Neither expired nor in the revocation store, where a hold is a revocation.
OutstandingLeaves(c) == {l \in Leaves : leaf[l].ca = c /\ leaf[l].status \in {"valid", "released"}}

Retiring(at, c, force) == [at |-> at, kind |-> "retire", cur |-> c,
                           force |-> force, before |-> Len(leaf)]

\* resolveSuperseded: the CA itself, or the predecessor of an active one.
StartRetire(p) ==
    /\ p \in conf.retirers /\ job[p] = Idle
    /\ \E c \in CAs, force \in BOOLEAN :
          \/ /\ cas[c].status = "superseded"
             /\ job' = [job EXCEPT ![p] = Retiring("count", c, force)]
          \/ /\ cas[c].status = "active" /\ cas[c].pred # 0
             /\ job' = [job EXCEPT ![p] = Retiring("pred", cas[c].pred, force)]
    /\ UNCHANGED <<conf, cas, keys, leaf, revoked, errors>>

LoadPredecessor(p) ==
    /\ job[p].at = "pred"
    /\ IF cas[job[p].cur].status = "superseded" THEN Goto(p, "count") ELSE Return(p)
    /\ UNCHANGED <<conf, cas, keys, leaf, revoked, errors>>

CountOutstanding(p) ==
    /\ job[p].at = "count"
    /\ IF OutstandingLeaves(job[p].cur) # {} /\ ~job[p].force
       THEN Return(p) ELSE Goto(p, "revoke")
    /\ UNCHANGED <<conf, cas, keys, leaf, revoked, errors>>

\* Under the parent; of two revocations the first is the one that counts.
RevokeUnderParent(p) ==
    /\ job[p].at = "revoke"
    /\ revoked' = [revoked EXCEPT ![job[p].cur] =
                     IF @ = Standing THEN [force |-> job[p].force, before |-> job[p].before] ELSE @]
    /\ Goto(p, "retire")
    /\ UNCHANGED <<conf, cas, keys, leaf, errors>>

\* SetCAStatus; the CRL that follows is read from the revocations.
SetRetired(p) ==
    /\ job[p].at = "retire"
    /\ cas' = [cas EXCEPT ![job[p].cur].status = "retired"]
    /\ Return(p)
    /\ UNCHANGED <<conf, keys, leaf, revoked, errors>>

-----------------------------------------------------------------------------
(* Leaves.                                                                 *)

\* IssueCertificate follows the lineage from the CA the client knows.
StartIssue(p) ==
    /\ p \in conf.issuers /\ job[p] = Idle /\ Len(leaf) < conf.leaves
    /\ \E c \in CAs : job' = [job EXCEPT ![p] = Walking("issue", c, {}, "")]
    /\ UNCHANGED <<conf, cas, keys, leaf, revoked, errors>>

\* RenewCertificate does not: it signs with the CA that signed the original,
\* which may have expired but is not revoked.
StartRenew(p) ==
    /\ p \in conf.issuers /\ job[p] = Idle /\ Len(leaf) < conf.leaves
    /\ \E l \in Leaves :
          /\ leaf[l].status \in {"valid", "released", "expired"}
          /\ job' = [job EXCEPT ![p] =
                       [Walking("renew", leaf[l].ca, {}, "") EXCEPT !.at = "record"]]
    /\ UNCHANGED <<conf, cas, keys, leaf, revoked, errors>>

\* Signed, no status being looked at, and recorded.
RecordIssuedCertificate(p) ==
    /\ job[p].at = "record" /\ Len(leaf) < conf.leaves
    /\ leaf' = Append(leaf, [ca |-> job[p].cur, asked |-> job[p].asked, status |-> "valid"])
    /\ Return(p)
    /\ UNCHANGED <<conf, cas, keys, revoked, errors>>

\* Time passes, or an operator revokes a leaf for good, or puts it on hold
\* and releases it.
LeafStatus(l, from, to) ==
    /\ leaf[l].status \in from
    /\ leaf' = [leaf EXCEPT ![l].status = to]
    /\ UNCHANGED <<conf, cas, keys, revoked, job, errors>>

Expire(l) == LeafStatus(l, {"valid", "released"}, "expired")
RevokeLeaf(l) == LeafStatus(l, {"valid", "released", "held"}, "revoked")
HoldLeaf(l) == conf.holds /\ LeafStatus(l, {"valid", "released"}, "held")
ReleaseLeaf(l) == LeafStatus(l, {"held"}, "released")

\* Any call may fail, or its process may stop: what was written stays.
Fail(p) ==
    /\ errors < conf.errors
    /\ job[p] # Idle
    /\ errors' = errors + 1
    /\ IF job[p].kind = "rotate" THEN Done(p) ELSE Return(p)
    /\ UNCHANGED <<conf, cas, keys, leaf, revoked>>

Next ==
    \/ \E p \in Procs :
         \/ StartRotate(p) \/ AutoRotateDue(p) \/ StartRetire(p) \/ StartIssue(p) \/ StartRenew(p)
         \/ Walk(p) \/ Peek(p)
         \/ LoadOld(p) \/ CheckLabel(p) \/ FindKey(p) \/ GenerateKey(p) \/ PersistCA(p) \/ Link(p)
         \/ LoadPredecessor(p) \/ CountOutstanding(p) \/ RevokeUnderParent(p) \/ SetRetired(p)
         \/ RecordIssuedCertificate(p) \/ Fail(p)
    \/ \E l \in Leaves : Expire(l) \/ RevokeLeaf(l) \/ HoldLeaf(l) \/ ReleaseLeaf(l)

Spec == Init /\ [][Next]_vars

-----------------------------------------------------------------------------
(* Properties.                                                             *)

Labels == (Names \union {"ca"}) \X Nat
Row == [status : {"active", "superseded", "retired"}, succ : Nat, pred : Nat, label : Labels]
Leaf == [ca : Nat, asked : Nat, status : {"valid", "held", "released", "revoked", "expired"}]

Rotating == [at : {"walk", "peek", "load", "label", "find", "generate", "persist", "link",
                   "record"},
             kind : {"rotate", "issue", "renew"}, asked : Nat, cur : Nat, next : Nat,
             todo : SUBSET Nat, name : Names \union {""}]
Retirement == [at : {"pred", "count", "revoke", "retire"}, kind : {"retire"}, cur : Nat,
               force : BOOLEAN, before : Nat]
CARevocation == [force : BOOLEAN, before : Nat]

\* Types of the rows and of the calls in progress.
TypeOK ==
    /\ conf \in Scenarios
    /\ cas \in Seq(Row) /\ Len(cas) \in 1..MaxCAs
    /\ keys \subseteq Labels
    /\ leaf \in Seq(Leaf) /\ Len(leaf) \in 0..MaxLeaves
    /\ revoked \in [1..MaxCAs -> {Standing} \union CARevocation]
    /\ job \in [Procs -> {Idle} \union Rotating \union Retirement]
    /\ errors \in 0..conf.errors

\* However rotations, retirements and failures overlap, the lineage stays
\* one that ActiveIssuerID and rolloverLineage can walk: links lead to newer
\* CAs and back, a CA is active exactly while nothing succeeds it, and no
\* active CA is revoked under the parent (MarkCARotated, resolveSuperseded).
LineageIsSound ==
    \A c \in CAs :
       /\ cas[c].succ # 0 => cas[c].succ > c /\ cas[cas[c].succ].pred = c
       /\ (cas[c].status = "active") = (cas[c].succ = 0)
       /\ cas[c].status = "active" => revoked[c] = Standing

\* A rotation has replaced a link: two overlapped, or the CA was resolved as
\* the active one because its successor was retired.
Forked == \E c \in CAs : cas[c].pred # 0 /\ cas[cas[c].pred].succ # c

Outstanding(l) == leaf[l].status \in {"valid", "released"}

\* The overlap window: until its issuer is retired, a leaf validates with
\* the bundle published for the CA its owner asked, at every step of a
\* rotation, unless a link was replaced (CombinedChainPEM, IssueCertificate).
BundleCoversLeaf ==
    Forked \/ \A l \in Leaves :
                 Outstanding(l) /\ cas[leaf[l].ca].status # "retired"
                     => leaf[l].ca \in rolloverLineage(leaf[l].asked)

\* A leaf that was recorded when an unforced retirement began, and never
\* was on hold, outlives it (RetireIntermediate's live check).
RetirementSparesLeaves ==
    \A l \in Leaves : LET r == revoked[leaf[l].ca] IN
       leaf[l].status = "valid" /\ r # Standing /\ ~r.force => l > r.before

-----------------------------------------------------------------------------
(* Claims of the documentation that the code does not keep.                *)

\* ActiveIssuerID leads from every CA of the lineage to an active one:
\* "certificates are always minted under the newest key" (ca/rotation.go).
ResolvesToActive == \A c \in CAs : cas[ActiveIssuerID(c)].status = "active"

\* "It is always safe: the old chain cannot break as long as you retire
\* without -force" (docs/ca/rotation.md).
OldChainCannotBreak ==
    \A l \in Leaves : LET r == revoked[leaf[l].ca] IN
       Outstanding(l) => r = Standing \/ r.force

\* A retired CA stays retired: it "neither issues nor is expected to
\* validate new chains" (models.CAStatusRetired).
RetiredIsFinal ==
    [][\A c \in CAs : cas[c].status = "retired" => cas'[c].status = "retired"]_vars

\* "A CA with label ... already exists; choose a unique -new-label".
LabelsAreUnique == \A c, d \in CAs : cas[c].label = cas[d].label => c = d

\* "A CA that cannot rotate this cycle is retried on the next tick": the
\* label the retry derives is not taken by what the failed one left behind.
RetryCanRotate ==
    (\A p \in Procs : job[p] = Idle) =>
       \A c \in CAs : cas[c].status = "active" => Derived(cas[c].label) \notin keys

\* The bundle covers a leaf without the exception for replaced links.
BundleAlwaysCoversLeaf ==
    \A l \in Leaves : Outstanding(l) /\ cas[leaf[l].ca].status # "retired"
                          => leaf[l].ca \in rolloverLineage(leaf[l].asked)
=============================================================================
