-------------------------- MODULE KeyRotationProofs --------------------------
(***************************************************************************)
(* The two rotations of keys: the rollover of an intermediate CA, and the  *)
(* versions of the KEK that wraps the stored secrets.                      *)
(*                                                                         *)
(* For any number of CAs, leaves, processes and failing calls, the lineage *)
(* of an intermediate stays sound and an unforced retirement spares the    *)
(* leaves recorded before it.  For any values, number of requests, KEK     *)
(* versions, secret versions, secrets and any history depth, the lineage   *)
(* of a KEK stays linear and the registry keeps what was put into it.      *)
(***************************************************************************)
EXTENDS Rotation, StoredSecrets, TLAPS

-----------------------------------------------------------------------------
(* The tables are sequences: an UPDATE replaces a row, an INSERT adds one. *)

LEMMA Replaced ==
    ASSUME NEW S, NEW s \in Seq(S), NEW n \in 1..Len(s), NEW e \in S
    PROVE  LET r == [s EXCEPT ![n] = e]
           IN  /\ r \in Seq(S) /\ Len(r) = Len(s)
               /\ \A i \in 1..Len(s) : r[i] = IF i = n THEN e ELSE s[i]
  OBVIOUS

LEMMA Appended ==
    ASSUME NEW S, NEW s \in Seq(S), NEW e \in S
    PROVE  LET r == Append(s, e)
           IN  /\ r \in Seq(S) /\ Len(r) = Len(s) + 1 /\ r[Len(s) + 1] = e
               /\ \A i \in 1..Len(s) : r[i] = s[i]
  OBVIOUS

Jobs == {Idle} \union Rotating \union Retirement

\* What a row, a leaf or a revocation names exists.
RefsExist ==
    /\ \A c \in CAs : cas[c].succ \in {0} \union CAs /\ cas[c].pred \in {0} \union CAs
    /\ \A l \in Leaves : leaf[l].ca \in CAs
    /\ \A c \in 1..MaxCAs : revoked[c] # Standing => c \in CAs /\ revoked[c].before <= Len(leaf)

\* What a call names exists; a retirement past its checks works on a CA that
\* has been replaced, and an unforced one has seen no leaf of it that is still
\* valid.
Founded(j) ==
    /\ j \in Rotating =>
          /\ j.cur \in CAs /\ j.next \in {0} \union CAs /\ j.todo \subseteq CAs
          /\ j.at = "peek" => j.next # 0
    /\ j \in Retirement =>
          /\ j.cur \in CAs /\ j.before <= Len(leaf)
          /\ j.at \in {"count", "revoke", "retire"} => cas[j.cur].status # "active"
          /\ j.at = "revoke" /\ ~j.force =>
               \A l \in 1..j.before : leaf[l].ca = j.cur => leaf[l].status # "valid"

\* The CA a rotation is about to link is newer than the one it replaces, has
\* no predecessor yet and belongs to that rotation alone.
Linking ==
    \A p \in Procs : job[p].at = "link" =>
       /\ job[p].next \in CAs /\ job[p].cur < job[p].next /\ cas[job[p].next].pred = 0
       /\ \A q \in Procs : job[q].at = "link" /\ job[q].next = job[p].next => q = p

\* The inductive invariant.  Neither property is inductive by itself: Link
\* and SetRetired write without looking, so what their calls have seen has to
\* be carried along.
IInv ==
    /\ TypeOK /\ RefsExist /\ Linking
    /\ \A p \in Procs : Founded(job[p])
    /\ LineageIsSound /\ RetirementSparesLeaves

-----------------------------------------------------------------------------
(* Calls.                                                                  *)

\* The program point of a call tells which kind of record it is.
LEMMA Shape ==
    ASSUME NEW j \in Jobs
    PROVE  /\ j.at = "idle" => j = Idle
           /\ j.at \in {"walk", "peek", "load", "label", "find", "generate", "persist", "link",
                        "record"} => j \in Rotating
           /\ j.at \in {"pred", "count", "revoke", "retire"} => j \in Retirement
           /\ j \in Rotating => j \notin Retirement /\ j # Idle
           /\ j \in Retirement => j # Idle
<1>1. Idle.at = "idle"
  BY Zenon DEF Idle
<1>2. j \in Rotating => j.at \in {"walk", "peek", "load", "label", "find", "generate", "persist",
                                 "link", "record"}
  BY Zenon DEF Rotating
<1>3. j \in Retirement => j.at \in {"pred", "count", "revoke", "retire"}
  BY Zenon DEF Retirement
<1> QED BY Zenon, <1>1, <1>2, <1>3 DEF Jobs

\* A step that changes nothing but the keys, the errors and the call of one
\* process, which it does not bring to a link, keeps the invariant.
LEMMA Quiet ==
    ASSUME IInv, NEW p \in Procs, NEW j \in Jobs, job' = [job EXCEPT ![p] = j],
           Founded(j), j.at # "link", UNCHANGED <<conf, cas, leaf, revoked>>,
           keys' \subseteq Labels, errors' \in 0..conf.errors
    PROVE  IInv'
<1>1. TypeOK'
  BY Zenon DEF IInv, TypeOK, Jobs
<1>2. RefsExist'
  BY Zenon DEF IInv, RefsExist, CAs, Leaves
<1>3. \A q \in Procs : job'[q] = IF q = p THEN j ELSE job[q]
  BY Zenon DEF IInv, TypeOK
<1>4. Linking'
  BY <1>3 DEF IInv, Linking, CAs
<1>5. (\A q \in Procs : Founded(job[q]))'
  BY <1>3 DEF IInv, Founded, CAs
<1>6. LineageIsSound' /\ RetirementSparesLeaves'
  BY Zenon DEF IInv, LineageIsSound, RetirementSparesLeaves, CAs, Leaves
<1> QED BY Zenon, <1>1, <1>2, <1>4, <1>5, <1>6 DEF IInv

\* The end of a call.
LEMMA ReturnStep ==
    ASSUME IInv, NEW p \in Procs, Return(p), UNCHANGED <<conf, cas, leaf, revoked>>,
           keys' \subseteq Labels, errors' \in 0..conf.errors
    PROVE  IInv'
<1>1. Idle \in Jobs /\ Idle.at = "idle"
  BY Zenon DEF Jobs, Idle
<1>2. Founded(Idle)
  BY Zenon, <1>1, Shape DEF Founded
<1> QED BY Zenon, <1>1, <1>2, Quiet DEF Return

\* The rows are numbered from one.
LEMMA Numbered == TypeOK => /\ CAs = 1..Len(cas) /\ Len(cas) \in Nat
                            /\ CAs \subseteq 1..MaxCAs /\ CAs \subseteq Nat
                            /\ Leaves = 1..Len(leaf) /\ Len(leaf) \in Nat
BY BoundsAssumption DEF TypeOK, CAs, Leaves

\* A row of a CA is one.
LEMMA RowType == ASSUME TypeOK, NEW c \in CAs PROVE cas[c] \in Row
BY Numbered DEF TypeOK

RotatingAt == {"walk", "peek", "load", "label", "find", "generate", "persist", "link", "record"}

\* The three ways in which a call of that kind is updated.
LEMMA AtField ==
    ASSUME NEW r \in Rotating, NEW at \in RotatingAt
    PROVE  LET j == [r EXCEPT !.at = at]
           IN  /\ j \in Rotating /\ j.at = at /\ j.cur = r.cur /\ j.next = r.next
               /\ j.todo = r.todo /\ j.name = r.name
BY Zenon DEF Rotating, RotatingAt

\* The successor it has read.
LEMMA NextField ==
    ASSUME NEW r \in Rotating, NEW next \in Nat
    PROVE  LET j == [r EXCEPT !.next = next]
           IN  j \in Rotating /\ j.at = r.at /\ j.cur = r.cur /\ j.next = next /\ j.todo = r.todo
BY Zenon DEF Rotating

\* The CA it has reached.
LEMMA CurField ==
    ASSUME NEW r \in Rotating, NEW cur \in Nat
    PROVE  LET j == [r EXCEPT !.cur = cur]
           IN  j \in Rotating /\ j.at = r.at /\ j.cur = cur /\ j.next = r.next /\ j.todo = r.todo
BY Zenon DEF Rotating

\* A step to a call that walks, rotates or issues, short of its link.
LEMMA RotatingStep ==
    ASSUME IInv, NEW p \in Procs, NEW j \in Rotating, j.cur \in CAs,
           j.next \in {0} \union CAs, j.todo \subseteq CAs, j.at # "link",
           j.at = "peek" => j.next # 0, job' = [job EXCEPT ![p] = j],
           UNCHANGED <<conf, cas, leaf, revoked>>, keys' \subseteq Labels,
           errors' \in 0..conf.errors
    PROVE  IInv'
<1>1. j \in Jobs /\ j \notin Retirement
  BY Zenon, Shape DEF Jobs
<1>2. Founded(j)
  BY Zenon, <1>1 DEF Founded
<1> QED BY Zenon, <1>1, <1>2, Quiet

\* The start of a walk from a CA that exists.
LEMMA WalkingStep ==
    ASSUME IInv, NEW p \in Procs, NEW c \in CAs, NEW todo \in SUBSET CAs,
           NEW kind \in {"rotate", "issue", "renew"}, NEW name \in Names \union {""},
           job' = [job EXCEPT ![p] = Walking(kind, c, todo, name)],
           UNCHANGED <<conf, cas, leaf, revoked>>,
           keys' \subseteq Labels, errors' \in 0..conf.errors
    PROVE  IInv'
<1> DEFINE j == Walking(kind, c, todo, name)
<1>1. CAs \subseteq Nat
  BY Zenon, Numbered DEF IInv
<1>2. c \in Nat /\ todo \in SUBSET Nat
  BY Zenon, <1>1
<1>3. j \in Rotating /\ j.cur = c /\ j.next = 0 /\ j.todo = todo /\ j.at = "walk"
  BY Zenon, <1>2 DEF Walking, Rotating
<1>4. job' = [job EXCEPT ![p] = j]
  BY Zenon
<1> HIDE DEF j
<1> QED BY Zenon, <1>3, <1>4, RotatingStep

\* The end of a rotation: the next CA of the scan, or the end of the call.
LEMMA DoneStep ==
    ASSUME IInv, NEW p \in Procs, job[p] \in Rotating, Done(p),
           UNCHANGED <<conf, cas, leaf, revoked>>,
           keys' \subseteq Labels, errors' \in 0..conf.errors
    PROVE  IInv'
<1>1. CASE job[p].todo = {}
  BY Zenon, <1>1, ReturnStep DEF Done
<1>2. CASE job[p].todo # {}
  <2>1. PICK c \in job[p].todo :
           job' = [job EXCEPT ![p] = Walking("rotate", c, job[p].todo \ {c}, job[p].name)]
    BY Zenon, <1>2 DEF Done
  <2>2. job[p].todo \subseteq CAs /\ job[p].name \in Names \union {""}
    BY Zenon DEF IInv, Founded, Rotating
  <2>3. c \in CAs /\ job[p].todo \ {c} \in SUBSET CAs
    BY Zenon, <2>2
  <2> QED BY Zenon, <2>1, <2>2, <2>3, WalkingStep
<1> QED BY Zenon, <1>1, <1>2

\* A move to another program point of a rotation or an issuance.
LEMMA Move ==
    ASSUME IInv, NEW p \in Procs, job[p] \in Rotating, NEW at \in RotatingAt \ {"peek", "link"},
           Goto(p, at), UNCHANGED <<conf, cas, leaf, revoked>>,
           keys' \subseteq Labels, errors' \in 0..conf.errors
    PROVE  IInv'
<1> DEFINE j == [job[p] EXCEPT !.at = at]
<1>1. /\ j \in Rotating /\ j.at = at /\ j.cur = job[p].cur /\ j.next = job[p].next
      /\ j.todo = job[p].todo
  BY Zenon, AtField
<1>2. job' = [job EXCEPT ![p] = j]
  BY Zenon DEF Goto
<1> HIDE DEF j
<1>3. j.cur \in CAs /\ j.next \in {0} \union CAs /\ j.todo \subseteq CAs /\ j.at \notin {"peek", "link"}
  BY Zenon, <1>1 DEF IInv, Founded
<1> QED BY Zenon, <1>1, <1>2, <1>3, RotatingStep

-----------------------------------------------------------------------------
(* The steps that only move a call.                                        *)

\* The label of the new key is one.
LEMMA LabelType ==
    ASSUME IInv, NEW p \in Procs, job[p] \in Rotating
    PROVE  NewLabel(p) \in Labels
<1>1. job[p].cur \in CAs /\ job[p].name \in Names \union {""}
  BY Zenon DEF IInv, Founded, Rotating
<1>2. cas[job[p].cur].label \in Labels
  BY Zenon, <1>1, RowType DEF IInv, Row
<1>3. Derived(cas[job[p].cur].label) \in Labels
  BY <1>2 DEF Derived, Labels
<1>4. job[p].name # "" => <<job[p].name, 1>> \in Labels
  BY Zenon, <1>1 DEF Labels
<1> QED BY Zenon, <1>3, <1>4 DEF NewLabel

\* The starts of the calls.
LEMMA Starts ==
    ASSUME IInv, NEW p \in Procs,
           StartRotate(p) \/ AutoRotateDue(p) \/ StartIssue(p) \/ StartRenew(p)
    PROVE  IInv'
<1>1. keys' \subseteq Labels /\ errors' \in 0..conf.errors /\ {} \in SUBSET CAs
      /\ UNCHANGED <<conf, cas, leaf, revoked>>
  BY Zenon DEF IInv, TypeOK, StartRotate, AutoRotateDue, StartIssue, StartRenew
<1>2. CASE StartRotate(p)
  <2>1. PICK c \in CAs, name \in Names \union {""} :
           job' = [job EXCEPT ![p] = Walking("rotate", c, {}, name)]
    BY Zenon, <1>2 DEF StartRotate
  <2> QED BY Zenon, <1>1, <2>1, WalkingStep
<1>3. CASE AutoRotateDue(p)
  <2>1. PICK due \in SUBSET CAs : \E c \in due :
           job' = [job EXCEPT ![p] = Walking("rotate", c, due \ {c}, "")]
    BY Zenon, <1>3 DEF AutoRotateDue
  <2>2. PICK c \in due : job' = [job EXCEPT ![p] = Walking("rotate", c, due \ {c}, "")]
    BY Zenon, <2>1
  <2>3. c \in CAs /\ due \ {c} \in SUBSET CAs /\ "" \in Names \union {""}
    BY Zenon
  <2> QED BY Zenon, <1>1, <2>2, <2>3, WalkingStep
<1>4. CASE StartIssue(p)
  <2>1. PICK c \in CAs : job' = [job EXCEPT ![p] = Walking("issue", c, {}, "")]
    BY Zenon, <1>4 DEF StartIssue
  <2>2. "" \in Names \union {""}
    BY Zenon
  <2> QED BY Zenon, <1>1, <2>1, <2>2, WalkingStep
<1>5. CASE StartRenew(p)
  <2>1. PICK l \in Leaves : job' = [job EXCEPT ![p] =
                              [Walking("renew", leaf[l].ca, {}, "") EXCEPT !.at = "record"]]
    BY Zenon, <1>5 DEF StartRenew
  <2> DEFINE c == leaf[l].ca
             j == [Walking("renew", c, {}, "") EXCEPT !.at = "record"]
  <2>2. c \in CAs /\ c \in Nat
    BY Zenon, Numbered DEF IInv, RefsExist
  <2> HIDE DEF c
  <2>3. j \in Rotating /\ j.cur = c /\ j.next = 0 /\ j.todo = {} /\ j.at = "record"
    BY Zenon, <2>2 DEF Walking, Rotating
  <2>4. job' = [job EXCEPT ![p] = j]
    BY Zenon, <2>1 DEF c
  <2> HIDE DEF j
  <2> QED BY Zenon, <1>1, <2>2, <2>3, <2>4, RotatingStep
<1> QED BY Zenon, <1>2, <1>3, <1>4, <1>5

\* ActiveIssuerID.
LEMMA Walks ==
    ASSUME IInv, NEW p \in Procs, Walk(p) \/ Peek(p)
    PROVE  IInv'
<1>1. keys' \subseteq Labels /\ errors' \in 0..conf.errors
      /\ UNCHANGED <<conf, cas, leaf, revoked>>
  BY Zenon DEF IInv, TypeOK, Walk, Peek
<1>2. job[p] \in Rotating
  BY Zenon, Shape DEF IInv, TypeOK, Jobs, Walk, Peek
<1>3. /\ job[p].cur \in CAs /\ job[p].next \in {0} \union CAs /\ job[p].todo \subseteq CAs
      /\ (job[p].at = "peek" => job[p].next # 0) /\ CAs \subseteq Nat
  BY Zenon, <1>2, Numbered DEF IInv, Founded
<1>4. ASSUME Found(p) PROVE IInv'
  BY Zenon, <1>1, <1>2, <1>4, Move DEF Found, RotatingAt
<1>5. CASE Walk(p) /\ ~Found(p)
  <2> DEFINE succ == cas[job[p].cur].succ
             i == [job[p] EXCEPT !.at = "peek"]
             j == [i EXCEPT !.next = succ]
  <2>1. succ \in {0} \union CAs /\ succ \in Nat
    BY Zenon, <1>3, RowType DEF IInv, RefsExist, Row
  <2>2. succ # 0 /\ job' = [job EXCEPT ![p] = j]
    BY Zenon, <1>5 DEF Walk
  <2> HIDE DEF succ
  <2>3. i \in Rotating /\ i.at = "peek" /\ i.cur = job[p].cur /\ i.todo = job[p].todo
    BY Zenon, <1>2, AtField DEF RotatingAt
  <2> HIDE DEF i
  <2>4. j \in Rotating /\ j.at = "peek" /\ j.cur = i.cur /\ j.next = succ /\ j.todo = i.todo
    BY Zenon, <2>1, <2>3, NextField
  <2> HIDE DEF j
  <2> QED BY Zenon, <1>1, <1>3, <2>1, <2>2, <2>3, <2>4, RotatingStep
<1>6. CASE Peek(p) /\ ~Found(p)
  <2> DEFINE next == job[p].next
             i == [job[p] EXCEPT !.at = "walk"]
             j == [i EXCEPT !.cur = next]
  <2>1. next \in CAs /\ next \in Nat
    BY Zenon, <1>3, <1>6 DEF Peek
  <2>2. job' = [job EXCEPT ![p] = j]
    BY Zenon, <1>6 DEF Peek
  <2>3. i \in Rotating /\ i.at = "walk" /\ i.next = job[p].next /\ i.todo = job[p].todo
    BY Zenon, <1>2, AtField DEF RotatingAt
  <2> HIDE DEF i, next
  <2>4. j \in Rotating /\ j.at = "walk" /\ j.cur = next /\ j.next = i.next /\ j.todo = i.todo
    BY Zenon, <2>1, <2>3, CurField
  <2> HIDE DEF j
  <2> QED BY Zenon, <1>1, <1>3, <2>1, <2>2, <2>3, <2>4, RotatingStep
<1> QED BY Zenon, <1>4, <1>5, <1>6

\* RotateIntermediate up to the new key.
LEMMA Rotates ==
    ASSUME IInv, NEW p \in Procs,
           LoadOld(p) \/ CheckLabel(p) \/ FindKey(p) \/ GenerateKey(p)
    PROVE  IInv'
<1>1. job[p] \in Rotating
  BY Zenon, Shape DEF IInv, TypeOK, Jobs, LoadOld, CheckLabel, FindKey, GenerateKey
<1>2. keys' \subseteq Labels
  BY <1>1, LabelType DEF IInv, TypeOK, LoadOld, CheckLabel, FindKey, GenerateKey
<1>3. errors' \in 0..conf.errors /\ UNCHANGED <<conf, cas, leaf, revoked>>
  BY Zenon DEF IInv, TypeOK, LoadOld, CheckLabel, FindKey, GenerateKey
<1>4. ASSUME Done(p) PROVE IInv'
  BY Zenon, <1>1, <1>2, <1>3, <1>4, DoneStep
<1>5. ASSUME NEW at \in {"label", "find", "generate", "persist"}, Goto(p, at) PROVE IInv'
  BY Zenon, <1>1, <1>2, <1>3, <1>5, Move DEF RotatingAt
<1> QED BY Zenon, <1>4, <1>5 DEF LoadOld, CheckLabel, FindKey, GenerateKey

\* A retirement that has found its CA.
LEMMA RetirementFields ==
    ASSUME NEW c \in Nat, NEW force \in BOOLEAN, NEW n \in Nat,
           NEW at \in {"pred", "count", "revoke", "retire"}
    PROVE  [at |-> at, kind |-> "retire", cur |-> c, force |-> force, before |-> n]
              \in Retirement
BY Zenon DEF Retirement

\* The same for its program point.
LEMMA RetirementAt ==
    ASSUME NEW r \in Retirement, NEW at \in {"pred", "count", "revoke", "retire"}
    PROVE  LET j == [r EXCEPT !.at = at]
           IN  /\ j \in Retirement /\ j.at = at /\ j.cur = r.cur /\ j.force = r.force
               /\ j.before = r.before
BY Zenon DEF Retirement

\* RetireIntermediate up to the revocation.
LEMMA Retires ==
    ASSUME IInv, NEW p \in Procs,
           StartRetire(p) \/ LoadPredecessor(p) \/ CountOutstanding(p)
    PROVE  IInv'
<1>1. keys' \subseteq Labels /\ errors' \in 0..conf.errors
      /\ UNCHANGED <<conf, cas, leaf, revoked>>
  BY Zenon DEF IInv, TypeOK, StartRetire, LoadPredecessor, CountOutstanding
<1>2. CAs \subseteq Nat /\ Leaves = 1..Len(leaf) /\ Len(leaf) \in Nat
  BY Zenon, Numbered DEF IInv
<1>3. ASSUME NEW j \in Retirement, job' = [job EXCEPT ![p] = j], Founded(j) PROVE IInv'
  <2>1. j \in Jobs /\ j.at # "link"
    BY Zenon, Shape DEF Jobs, Retirement
  <2> QED BY Zenon, <1>1, <1>3, <2>1, Quiet
<1>4. CASE StartRetire(p)
  <2>1. PICK c \in CAs, force \in BOOLEAN :
           \/ /\ cas[c].status = "superseded"
              /\ job' = [job EXCEPT ![p] = Retiring("count", c, force)]
           \/ /\ cas[c].status = "active" /\ cas[c].pred # 0
              /\ job' = [job EXCEPT ![p] = Retiring("pred", cas[c].pred, force)]
    BY Zenon, <1>4 DEF StartRetire
  <2>2. ASSUME NEW d \in CAs, NEW at \in {"pred", "count"},
               at = "count" => cas[d].status = "superseded",
               job' = [job EXCEPT ![p] = Retiring(at, d, force)]
        PROVE  IInv'
    <3> DEFINE j == Retiring(at, d, force)
    <3>1. j \in Retirement
      BY Zenon, <1>2, RetirementFields DEF Retiring
    <3>2. j.at = at /\ j.cur = d /\ j.before = Len(leaf)
      BY Zenon DEF Retiring
    <3> HIDE DEF j
    <3>3. Founded(j)
      BY <1>2, <2>2, <3>1, <3>2, Shape DEF Founded, Jobs
    <3>4. job' = [job EXCEPT ![p] = j]
      BY Zenon, <2>2 DEF j
    <3> QED BY Zenon, <1>3, <3>1, <3>3, <3>4
  <2>3. cas[c].pred # 0 => cas[c].pred \in CAs
    BY Zenon DEF IInv, RefsExist
  <2> QED BY Zenon, <2>1, <2>2, <2>3
<1>5. CASE LoadPredecessor(p) \/ CountOutstanding(p)
  <2>1. job[p] \in Retirement
    BY Zenon, <1>5, Shape DEF IInv, TypeOK, Jobs, LoadPredecessor, CountOutstanding
  <2>2. /\ job[p].cur \in CAs /\ job[p].before <= Len(leaf)
        /\ job[p].at = "count" => cas[job[p].cur].status # "active"
        /\ job[p].before \in Nat /\ job[p].force \in BOOLEAN
    BY Zenon, <2>1 DEF IInv, Founded, Retirement
  <2>3. CASE Return(p)
    BY Zenon, <1>1, <2>3, ReturnStep
  <2>4. CASE LoadPredecessor(p) /\ ~Return(p)
    <3> DEFINE j == [job[p] EXCEPT !.at = "count"]
    <3>1. j \in Retirement /\ j.at = "count" /\ j.cur = job[p].cur /\ j.before = job[p].before
      BY Zenon, <2>1, RetirementAt
    <3>2. cas[job[p].cur].status = "superseded" /\ job' = [job EXCEPT ![p] = j]
      BY Zenon, <2>4 DEF LoadPredecessor, Goto
    <3> HIDE DEF j
    <3>3. Founded(j)
      BY Zenon, <2>2, <3>1, <3>2, Shape DEF Founded, Jobs
    <3> QED BY Zenon, <1>3, <3>1, <3>2, <3>3
  <2>5. CASE CountOutstanding(p) /\ ~Return(p)
    <3> DEFINE j == [job[p] EXCEPT !.at = "revoke"]
    <3>1. /\ j \in Retirement /\ j.at = "revoke" /\ j.cur = job[p].cur
          /\ j.before = job[p].before /\ j.force = job[p].force
      BY Zenon, <2>1, RetirementAt
    <3>2. /\ job[p].at = "count" /\ job' = [job EXCEPT ![p] = j]
          /\ OutstandingLeaves(job[p].cur) = {} \/ job[p].force
      BY Zenon, <2>5 DEF CountOutstanding, Goto
    <3> HIDE DEF j
    <3>3. ~j.force => \A l \in 1..j.before : leaf[l].ca = j.cur => leaf[l].status # "valid"
      BY <1>2, <2>2, <3>1, <3>2 DEF OutstandingLeaves
    <3>4. Founded(j)
      BY Zenon, <2>2, <3>1, <3>2, <3>3, Shape DEF Founded, Jobs
    <3> QED BY Zenon, <1>3, <3>1, <3>2, <3>4
  <2> QED BY Zenon, <1>5, <2>3, <2>4, <2>5
<1> QED BY Zenon, <1>4, <1>5

\* A failing call.
LEMMA Fails ==
    ASSUME IInv, NEW p \in Procs, Fail(p)
    PROVE  IInv'
<1>1. keys' \subseteq Labels /\ UNCHANGED <<conf, cas, leaf, revoked>>
  BY Zenon DEF IInv, TypeOK, Fail
<1>2. errors' \in 0..conf.errors
  BY BoundsAssumption DEF IInv, TypeOK, Fail
<1>3. job[p] \in Rotating \/ job[p].kind # "rotate"
  BY Zenon DEF IInv, TypeOK, Fail, Retirement
<1> QED BY Zenon, <1>1, <1>2, <1>3, DoneStep, ReturnStep DEF Fail

-----------------------------------------------------------------------------
(* The steps that write rows.                                              *)

\* What Done leaves of a rotation.
LEMMA DoneShape ==
    ASSUME IInv, NEW p \in Procs, job[p] \in Rotating, Done(p)
    PROVE  \E j \in Jobs : /\ job' = [job EXCEPT ![p] = j]
                           /\ j \notin Retirement /\ j.at # "link" /\ Founded(j)
<1>1. CASE job[p].todo = {}
  <2>1. Idle \in Jobs /\ Idle.at = "idle"
    BY Zenon DEF Jobs, Idle
  <2>2. Idle \notin Rotating /\ Idle \notin Retirement
    BY Zenon, <2>1, Shape
  <2>3. Founded(Idle)
    BY Zenon, <2>2 DEF Founded
  <2> QED BY Zenon, <1>1, <2>1, <2>2, <2>3 DEF Done, Return
<1>2. CASE job[p].todo # {}
  <2>1. PICK c \in job[p].todo :
           job' = [job EXCEPT ![p] = Walking("rotate", c, job[p].todo \ {c}, job[p].name)]
    BY Zenon, <1>2 DEF Done
  <2>2. /\ job[p].todo \subseteq CAs /\ job[p].name \in Names \union {""}
        /\ CAs \subseteq Nat
    BY Zenon, Numbered DEF IInv, Founded, Rotating
  <2> DEFINE todo == job[p].todo \ {c}
             name == job[p].name
             j == Walking("rotate", c, todo, name)
  <2>3. c \in CAs /\ c \in Nat /\ todo \subseteq CAs /\ todo \in SUBSET Nat
        /\ name \in Names \union {""}
    BY Zenon, <2>2
  <2>4. job' = [job EXCEPT ![p] = j]
    BY Zenon, <2>1
  <2> HIDE DEF todo, name
  <2>5. j \in Rotating /\ j.cur = c /\ j.next = 0 /\ j.todo = todo /\ j.at = "walk"
    BY Zenon, <2>3 DEF Walking, Rotating
  <2> HIDE DEF j
  <2>6. j \in Jobs /\ j \notin Retirement /\ Founded(j)
    BY Zenon, <2>3, <2>5, Shape DEF Jobs, Founded
  <2> QED BY Zenon, <2>4, <2>5, <2>6
<1> QED BY Zenon, <1>1, <1>2

\* One column of one row is written.
LEMMA StatusColumn ==
    ASSUME NEW s \in Seq(Row), NEW n \in 1..Len(s), NEW v \in {"active", "superseded", "retired"}
    PROVE  LET r == [s EXCEPT ![n].status = v]
           IN  /\ r \in Seq(Row) /\ Len(r) = Len(s)
               /\ \A c \in 1..Len(s) : /\ r[c].status = IF c = n THEN v ELSE s[c].status
                                       /\ r[c].succ = s[c].succ /\ r[c].pred = s[c].pred
<1> DEFINE x == [s[n] EXCEPT !.status = v]
<1>1. s[n] \in Row
  OBVIOUS
<1>2. x \in Row /\ x.status = v /\ x.succ = s[n].succ /\ x.pred = s[n].pred
  BY Zenon, <1>1 DEF Row
<1> HIDE DEF x
<1>3. /\ [s EXCEPT ![n] = x] \in Seq(Row) /\ Len([s EXCEPT ![n] = x]) = Len(s)
      /\ \A c \in 1..Len(s) : [s EXCEPT ![n] = x][c] = IF c = n THEN x ELSE s[c]
  BY <1>2, Replaced
<1> QED BY <1>2, <1>3 DEF x

\* The successor.
LEMMA SuccColumn ==
    ASSUME NEW s \in Seq(Row), NEW n \in 1..Len(s), NEW v \in Nat
    PROVE  LET r == [s EXCEPT ![n].succ = v]
           IN  /\ r \in Seq(Row) /\ Len(r) = Len(s)
               /\ \A c \in 1..Len(s) : /\ r[c].succ = IF c = n THEN v ELSE s[c].succ
                                       /\ r[c].status = s[c].status /\ r[c].pred = s[c].pred
<1> DEFINE x == [s[n] EXCEPT !.succ = v]
<1>1. s[n] \in Row
  OBVIOUS
<1>2. x \in Row /\ x.succ = v /\ x.status = s[n].status /\ x.pred = s[n].pred
  BY Zenon, <1>1 DEF Row
<1> HIDE DEF x
<1>3. /\ [s EXCEPT ![n] = x] \in Seq(Row) /\ Len([s EXCEPT ![n] = x]) = Len(s)
      /\ \A c \in 1..Len(s) : [s EXCEPT ![n] = x][c] = IF c = n THEN x ELSE s[c]
  BY <1>2, Replaced
<1> QED BY <1>2, <1>3 DEF x

\* The predecessor.
LEMMA PredColumn ==
    ASSUME NEW s \in Seq(Row), NEW n \in 1..Len(s), NEW v \in Nat
    PROVE  LET r == [s EXCEPT ![n].pred = v]
           IN  /\ r \in Seq(Row) /\ Len(r) = Len(s)
               /\ \A c \in 1..Len(s) : /\ r[c].pred = IF c = n THEN v ELSE s[c].pred
                                       /\ r[c].status = s[c].status /\ r[c].succ = s[c].succ
<1> DEFINE x == [s[n] EXCEPT !.pred = v]
<1>1. s[n] \in Row
  OBVIOUS
<1>2. x \in Row /\ x.pred = v /\ x.status = s[n].status /\ x.succ = s[n].succ
  BY Zenon, <1>1 DEF Row
<1> HIDE DEF x
<1>3. /\ [s EXCEPT ![n] = x] \in Seq(Row) /\ Len([s EXCEPT ![n] = x]) = Len(s)
      /\ \A c \in 1..Len(s) : [s EXCEPT ![n] = x][c] = IF c = n THEN x ELSE s[c]
  BY <1>2, Replaced
<1> QED BY <1>2, <1>3 DEF x

\* MarkCARotated.
LEMMA Links ==
    ASSUME IInv, NEW p \in Procs, Link(p)
    PROVE  IInv'
<1> DEFINE old == job[p].cur
           new == job[p].next
<1>1. job[p] \in Rotating /\ job[p].at = "link"
  BY Zenon, Shape DEF IInv, TypeOK, Jobs, Link
<1>2. PICK j \in Jobs : /\ job' = [job EXCEPT ![p] = j]
                        /\ j \notin Retirement /\ j.at # "link" /\ Founded(j)
  BY Zenon, <1>1, DoneShape DEF Link
<1>3. /\ old \in CAs /\ new \in CAs /\ old < new /\ cas[new].pred = 0
      /\ \A q \in Procs : job[q].at = "link" /\ job[q].next = new => q = p
  BY Zenon, <1>1 DEF IInv, Founded, Linking
<1>4. UNCHANGED <<conf, keys, leaf, revoked, errors>>
  BY Zenon DEF Link
<1>5. cas \in Seq(Row) /\ CAs = 1..Len(cas) /\ Len(cas) \in Nat /\ CAs \subseteq Nat
      /\ CAs \subseteq 1..MaxCAs
  BY Zenon, Numbered DEF IInv, TypeOK
<1>6. cas' = [cas EXCEPT ![old].status = "superseded", ![old].succ = new, ![new].pred = old]
  BY Zenon DEF Link, MarkCARotated
<1> HIDE DEF old, new
<1>7. /\ cas' \in Seq(Row) /\ Len(cas') = Len(cas)
      /\ \A c \in CAs :
            /\ cas'[c].status = IF c = old THEN "superseded" ELSE cas[c].status
            /\ cas'[c].succ = IF c = old THEN new ELSE cas[c].succ
            /\ cas'[c].pred = IF c = new THEN old ELSE cas[c].pred
  <2> DEFINE a == [cas EXCEPT ![old].status = "superseded"]
             b == [a EXCEPT ![old].succ = new]
  <2>1. old \in 1..Len(cas) /\ new \in 1..Len(cas) /\ old \in Nat /\ new \in Nat
    BY Zenon, <1>3, <1>5
  <2>2. /\ a \in Seq(Row) /\ Len(a) = Len(cas)
        /\ \A c \in 1..Len(cas) :
              /\ a[c].status = IF c = old THEN "superseded" ELSE cas[c].status
              /\ a[c].succ = cas[c].succ /\ a[c].pred = cas[c].pred
    BY Zenon, <1>5, <2>1, StatusColumn
  <2> HIDE DEF a
  <2>3. /\ b \in Seq(Row) /\ Len(b) = Len(a)
        /\ \A c \in 1..Len(a) :
              /\ b[c].succ = IF c = old THEN new ELSE a[c].succ
              /\ b[c].status = a[c].status /\ b[c].pred = a[c].pred
    BY <2>1, <2>2, SuccColumn
  <2>4. cas' = [b EXCEPT ![new].pred = old]
    BY Zenon, <1>6 DEF a
  <2> HIDE DEF b
  <2>5. /\ cas' \in Seq(Row) /\ Len(cas') = Len(b)
        /\ \A c \in 1..Len(b) :
              /\ cas'[c].pred = IF c = new THEN old ELSE b[c].pred
              /\ cas'[c].status = b[c].status /\ cas'[c].succ = b[c].succ
    BY <2>1, <2>2, <2>3, <2>4, PredColumn
  <2> QED BY <1>5, <2>2, <2>3, <2>5
<1>8. CAs' = CAs /\ Leaves' = Leaves
  BY <1>4, <1>5, <1>7 DEF CAs, Leaves
<1>9. \A q \in Procs : job'[q] = IF q = p THEN j ELSE job[q]
  BY Zenon, <1>2 DEF IInv, TypeOK
<1>10. TypeOK'
  BY Zenon, <1>2, <1>4, <1>7 DEF IInv, TypeOK, Jobs
<1>11. RefsExist'
  BY Zenon, <1>3, <1>4, <1>7, <1>8 DEF IInv, RefsExist
<1>12. Linking'
  BY <1>2, <1>3, <1>7, <1>8, <1>9 DEF IInv, Linking, old, new
<1>13. ASSUME NEW q \in Procs PROVE Founded(job[q])'
  BY <1>2, <1>4, <1>7, <1>8, <1>9 DEF IInv, Founded
<1>14. LineageIsSound'
  <2> SUFFICES ASSUME NEW c \in CAs
               PROVE  /\ cas'[c].succ # 0 => cas'[c].succ > c /\ cas'[cas'[c].succ].pred = c
                      /\ (cas'[c].status = "active") = (cas'[c].succ = 0)
                      /\ cas'[c].status = "active" => revoked'[c] = Standing
    BY Zenon, <1>8 DEF LineageIsSound
  <2>1. /\ cas[c].succ # 0 => cas[c].succ > c /\ cas[cas[c].succ].pred = c /\ cas[c].succ \in CAs
        /\ (cas[c].status = "active") = (cas[c].succ = 0)
        /\ cas[c].status = "active" => revoked[c] = Standing
    BY Zenon DEF IInv, LineageIsSound, RefsExist
  <2>2. CASE c = old
    BY <1>3, <1>5, <1>7, <2>2
  <2>3. CASE c # old
    BY <1>3, <1>4, <1>5, <1>7, <2>1, <2>3
  <2> QED BY Zenon, <2>2, <2>3
<1>15. RetirementSparesLeaves'
  BY Zenon, <1>4, <1>8 DEF IInv, RetirementSparesLeaves
<1> QED BY Zenon, <1>10, <1>11, <1>12, <1>13, <1>14, <1>15 DEF IInv

\* SetCAStatus(retired), on a CA that is not active.
LEMMA SetsRetired ==
    ASSUME IInv, NEW p \in Procs, SetRetired(p)
    PROVE  IInv'
<1> DEFINE old == job[p].cur
<1>1. job[p] \in Retirement /\ job[p].at = "retire" /\ Idle \in Jobs /\ Idle.at = "idle"
  BY Zenon, Shape DEF IInv, TypeOK, Jobs, SetRetired, Idle
<1>2. old \in CAs /\ cas[old].status # "active"
  BY Zenon, <1>1 DEF IInv, Founded
<1>3. UNCHANGED <<conf, keys, leaf, revoked, errors>> /\ job' = [job EXCEPT ![p] = Idle]
      /\ cas' = [cas EXCEPT ![old].status = "retired"]
  BY Zenon DEF SetRetired, Return
<1>4. cas \in Seq(Row) /\ CAs = 1..Len(cas)
  BY Zenon, Numbered DEF IInv, TypeOK
<1> HIDE DEF old
<1>5. /\ cas' \in Seq(Row) /\ Len(cas') = Len(cas)
      /\ \A c \in CAs : /\ cas'[c].status = IF c = old THEN "retired" ELSE cas[c].status
                        /\ cas'[c].succ = cas[c].succ /\ cas'[c].pred = cas[c].pred
  <2>1. old \in 1..Len(cas)
    BY Zenon, <1>2, <1>4
  <2> DEFINE a == [cas EXCEPT ![old].status = "retired"]
  <2>2. /\ a \in Seq(Row) /\ Len(a) = Len(cas)
        /\ \A c \in 1..Len(cas) :
              /\ a[c].status = IF c = old THEN "retired" ELSE cas[c].status
              /\ a[c].succ = cas[c].succ /\ a[c].pred = cas[c].pred
    BY Zenon, <1>4, <2>1, StatusColumn
  <2>3. cas' = a
    BY Zenon, <1>3
  <2> HIDE DEF a
  <2> QED BY Zenon, <1>4, <2>2, <2>3
<1>6. CAs' = CAs /\ Leaves' = Leaves
  BY Zenon, <1>3, <1>4, <1>5 DEF CAs, Leaves
<1>7. \A q \in Procs : job'[q] = IF q = p THEN Idle ELSE job[q]
  BY Zenon, <1>3 DEF IInv, TypeOK
<1>8. TypeOK'
  BY Zenon, <1>3, <1>5 DEF IInv, TypeOK
<1>9. RefsExist'
  BY Zenon, <1>3, <1>5, <1>6 DEF IInv, RefsExist
<1>10. Linking'
  BY <1>1, <1>5, <1>6, <1>7 DEF IInv, Linking
<1>11. ASSUME NEW q \in Procs PROVE Founded(job[q])'
  <2>1. Idle \notin Rotating /\ Idle \notin Retirement
    BY Zenon, <1>1, Shape
  <2> QED BY <1>3, <1>5, <1>6, <1>7, <2>1 DEF IInv, Founded
<1>12. LineageIsSound'
  <2> SUFFICES ASSUME NEW c \in CAs
               PROVE  /\ cas'[c].succ # 0 => cas'[c].succ > c /\ cas'[cas'[c].succ].pred = c
                      /\ (cas'[c].status = "active") = (cas'[c].succ = 0)
                      /\ cas'[c].status = "active" => revoked'[c] = Standing
    BY Zenon, <1>6 DEF LineageIsSound
  <2>1. /\ cas[c].succ # 0 => cas[c].succ > c /\ cas[cas[c].succ].pred = c /\ cas[c].succ \in CAs
        /\ (cas[c].status = "active") = (cas[c].succ = 0)
        /\ cas[c].status = "active" => revoked[c] = Standing
    BY Zenon DEF IInv, LineageIsSound, RefsExist
  <2> QED BY <1>2, <1>3, <1>5, <2>1
<1>13. RetirementSparesLeaves'
  BY Zenon, <1>3, <1>6 DEF IInv, RetirementSparesLeaves
<1> QED BY Zenon, <1>8, <1>9, <1>10, <1>11, <1>12, <1>13 DEF IInv

\* The revocation of the CA under its parent.
LEMMA Revokes ==
    ASSUME IInv, NEW p \in Procs, RevokeUnderParent(p)
    PROVE  IInv'
<1> DEFINE old == job[p].cur
           r == [force |-> job[p].force, before |-> job[p].before]
           j == [job[p] EXCEPT !.at = "retire"]
<1>1. job[p] \in Retirement /\ job[p].at = "revoke"
  BY Zenon, Shape DEF IInv, TypeOK, Jobs, RevokeUnderParent
<1>2. /\ old \in CAs /\ old \in 1..MaxCAs /\ cas[old].status # "active"
      /\ job[p].before <= Len(leaf) /\ job[p].before \in Nat /\ job[p].force \in BOOLEAN
      /\ ~job[p].force =>
            \A l \in 1..job[p].before : leaf[l].ca = old => leaf[l].status # "valid"
  BY Zenon, <1>1, Numbered DEF IInv, Founded, Retirement
<1>3. /\ r \in CARevocation /\ r # Standing /\ r.force = job[p].force
      /\ r.before = job[p].before
  BY <1>2 DEF CARevocation, Standing
<1>4. /\ UNCHANGED <<conf, cas, keys, leaf, errors>> /\ job' = [job EXCEPT ![p] = j]
      /\ revoked' = [revoked EXCEPT ![old] = IF @ = Standing THEN r ELSE @]
  BY Zenon DEF RevokeUnderParent, Goto
<1>5. /\ j \in Retirement /\ j.at = "retire" /\ j.cur = old /\ j.force = job[p].force
      /\ j.before = job[p].before
  BY Zenon, <1>1, RetirementAt
<1> HIDE DEF old, r, j
<1>6. \A c \in 1..MaxCAs :
         revoked'[c] = IF c = old /\ revoked[c] = Standing THEN r ELSE revoked[c]
  BY Zenon, <1>2, <1>4 DEF IInv, TypeOK
<1>7. \A q \in Procs : job'[q] = IF q = p THEN j ELSE job[q]
  BY Zenon, <1>4 DEF IInv, TypeOK
<1>8. CAs' = CAs /\ Leaves' = Leaves /\ CAs \subseteq 1..MaxCAs /\ Leaves = 1..Len(leaf)
      /\ Len(leaf) \in Nat
  BY Zenon, <1>4, Numbered DEF CAs, Leaves, IInv
<1>9. TypeOK'
  BY Zenon, <1>2, <1>3, <1>4, <1>5 DEF IInv, TypeOK
<1>10. RefsExist'
  BY Zenon, <1>2, <1>3, <1>4, <1>6, <1>8 DEF IInv, RefsExist
<1>11. Linking'
  BY <1>4, <1>5, <1>7, <1>8 DEF IInv, Linking
<1>12. ASSUME NEW q \in Procs PROVE Founded(job[q])'
  <2>1. j \notin Rotating
    BY Zenon, <1>5, Shape DEF Jobs
  <2> QED BY <1>2, <1>4, <1>5, <1>7, <1>8, <2>1 DEF IInv, Founded
<1>13. LineageIsSound'
  BY <1>2, <1>4, <1>6, <1>8 DEF IInv, LineageIsSound
<1>14. RetirementSparesLeaves'
  <2> SUFFICES ASSUME NEW l \in Leaves, leaf[l].status = "valid",
                      revoked'[leaf[l].ca] # Standing, ~revoked'[leaf[l].ca].force
               PROVE  l > revoked'[leaf[l].ca].before
    BY Zenon, <1>4, <1>8 DEF RetirementSparesLeaves
  <2>1. leaf[l].ca \in CAs
    BY Zenon DEF IInv, RefsExist
  <2>2. leaf[l].ca \in 1..MaxCAs /\ l \in 1..Len(leaf)
    BY Zenon, <1>8, <2>1, Zenon
  <2>3. CASE leaf[l].ca = old /\ revoked[leaf[l].ca] = Standing
    BY <1>2, <1>3, <1>6, <1>8, <2>2, <2>3
  <2>4. CASE ~(leaf[l].ca = old /\ revoked[leaf[l].ca] = Standing)
    BY Zenon, <1>6, <2>2, <2>4 DEF IInv, RetirementSparesLeaves
  <2> QED BY Zenon, <2>3, <2>4
<1> QED BY Zenon, <1>9, <1>10, <1>11, <1>12, <1>13, <1>14 DEF IInv

\* persistCA: a new row that nothing names yet.
LEMMA Persists ==
    ASSUME IInv, NEW p \in Procs, PersistCA(p)
    PROVE  IInv'
<1> DEFINE new == Len(cas) + 1
           row == NewRow(NewLabel(p))
           i == [job[p] EXCEPT !.at = "link"]
           j == [i EXCEPT !.next = new]
<1>1. job[p] \in Rotating
  BY Zenon, Shape DEF IInv, TypeOK, Jobs, PersistCA
<1>2. job[p].cur \in CAs /\ job[p].todo \subseteq CAs
  BY Zenon, <1>1 DEF IInv, Founded
<1>3. /\ cas \in Seq(Row) /\ CAs = 1..Len(cas) /\ Len(cas) \in Nat
      /\ CAs \subseteq Nat /\ CAs \subseteq 1..MaxCAs
  BY Zenon, Numbered DEF IInv, TypeOK
<1>4. new \in Nat /\ new \in 1..MaxCAs /\ new \notin CAs /\ Len(cas) < conf.cas
  BY <1>3, BoundsAssumption DEF IInv, TypeOK, PersistCA
<1>5. row \in Row /\ row.status = "active" /\ row.succ = 0 /\ row.pred = 0
  BY Zenon, <1>1, LabelType DEF NewRow, Row
<1>6. /\ cas' = Append(cas, row) /\ job' = [job EXCEPT ![p] = j]
      /\ UNCHANGED <<conf, keys, leaf, revoked, errors>>
  BY Zenon DEF PersistCA
<1>7. i \in Rotating /\ i.at = "link" /\ i.cur = job[p].cur /\ i.todo = job[p].todo
  BY Zenon, <1>1, AtField DEF RotatingAt
<1> HIDE DEF i
<1>8. j \in Rotating /\ j.at = "link" /\ j.cur = job[p].cur /\ j.next = new
      /\ j.todo = job[p].todo
  BY Zenon, <1>4, <1>7, NextField
<1> HIDE DEF j, row
<1>9. /\ cas' \in Seq(Row) /\ Len(cas') = new /\ cas'[new] = row
      /\ \A c \in CAs : cas'[c] = cas[c]
  BY <1>3, <1>5, <1>6, Appended
<1>10. CAs' = CAs \union {new} /\ Leaves' = Leaves
  BY <1>3, <1>6, <1>9 DEF CAs, Leaves
<1>11. \A q \in Procs : job'[q] = IF q = p THEN j ELSE job[q]
  BY Zenon, <1>6 DEF IInv, TypeOK
<1> HIDE DEF new
<1>12. TypeOK'
  BY Zenon, <1>4, <1>6, <1>8, <1>9 DEF IInv, TypeOK
<1>13. RefsExist'
  BY Zenon, <1>5, <1>6, <1>9, <1>10 DEF IInv, RefsExist
<1>14. Linking'
  <2>1. ASSUME NEW q \in Procs, q # p, job[q].at = "link"
        PROVE  job[q].next \in CAs /\ job[q].next # new /\ cas'[job[q].next].pred = 0
               /\ job[q].cur < job[q].next
    BY Zenon, <1>4, <1>9, <2>1 DEF IInv, Linking
  <2>2. job[p].cur < new
    BY <1>2, <1>3 DEF new
  <2>3. ASSUME NEW q \in Procs, NEW s \in Procs, q # p, s # p, job[q].at = "link",
               job[s].at = "link", job[s].next = job[q].next
        PROVE  s = q
    BY Zenon, <2>3 DEF IInv, Linking
  <2>4. job'[p].at = "link" /\ job'[p].next = new /\ job'[p].cur = job[p].cur
        /\ cas'[new].pred = 0
    BY Zenon, <1>5, <1>8, <1>9, <1>11
  <2>5. \A q \in Procs : q # p => job'[q] = job[q]
    BY Zenon, <1>11
  <2> QED BY <1>10, <2>1, <2>2, <2>3, <2>4, <2>5 DEF Linking
<1>15. ASSUME NEW q \in Procs PROVE Founded(job[q])'
  <2>1. CASE q = p
    <3>1. j \notin Retirement
      BY Zenon, <1>8, Shape DEF Jobs
    <3> QED BY Zenon, <1>2, <1>8, <1>10, <1>11, <2>1, <3>1 DEF Founded
  <2>2. CASE q # p
    <3>1. job'[q] = job[q] /\ Founded(job[q])
      BY Zenon, <1>11, <2>2 DEF IInv
    <3>2. job[q] \in Rotating =>
             /\ job[q].cur \in CAs' /\ job[q].next \in {0} \union CAs'
             /\ job[q].todo \subseteq CAs' /\ (job[q].at = "peek" => job[q].next # 0)
      BY Zenon, <1>10, <3>1 DEF Founded
    <3>3. job[q] \in Retirement =>
             /\ job[q].cur \in CAs' /\ job[q].before <= Len(leaf)
             /\ job[q].at \in {"count", "revoke", "retire"} => cas'[job[q].cur].status # "active"
             /\ job[q].at = "revoke" /\ ~job[q].force =>
                  \A l \in 1..job[q].before : leaf[l].ca = job[q].cur => leaf[l].status # "valid"
      BY Zenon, <1>9, <1>10, <3>1 DEF Founded
    <3> QED BY Zenon, <1>6, <3>1, <3>2, <3>3 DEF Founded
  <2> QED BY Zenon, <2>1, <2>2
<1>16. LineageIsSound'
  <2> SUFFICES ASSUME NEW c \in CAs'
               PROVE  /\ cas'[c].succ # 0 => cas'[c].succ > c /\ cas'[cas'[c].succ].pred = c
                      /\ (cas'[c].status = "active") = (cas'[c].succ = 0)
                      /\ cas'[c].status = "active" => revoked'[c] = Standing
    BY Zenon DEF LineageIsSound
  <2>1. CASE c = new
    <3>1. revoked[new] = Standing
      BY Zenon, <1>4 DEF IInv, RefsExist
    <3> QED BY Zenon, <1>5, <1>6, <1>9, <2>1, <3>1
  <2>2. CASE c \in CAs
    <3>1. /\ cas[c].succ # 0 => cas[c].succ > c /\ cas[cas[c].succ].pred = c /\ cas[c].succ \in CAs
          /\ (cas[c].status = "active") = (cas[c].succ = 0)
          /\ cas[c].status = "active" => revoked[c] = Standing
      BY Zenon, <2>2 DEF IInv, LineageIsSound, RefsExist
    <3> QED BY Zenon, <1>6, <1>9, <2>2, <3>1
  <2> QED BY Zenon, <1>10, <2>1, <2>2
<1>17. RetirementSparesLeaves'
  BY Zenon, <1>6, <1>10 DEF IInv, RetirementSparesLeaves
<1> QED BY Zenon, <1>12, <1>13, <1>14, <1>15, <1>16, <1>17 DEF IInv

\* The rows of the leaves change and those of the CAs do not: a new leaf is
\* numbered behind every retirement that began, and no old one turns valid.
LEMMA LeavesChange ==
    ASSUME IInv, UNCHANGED <<conf, cas, keys, revoked>>,
           errors' \in 0..conf.errors, job' = job \/ \E p \in Procs : Return(p),
           leaf' \in Seq(Leaf), Len(leaf') \in 0..MaxLeaves, Len(leaf) <= Len(leaf'),
           \A l \in Leaves : leaf'[l].ca = leaf[l].ca
                             /\ (leaf'[l].status = "valid" => leaf[l].status = "valid"),
           \A l \in Leaves' : leaf'[l].ca \in CAs
    PROVE  IInv'
<1>1. /\ CAs' = CAs /\ CAs \subseteq 1..MaxCAs /\ Leaves = 1..Len(leaf) /\ Len(leaf) \in Nat
      /\ Leaves' = 1..Len(leaf') /\ Len(leaf') \in Nat
  BY Numbered DEF IInv, CAs, Leaves
<1>2. /\ Idle \in Jobs /\ Idle.at = "idle" /\ Idle \notin Rotating /\ Idle \notin Retirement
      /\ \A q \in Procs : job'[q] = job[q] \/ job'[q] = Idle
  <2>1. Idle \in Jobs /\ Idle.at = "idle"
    BY Zenon DEF Jobs, Idle
  <2> QED BY Zenon, <2>1, Shape DEF IInv, TypeOK, Return
<1>3. TypeOK'
  BY Zenon DEF IInv, TypeOK, Return
<1>4. RefsExist'
  <2>1. \A c \in 1..MaxCAs : revoked[c] # Standing => revoked[c].before \in Nat
    BY Zenon DEF IInv, TypeOK, CARevocation
  <2>2. \A c \in 1..MaxCAs : revoked[c] # Standing => c \in CAs /\ revoked[c].before <= Len(leaf')
    BY <1>1, <2>1 DEF IInv, RefsExist
  <2> QED BY Zenon, <1>1, <2>2 DEF IInv, RefsExist
<1>5. Linking'
  BY <1>1, <1>2 DEF IInv, Linking
<1>6. ASSUME NEW q \in Procs PROVE Founded(job[q])'
  <2>1. CASE job'[q] = Idle
    BY Zenon, <1>2, <2>1 DEF Founded
  <2>2. CASE job'[q] = job[q]
    <3>1. Founded(job[q])
      BY Zenon DEF IInv
    <3>2. job[q] \in Retirement => job[q].before \in Nat
      BY Zenon DEF Retirement
    <3> QED BY <1>1, <2>2, <3>1, <3>2 DEF Founded
  <2> QED BY Zenon, <1>2, <2>1, <2>2
<1>7. LineageIsSound'
  BY Zenon, <1>1 DEF IInv, LineageIsSound
<1>8. RetirementSparesLeaves'
  <2> SUFFICES ASSUME NEW l \in Leaves', leaf'[l].status = "valid",
                      revoked[leaf'[l].ca] # Standing, ~revoked[leaf'[l].ca].force
               PROVE  l > revoked[leaf'[l].ca].before
    BY Zenon DEF RetirementSparesLeaves
  <2>1. CASE l \in Leaves
    BY Zenon, <2>1 DEF IInv, RetirementSparesLeaves
  <2>2. CASE l \notin Leaves
    <3>1. leaf'[l].ca \in 1..MaxCAs
      BY Zenon, <1>1
    <3>2. revoked[leaf'[l].ca].before <= Len(leaf) /\ revoked[leaf'[l].ca].before \in Nat
      BY Zenon, <3>1 DEF IInv, TypeOK, RefsExist, CARevocation
    <3> QED BY <1>1, <2>2, <3>2
  <2> QED BY Zenon, <2>1, <2>2
<1> QED BY Zenon, <1>3, <1>4, <1>5, <1>6, <1>7, <1>8 DEF IInv

\* RecordIssuedCertificate appends a leaf of a CA that exists.
LEMMA Records ==
    ASSUME IInv, NEW p \in Procs, RecordIssuedCertificate(p)
    PROVE  IInv'
<1> DEFINE new == [ca |-> job[p].cur, asked |-> job[p].asked, status |-> "valid"]
<1>1. job[p] \in Rotating
  BY Zenon, Shape DEF IInv, TypeOK, Jobs, RecordIssuedCertificate
<1>2. job[p].cur \in CAs
  BY Zenon, <1>1 DEF IInv, Founded
<1>3. new \in Leaf /\ new.ca = job[p].cur
  BY Zenon, <1>1 DEF Leaf, Rotating
<1>4. leaf \in Seq(Leaf) /\ Leaves = 1..Len(leaf) /\ Len(leaf) \in Nat
  BY Zenon, Numbered DEF IInv, TypeOK
<1>5. /\ leaf' = Append(leaf, new) /\ Return(p) /\ UNCHANGED <<conf, cas, keys, revoked>>
      /\ errors' \in 0..conf.errors /\ Len(leaf) < conf.leaves
  BY Zenon DEF RecordIssuedCertificate, IInv, TypeOK
<1> HIDE DEF new
<1>6. /\ leaf' \in Seq(Leaf) /\ Len(leaf') = Len(leaf) + 1 /\ leaf'[Len(leaf) + 1] = new
      /\ \A l \in 1..Len(leaf) : leaf'[l] = leaf[l]
  BY <1>3, <1>4, <1>5, Appended
<1>7. Len(leaf') \in 0..MaxLeaves
  BY <1>4, <1>5, <1>6, BoundsAssumption DEF IInv, TypeOK
<1>8. \A l \in Leaves : leaf'[l].ca = leaf[l].ca
                        /\ (leaf'[l].status = "valid" => leaf[l].status = "valid")
  BY Zenon, <1>4, <1>6
<1>9. \A l \in Leaves' : l \in Leaves \/ l = Len(leaf) + 1
  BY <1>4, <1>6 DEF Leaves
<1>10. \A l \in Leaves' : leaf'[l].ca \in CAs
  BY Zenon, <1>2, <1>3, <1>6, <1>8, <1>9 DEF IInv, RefsExist
<1>11. Len(leaf) <= Len(leaf')
  BY <1>4, <1>6
<1> QED BY Zenon, <1>5, <1>6, <1>7, <1>8, <1>10, <1>11, LeavesChange

\* Expiry, revocation, hold and release of a leaf.
LEMMA StatusChanges ==
    ASSUME IInv, NEW l \in Leaves,
           Expire(l) \/ RevokeLeaf(l) \/ HoldLeaf(l) \/ ReleaseLeaf(l)
    PROVE  IInv'
<1>1. PICK to \in {"expired", "revoked", "held", "released"} :
         leaf' = [leaf EXCEPT ![l].status = to]
  BY Zenon DEF Expire, RevokeLeaf, HoldLeaf, ReleaseLeaf, LeafStatus
<1>2. UNCHANGED <<conf, cas, keys, revoked, job>> /\ errors' \in 0..conf.errors
  BY Zenon DEF Expire, RevokeLeaf, HoldLeaf, ReleaseLeaf, LeafStatus, IInv, TypeOK
<1>3. leaf \in Seq(Leaf) /\ Leaves = 1..Len(leaf) /\ Len(leaf) \in Nat
  BY Zenon, Numbered DEF IInv, TypeOK
<1> DEFINE x == [leaf[l] EXCEPT !.status = to]
<1>4. leaf[l] \in Leaf
  BY <1>3
<1>5. x \in Leaf /\ x.ca = leaf[l].ca /\ x.status # "valid"
  BY Zenon, <1>4 DEF Leaf
<1>6. leaf' = [leaf EXCEPT ![l] = x]
  BY Zenon, <1>1
<1> HIDE DEF x
<1>7. l \in 1..Len(leaf)
  BY Zenon, <1>3
<1>8. /\ leaf' \in Seq(Leaf) /\ Len(leaf') = Len(leaf)
      /\ \A m \in 1..Len(leaf) : leaf'[m] = IF m = l THEN x ELSE leaf[m]
  BY <1>3, <1>5, <1>6, <1>7, Replaced
<1>9. \A m \in Leaves : leaf'[m].ca = leaf[m].ca
                        /\ (leaf'[m].status = "valid" => leaf[m].status = "valid")
  BY Zenon, <1>3, <1>5, <1>8
<1>10. Leaves' = Leaves
  BY <1>3, <1>8 DEF Leaves
<1>11. \A m \in Leaves' : leaf'[m].ca \in CAs
  BY Zenon, <1>9, <1>10 DEF IInv, RefsExist
<1>12. Len(leaf') \in 0..MaxLeaves /\ Len(leaf) <= Len(leaf')
  BY <1>3, <1>8 DEF IInv, TypeOK
<1> QED BY Zenon, <1>2, <1>8, <1>9, <1>11, <1>12, LeavesChange

-----------------------------------------------------------------------------
\* The invariant holds at the start ...
LEMMA IInvInit == Init => IInv
<1> SUFFICES ASSUME Init PROVE IInv
  BY Zenon
<1> DEFINE row == NewRow(<<"ca", 1>>)
<1>1. row \in Row /\ row.status = "active" /\ row.succ = 0 /\ row.pred = 0
  BY Zenon DEF NewRow, Row, Labels
<1>2. cas = <<row>> /\ leaf = <<>>
  BY Zenon DEF Init
<1> HIDE DEF row
<1>3. cas \in Seq(Row) /\ Len(cas) = 1 /\ CAs = {1} /\ cas[1] = row
  BY <1>1, <1>2 DEF CAs
<1>4. leaf \in Seq(Leaf) /\ Len(leaf) = 0 /\ Leaves = {}
  BY <1>2 DEF Leaves
<1>5. keys \subseteq Labels /\ errors \in 0..conf.errors /\ conf \in Scenarios /\ 1 \in 1..MaxCAs
  BY BoundsAssumption DEF Init, Labels
<1>6. \A p \in Procs : job[p] = Idle
  BY Zenon DEF Init
<1>7. Idle \in Jobs /\ Idle.at = "idle" /\ Idle \notin Rotating /\ Idle \notin Retirement
  <2>1. Idle \in Jobs /\ Idle.at = "idle"
    BY Zenon DEF Jobs, Idle
  <2> QED BY Zenon, <2>1, Shape
<1>8. \A c \in 1..MaxCAs : revoked[c] = Standing
  BY Zenon DEF Init
<1>9. TypeOK
  BY <1>3, <1>4, <1>5, <1>7, BoundsAssumption DEF Init, TypeOK
<1>10. RefsExist /\ Linking /\ \A p \in Procs : Founded(job[p])
  BY Zenon, <1>1, <1>3, <1>4, <1>6, <1>7, <1>8 DEF RefsExist, Linking, Founded
<1>11. LineageIsSound /\ RetirementSparesLeaves
  BY Zenon, <1>1, <1>3, <1>4, <1>5, <1>8 DEF LineageIsSound, RetirementSparesLeaves
<1> QED BY Zenon, <1>9, <1>10, <1>11 DEF IInv

\* ... and every action keeps it.
LEMMA IInvStep ==
    ASSUME IInv, [Next]_vars
    PROVE  IInv'
<1>1. CASE UNCHANGED vars
  BY ZenonT(60), <1>1 DEF vars, IInv, TypeOK, RefsExist, Linking, Founded, LineageIsSound,
              RetirementSparesLeaves, CAs, Leaves
<1>2. ASSUME NEW p \in Procs,
             \/ StartRotate(p) \/ AutoRotateDue(p) \/ StartIssue(p) \/ StartRenew(p)
             \/ Walk(p) \/ Peek(p)
             \/ LoadOld(p) \/ CheckLabel(p) \/ FindKey(p) \/ GenerateKey(p)
             \/ StartRetire(p) \/ LoadPredecessor(p) \/ CountOutstanding(p) \/ Fail(p)
      PROVE  IInv'
  BY Zenon, <1>2, Starts, Walks, Rotates, Retires, Fails
<1>3. ASSUME NEW p \in Procs,
             PersistCA(p) \/ Link(p) \/ RevokeUnderParent(p) \/ SetRetired(p)
             \/ RecordIssuedCertificate(p)
      PROVE  IInv'
  BY Zenon, <1>3, Persists, Links, Revokes, SetsRetired, Records
<1>4. ASSUME NEW l \in Leaves, Expire(l) \/ RevokeLeaf(l) \/ HoldLeaf(l) \/ ReleaseLeaf(l)
      PROVE  IInv'
  BY Zenon, <1>4, StatusChanges
<1> QED BY Zenon, <1>1, <1>2, <1>3, <1>4 DEF Next

\* However rotations, retirements, issuance and failures overlap, the links of
\* the lineage stay walkable, and no active CA is revoked under its parent.
THEOREM LineageStaysSound == Spec => []LineageIsSound
<1>1. IInv => LineageIsSound
  BY Zenon DEF IInv
<1> QED BY IInvInit, IInvStep, <1>1, PTL DEF Spec

\* An unforced retirement spares the leaves that were recorded when it began
\* and never were on hold.
THEOREM RetirementIsSafe == Spec => []RetirementSparesLeaves
<1>1. IInv => RetirementSparesLeaves
  BY Zenon DEF IInv
<1> QED BY IInvInit, IInvStep, <1>1, PTL DEF Spec

-----------------------------------------------------------------------------
(* Stored secrets.                                                         *)

Statuses == {"none", "active", "retiring", "retired"}
Rings == [Keks -> Statuses]
Item == Nat \X (0 .. MaxVersion)

\* The requests in progress, by what they carry.
Sealing == [at : {"seal"}, value : Values]
Storing == [at : {"store"}, e : Envelopes]
Putting == [at : {"ring"}, id : Nat, expect : Nat, value : Values]
Targeting == [at : {"target"}, id : Nat, expect : Nat, version : Versions]
Writing == [at : {"check", "put"}, id : Nat, expect : Nat, e : Envelopes]
Listing == [at : {"ids"}, ring : Rings]
Batch == [at : {"refs", "item"}, ring : Rings, items : SUBSET Item]
Updating == [at : {"update"}, item : Item, e : Envelopes, rest : Batch]
RotatingKEK == [at : {"key", "generate", "record"}, next : Keks]
RetiringKEK == [at : {"count", "retire"}, kek : Keks, force : BOOLEAN]
RequestStates == UNION {{Free}, Sealing, Storing, Putting, Targeting, Writing, Listing, Batch, Updating,
               RotatingKEK, RetiringKEK}

-----------------------------------------------------------------------------
(* Lineages.                                                               *)

\* Version m is active, those before it are on their way out, and no other is
\* recorded.
Linear(l, m) ==
    /\ l \in Rings /\ m \in Keks
    /\ \A k \in Keks : /\ k < m => l[k] \in {"retiring", "retired"}
                       /\ k = m => l[k] = "active"
                       /\ k > m => l[k] = "none"

LEMMA LinearFacts ==
    ASSUME NEW l, NEW m, Linear(l, m)
    PROVE  /\ ActiveIn(l) = {m} /\ ActiveVersion(l) = m
           /\ {k \in Keks : l[k] # "none"} = 1 .. m
           /\ Newest({k \in Keks : l[k] # "none"}) = m
<1>1. ActiveIn(l) = {m}
  BY DEF Linear, ActiveIn, Keks
<1>2. ActiveVersion(l) = m
  BY Zenon, <1>1 DEF ActiveVersion
<1>3. {k \in Keks : l[k] # "none"} = 1 .. m
  BY SecretConstants DEF Linear, Keks
<1>4. Newest(1 .. m) = m
  <2>1. m \in 1 .. m /\ \A y \in 1 .. m : m >= y
    BY SecretConstants DEF Linear, Keks
  <2>2. \A x \in 1 .. m : (\A y \in 1 .. m : x >= y) => x = m
    BY <2>1
  <2>. QED  BY Zenon, <2>1, <2>2 DEF Newest
<1>. QED  BY Zenon, <1>1, <1>2, <1>3, <1>4

\* The active version of a lineage, as every request reads it.
Act == ActiveVersion(Listed(lineage))

\* The lineage, and the keys of its versions.
LineageInv ==
    /\ lineage \in Rings /\ Linear(Listed(lineage), Act)
    /\ hsmKeys \subseteq Keks /\ 1 .. Act \subseteq hsmKeys

LEMMA LineageIsLinear == LineageInv => OneActiveVersion
  BY ZenonT(40), LinearFacts DEF LineageInv, OneActiveVersion

\* A version that is on its way out is older than the active one, and the
\* active one is not on its way out.
LEMMA OldIsOlder ==
    ASSUME LineageInv, NEW k \in Keks
    PROVE  /\ lineage[k] \in {"retiring", "retired"} => k < Act /\ Listed(lineage) = lineage
           /\ lineage[Act] \notin {"retiring", "retired"}
           /\ Act \in Keks
<1>1. Listed(lineage) = lineage \/ \A i \in Keks : lineage[i] = "none"
  BY Zenon DEF Listed
<1>2. Act \in Keks
  BY Zenon DEF LineageInv, Linear
<1>3. CASE Listed(lineage) = lineage
  BY <1>2, <1>3 DEF LineageInv, Linear, Keks
<1>4. CASE \A i \in Keks : lineage[i] = "none"
  BY Zenon, <1>2, <1>4
<1>. QED  BY Zenon, <1>1, <1>2, <1>3, <1>4

-----------------------------------------------------------------------------
(* What a request may rely on.                                             *)

\* The part of the state that requests rely on, as one value.
View == [act |-> Act, lineage |-> lineage, hsmKeys |-> hsmKeys, next |-> nextId, id |-> id,
         current |-> current, env |-> env, history |-> history, stale |-> stale]

Views == [act : Keks, lineage : Rings, hsmKeys : SUBSET Keks, next : Nat, id : Nat,
          current : 0 .. MaxVersion, env : SUBSET Envelopes,
          history : [Versions -> SUBSET Envelopes], stale : BOOLEAN]

\* Get, in a view.
GetIn(s, item) ==
    IF s.id # item[1] THEN {} ELSE IF item[2] = 0 THEN s.env ELSE s.history[item[2]]

\* The ring a batch has loaded is a lineage of the past.
RingKnown(s, ring) == Linear(ring, ActiveVersion(ring)) /\ ActiveVersion(ring) <= s.act

\* An item is the registry row or an older version of a secret there has been.
ItemKnown(s, item) ==
    /\ item[1] \in 1 .. s.next - 1
    /\ item[2] # 0 /\ s.id = item[1] => item[2] < s.current

\* A put or a rollback works on a secret there has been, with room for a version.
PutKnown(s, j) == j.id \in 1 .. s.next - 1 /\ j.expect \in 1 .. MaxVersion - 1

\* What was read to be re-wrapped is older than the ring, and as long as nobody
\* stores under a superseded version, what is there now under the same KEK
\* version is what was read.
UpdateKnown(s, j) ==
    /\ RingKnown(s, j.rest.ring) /\ ItemKnown(s, j.item)
    /\ \A item \in j.rest.items : ItemKnown(s, item)
    /\ j.e.kek < ActiveVersion(j.rest.ring)
    /\ ~s.stale => \A f \in GetIn(s, j.item) : f.kek = j.e.kek => f = j.e

\* The next version is at most one past the active one, and has its key before
\* it is recorded.
RotateKnown(s, j) == /\ j.next \in 2 .. s.act + 1
                     /\ j.at = "record" => j.next \in s.hsmKeys

\* The version to retire is on its way out, and as long as nobody stores under a
\* superseded version, nothing is wrapped under what was counted as unused.
RetireKnown(s, j) ==
    /\ s.lineage[j.kek] \in {"retiring", "retired"}
    /\ j.at = "retire" /\ ~j.force /\ ~s.stale =>
          \A v \in Versions : \A f \in s.history[v] : f.kek # j.kek

Knows(s, j) ==
    /\ j \in Putting \union Targeting \union Writing => PutKnown(s, j)
    /\ j \in Listing => RingKnown(s, j.ring)
    /\ j \in Batch => RingKnown(s, j.ring) /\ \A item \in j.items : ItemKnown(s, item)
    /\ j \in Updating => UpdateKnown(s, j)
    /\ j \in RotatingKEK => RotateKnown(s, j)
    /\ j \in RetiringKEK => RetireKnown(s, j)

\* What every step does to a view: ids are not used twice, versions and keys are
\* only added, and what is stored is stored under the active version or is the
\* mark of staleness.
Grows(s, t) ==
    /\ t.next >= s.next /\ t.act >= s.act /\ s.hsmKeys \subseteq t.hsmKeys
    /\ s.stale => t.stale
    /\ t.id \in {s.id, 0} \/ t.id >= s.next
    /\ t.id = s.id => t.current >= s.current
    /\ \A k \in Keks : s.lineage[k] \in {"retiring", "retired"} =>
                          t.lineage[k] \in {"retiring", "retired"} /\ k < s.act
    /\ ~t.stale => /\ \A f \in t.env : f \in s.env \/ f.kek = s.act
                   /\ \A v \in Versions : \A f \in t.history[v] : f \in s.history[v] \/ f.kek = s.act

\* What is left of an item that was there.
LEMMA GetShrinks ==
    ASSUME NEW s \in Views, NEW t \in Views, Grows(s, t), ~t.stale,
           NEW item \in Item, ItemKnown(s, item), NEW f \in GetIn(t, item)
    PROVE  f \in GetIn(s, item) \/ f.kek = s.act
<1>1. t.id = item[1] /\ item[1] \in 1 .. s.next - 1
  BY Zenon DEF GetIn, ItemKnown
<1>2. t.id = s.id
  BY <1>1 DEF Grows, Views
<1>3. CASE item[2] = 0
  BY Zenon, <1>1, <1>2, <1>3 DEF GetIn, Grows
<1>4. CASE item[2] # 0
  <2>1. item[2] \in Versions /\ f \in t.history[item[2]]
    BY <1>1, <1>4 DEF GetIn, Item, Versions
  <2>. QED  BY Zenon, <1>1, <1>2, <1>4, <2>1 DEF GetIn, Grows
<1>. QED  BY Zenon, <1>3, <1>4

LEMMA RingKept ==
    ASSUME NEW s \in Views, NEW t \in Views, Grows(s, t), NEW ring \in Rings, RingKnown(s, ring)
    PROVE  RingKnown(t, ring) /\ ActiveVersion(ring) \in Keks
  BY DEF RingKnown, Grows, Views, Linear, Keks

LEMMA ItemKept ==
    ASSUME NEW s \in Views, NEW t \in Views, Grows(s, t), NEW item \in Item, ItemKnown(s, item)
    PROVE  ItemKnown(t, item)
<1>1. item[1] \in 1 .. t.next - 1
  BY DEF ItemKnown, Grows, Views
<1>2. ASSUME item[2] # 0, t.id = item[1] PROVE item[2] < t.current
  <2>1. t.id = s.id
    BY <1>2 DEF ItemKnown, Grows, Views, Item
  <2>. QED  BY <1>2, <2>1 DEF ItemKnown, Grows, Views, Item
<1>. QED  BY Zenon, <1>1, <1>2 DEF ItemKnown

LEMMA UpdateKept ==
    ASSUME NEW s \in Views, NEW t \in Views, Grows(s, t), NEW j \in Updating, UpdateKnown(s, j)
    PROVE  UpdateKnown(t, j)
<1>1. j.rest \in Batch /\ j.item \in Item /\ j.e \in Envelopes
  BY Zenon DEF Updating
<1>2. j.rest.ring \in Rings /\ j.rest.items \in SUBSET Item
  BY Zenon, <1>1 DEF Batch
<1>3. RingKnown(t, j.rest.ring) /\ ActiveVersion(j.rest.ring) \in Keks
  BY Zenon, <1>2, RingKept DEF UpdateKnown
<1>4. ItemKnown(t, j.item) /\ \A item \in j.rest.items : ItemKnown(t, item)
  BY Zenon, <1>1, <1>2, ItemKept DEF UpdateKnown
<1>5. ASSUME ~t.stale, NEW f \in GetIn(t, j.item), f.kek = j.e.kek PROVE f = j.e
  <2>1. ~s.stale
    BY Zenon, <1>5 DEF Grows, Views
  <2>2. f \in GetIn(s, j.item) \/ f.kek = s.act
    BY <1>1, <1>5, GetShrinks DEF UpdateKnown
  <2>3. j.e.kek < s.act
    BY <1>1, <1>3 DEF UpdateKnown, RingKnown, Views, Envelopes, Keks
  <2>4. f.kek # s.act
    BY <1>1, <1>5, <2>3 DEF Envelopes, Keks, Views
  <2>. QED  BY Zenon, <1>5, <2>1, <2>2, <2>4 DEF UpdateKnown
<1>. QED  BY Zenon, <1>3, <1>4, <1>5 DEF UpdateKnown

LEMMA RetireKept ==
    ASSUME NEW s \in Views, NEW t \in Views, Grows(s, t), NEW j \in RetiringKEK, RetireKnown(s, j)
    PROVE  RetireKnown(t, j)
<1>1. j.kek \in Keks /\ j.kek < s.act /\ t.lineage[j.kek] \in {"retiring", "retired"}
  BY Zenon DEF RetiringKEK, RetireKnown, Grows
<1>2. ASSUME j.at = "retire", ~j.force, ~t.stale, NEW v \in Versions, NEW f \in t.history[v]
      PROVE  f.kek # j.kek
  <2>1. ~s.stale
    BY Zenon, <1>2 DEF Grows, Views
  <2>2. f \in s.history[v] \/ f.kek = s.act
    BY Zenon, <1>2 DEF Grows
  <2>3. j.kek # s.act
    BY <1>1 DEF Views, Keks
  <2>. QED  BY Zenon, <1>2, <2>1, <2>2, <2>3 DEF RetireKnown
<1>. QED  BY Zenon, <1>1, <1>2 DEF RetireKnown

\* What a request knows survives the steps of the others.
LEMMA KnowsKept ==
    ASSUME NEW s \in Views, NEW t \in Views, Grows(s, t), NEW j \in RequestStates, Knows(s, j)
    PROVE  Knows(t, j)
<1>1. j \in Putting \union Targeting \union Writing => PutKnown(t, j)
  BY DEF Knows, PutKnown, Grows, Views
<1>2. j \in Listing => RingKnown(t, j.ring)
  BY Zenon, RingKept DEF Knows, Listing
<1>3. j \in Batch => RingKnown(t, j.ring) /\ \A item \in j.items : ItemKnown(t, item)
  <2>. SUFFICES ASSUME j \in Batch
                PROVE  RingKnown(t, j.ring) /\ \A item \in j.items : ItemKnown(t, item)
    BY Zenon
  <2>1. j.ring \in Rings /\ j.items \in SUBSET Item
    BY Zenon DEF Batch
  <2>. QED  BY Zenon, <2>1, RingKept, ItemKept DEF Knows
<1>4. j \in Updating => UpdateKnown(t, j)
  BY Zenon, UpdateKept DEF Knows
<1>5. j \in RotatingKEK => RotateKnown(t, j)
  BY DEF Knows, RotateKnown, Grows, Views, RotatingKEK, Keks
<1>6. j \in RetiringKEK => RetireKnown(t, j)
  BY Zenon, RetireKept DEF Knows
<1>. QED  BY Zenon, <1>1, <1>2, <1>3, <1>4, <1>5, <1>6 DEF Knows

-----------------------------------------------------------------------------
(* The inductive invariant.                                                *)

\* The types of the registry, and the shape of the row and of its history.
RegistryTypes ==
    /\ id \in Nat /\ nextId \in Nat /\ id < nextId
    /\ current \in 0 .. MaxVersion /\ env \in SUBSET Envelopes
    /\ history \in [Versions -> SUBSET Envelopes]
    /\ id = 0 => current = 0 /\ env = {} /\ \A v \in Versions : history[v] = {}
    /\ id # 0 => current \in Versions
    /\ \A v \in Versions : \A e, f \in history[v] : e = f
    /\ written \in [Versions -> SUBSET Values]
    /\ puts \in Nat /\ stale \in BOOLEAN /\ forced \subseteq Keks

RegistryInv == RegistryTypes /\ HistoryMirrorsRow /\ NoPutLost /\ FreshWritesAreSafe

LEMMA RowNumbers == ASSUME RegistryTypes PROVE current \in Nat /\ nextId \in Nat
  BY SecretConstants DEF RegistryTypes

\* None of the properties is inductive: UpdateEnvelope compares KEK versions and
\* RetireSet nothing at all, so what their requests have read is carried along.
SecretsInv ==
    /\ LineageInv /\ RegistryInv
    /\ req \in [Requests -> RequestStates] /\ \A p \in Requests : Knows(View, req[p])

\* The view has its type.
LEMMA ViewType == LineageInv /\ RegistryTypes => View \in Views
<1>. SUFFICES ASSUME LineageInv, RegistryTypes PROVE View \in Views
  BY Zenon
<1>1. Act \in Keks
  BY Zenon DEF LineageInv, Linear
<1>. QED  BY Zenon, <1>1 DEF View, Views, LineageInv, RegistryTypes

\* The position of a request tells which kind it is.
LEMMA Position ==
    ASSUME NEW j \in RequestStates
    PROVE  /\ j.at = "seal" => j \in Sealing
           /\ j.at = "store" => j \in Storing
           /\ j.at = "ring" => j \in Putting
           /\ j.at = "target" => j \in Targeting
           /\ j.at \in {"check", "put"} => j \in Writing
           /\ j.at = "ids" => j \in Listing
           /\ j.at \in {"refs", "item"} => j \in Batch
           /\ j.at = "update" => j \in Updating
           /\ j.at \in {"key", "generate", "record"} => j \in RotatingKEK
           /\ j.at \in {"count", "retire"} => j \in RetiringKEK
  BY DEF RequestStates, Free, Sealing, Storing, Putting, Targeting, Writing, Listing, Batch, Updating,
         RotatingKEK, RetiringKEK

\* Each kind of request, and what it has to know.
LEMMA KnowsIdle ==
    ASSUME NEW s, NEW j \in {Free} \union Sealing \union Storing
    PROVE  j \in RequestStates /\ Knows(s, j)
  BY DEF RequestStates, Knows, Free, Sealing, Storing, Putting, Targeting, Writing, Listing, Batch,
         Updating, RotatingKEK, RetiringKEK

LEMMA KnowsPut ==
    ASSUME NEW s, NEW j \in Putting \union Targeting \union Writing, PutKnown(s, j)
    PROVE  j \in RequestStates /\ Knows(s, j)
  BY Zenon DEF RequestStates, Knows, Putting, Targeting, Writing, Listing, Batch, Updating, RotatingKEK, RetiringKEK

LEMMA KnowsListing ==
    ASSUME NEW s, NEW j \in Listing, RingKnown(s, j.ring)
    PROVE  j \in RequestStates /\ Knows(s, j)
  BY Zenon DEF RequestStates, Knows, Putting, Targeting, Writing, Listing, Batch, Updating, RotatingKEK, RetiringKEK

LEMMA KnowsBatch ==
    ASSUME NEW s, NEW j \in Batch, RingKnown(s, j.ring), \A item \in j.items : ItemKnown(s, item)
    PROVE  j \in RequestStates /\ Knows(s, j)
<1>1. j \in RequestStates
  BY Zenon DEF RequestStates
<1>2. j \notin UNION {Putting, Targeting, Writing, Listing, Updating, RotatingKEK, RetiringKEK}
  BY DEF Putting, Targeting, Writing, Listing, Batch, Updating, RotatingKEK, RetiringKEK
<1>. QED  BY Zenon, <1>1, <1>2 DEF Knows

LEMMA KnowsUpdating ==
    ASSUME NEW s, NEW j \in Updating, UpdateKnown(s, j)
    PROVE  j \in RequestStates /\ Knows(s, j)
<1>1. j \in RequestStates
  BY Zenon DEF RequestStates
<1>2. j \notin UNION {Putting, Targeting, Writing, Listing, Batch, RotatingKEK, RetiringKEK}
  BY DEF Putting, Targeting, Writing, Listing, Batch, Updating, RotatingKEK, RetiringKEK
<1>. QED  BY Zenon, <1>1, <1>2 DEF Knows

LEMMA KnowsRotating ==
    ASSUME NEW s, NEW j \in RotatingKEK, RotateKnown(s, j)
    PROVE  j \in RequestStates /\ Knows(s, j)
  BY Zenon DEF RequestStates, Knows, Putting, Targeting, Writing, Listing, Batch, Updating, RotatingKEK, RetiringKEK

LEMMA KnowsRetiring ==
    ASSUME NEW s, NEW j \in RetiringKEK, RetireKnown(s, j)
    PROVE  j \in RequestStates /\ Knows(s, j)
  BY Zenon DEF RequestStates, Knows, Putting, Targeting, Writing, Listing, Batch, Updating, RotatingKEK, RetiringKEK

\* A step keeps the invariant if it keeps the tables, its view grows, and the
\* request that takes it knows what it says it knows.
LEMMA StepKeeps ==
    ASSUME SecretsInv, LineageInv', RegistryInv', Grows(View, View'),
           NEW p \in Requests, NEW j \in RequestStates, Knows(View', j), req' = [req EXCEPT ![p] = j]
    PROVE  SecretsInv'
<1>1. View \in Views /\ View' \in Views
  <2>1. View \in Views
    BY Zenon, ViewType DEF SecretsInv, RegistryInv
  <2>2. (LineageInv /\ RegistryTypes => View \in Views)'
    BY ViewType, PTL
  <2>3. View' \in Views
    BY Zenon, <2>2 DEF RegistryInv
  <2>. QED  BY Zenon, <2>1, <2>3
<1>2. req' \in [Requests -> RequestStates]
  BY Zenon DEF SecretsInv
<1>3. ASSUME NEW q \in Requests PROVE Knows(View', req'[q])
  <2>1. CASE q = p
    BY Zenon, <2>1 DEF SecretsInv
  <2>2. CASE q # p
    <3>1. req'[q] = req[q] /\ req[q] \in RequestStates /\ Knows(View, req[q])
      BY Zenon, <2>2 DEF SecretsInv
    <3>. QED  BY Zenon, <1>1, <3>1, KnowsKept
  <2>. QED  BY Zenon, <2>1, <2>2
<1>. QED  BY Zenon, <1>2, <1>3 DEF SecretsInv

\* A view that does not change grows.
LEMMA GrowsSame == LineageInv /\ RegistryTypes => Grows(View, View)
<1>. SUFFICES ASSUME LineageInv, RegistryTypes PROVE Grows(View, View)
  BY Zenon
<1>1. Act \in Nat /\ nextId \in Nat /\ current \in Nat
  BY DEF LineageInv, RegistryTypes, Linear, Keks
<1>2. \A k \in Keks : lineage[k] \in {"retiring", "retired"} => k < Act
  BY Zenon, OldIsOlder
<1>. QED  BY <1>1, <1>2 DEF Grows, View

\* A step that touches no table keeps the invariant if the request knows what it
\* says it knows.
LEMMA ReadKeeps ==
    ASSUME SecretsInv, NEW p \in Requests, NEW j \in RequestStates, Knows(View, j), Proceed(p, j),
           UNCHANGED <<lineage, hsmKeys, registry, nextId, ghosts>>
    PROVE  SecretsInv'
<1>1. Act' = Act
  BY Zenon DEF Act
<1>2. View' = View
  BY Zenon, <1>1 DEF View, registry, ghosts
<1>3. LineageInv'
  BY Zenon, <1>1 DEF SecretsInv, LineageInv
<1>4. RegistryTypes'
  BY Zenon DEF SecretsInv, RegistryInv, RegistryTypes, registry, ghosts
<1>5. HistoryMirrorsRow' /\ NoPutLost'
  BY Zenon DEF SecretsInv, RegistryInv, HistoryMirrorsRow, NoPutLost, registry, ghosts
<1>6. FreshWritesAreSafe'
  BY Zenon DEF SecretsInv, RegistryInv, FreshWritesAreSafe, ValuesKept, NothingStranded, registry, ghosts
<1>7. Grows(View, View')
  BY Zenon, <1>2, GrowsSame DEF SecretsInv, RegistryInv
<1>. QED  BY Zenon, <1>2, <1>3, <1>4, <1>5, <1>6, <1>7, StepKeeps DEF RegistryInv, Proceed

-----------------------------------------------------------------------------
(* The statements that only read.                                          *)

\* What a request knows, by its position.
LEMMA Carried ==
    ASSUME SecretsInv, NEW p \in Requests
    PROVE  /\ req[p] \in RequestStates /\ Knows(View, req[p])
           /\ Act \in Keks /\ View.act = Act
           /\ View.next = nextId /\ View.id = id /\ View.current = current
           /\ View.hsmKeys = hsmKeys /\ View.lineage = lineage /\ View.history = history
           /\ View.env = env /\ View.stale = stale
  BY Zenon DEF SecretsInv, LineageInv, Linear, View

LEMMA FinishKeeps ==
    ASSUME SecretsInv, NEW p \in Requests, Finish(p), UNCHANGED <<lineage, hsmKeys, registry, nextId, ghosts>>
    PROVE  SecretsInv'
  BY Zenon, KnowsIdle, ReadKeeps DEF Finish

LEMMA StoreReads ==
    ASSUME SecretsInv, NEW p \in Requests, StoreFind(p) \/ StoreRing(p)
    PROVE  SecretsInv'
<1>1. CASE StoreFind(p)
  <2>1. PICK val \in Values : Proceed(p, [at |-> "seal", value |-> val])
    BY Zenon, <1>1 DEF StoreFind
  <2>2. [at |-> "seal", value |-> val] \in Sealing
    BY Zenon DEF Sealing
  <2>. QED  BY Zenon, <1>1, <2>1, <2>2, KnowsIdle, ReadKeeps DEF StoreFind
<1>2. CASE StoreRing(p)
  <2>. DEFINE j == [at |-> "store", e |-> [value |-> req[p].value, kek |-> Act]]
  <2>1. req[p].value \in Values /\ Act \in Keks
    BY Zenon, <1>2, Carried, Position DEF StoreRing, Sealing
  <2>2. j \in Storing
    BY Zenon, <2>1 DEF Storing, Envelopes
  <2>3. Proceed(p, j)
    BY Zenon, <1>2 DEF StoreRing, Act
  <2>. HIDE DEF j
  <2>. QED  BY Zenon, <1>2, <2>2, <2>3, KnowsIdle, ReadKeeps DEF StoreRing
<1>. QED  BY Zenon, <1>1, <1>2

LEMMA ReadRowKeeps ==
    ASSUME SecretsInv, NEW p \in Requests, ReadRow(p)
    PROVE  SecretsInv'
<1>1. /\ id \in Nat /\ id \in 1 .. nextId - 1 /\ current \in Nat /\ current \in 1 .. MaxVersion - 1
      /\ nextId \in Nat
  BY SecretConstants DEF ReadRow, SecretsInv, RegistryInv, RegistryTypes, Versions
<1>2. CASE \E val \in Values :
              Proceed(p, [at |-> "ring", id |-> id, expect |-> current, value |-> val])
  <2>. PICK val \in Values : Proceed(p, [at |-> "ring", id |-> id, expect |-> current, value |-> val])
    BY Zenon, <1>2
  <2>. DEFINE j == [at |-> "ring", id |-> id, expect |-> current, value |-> val]
  <2>1. j \in Putting /\ j.id = id /\ j.expect = current
    BY Zenon, <1>1 DEF Putting
  <2>2. PutKnown(View, j)
    BY Zenon, <1>1, <2>1, Carried DEF PutKnown
  <2>3. Proceed(p, j)
    BY Zenon
  <2>. HIDE DEF j
  <2>. QED  BY Zenon, <2>1, <2>2, <2>3, KnowsPut, ReadKeeps DEF ReadRow
<1>3. CASE \E v \in 1 .. current - 1 :
              Proceed(p, [at |-> "target", id |-> id, expect |-> current, version |-> v])
  <2>. PICK v \in 1 .. current - 1 :
              Proceed(p, [at |-> "target", id |-> id, expect |-> current, version |-> v])
    BY Zenon, <1>3
  <2>. DEFINE j == [at |-> "target", id |-> id, expect |-> current, version |-> v]
  <2>1. j \in Targeting /\ j.id = id /\ j.expect = current
    BY <1>1, SecretConstants DEF Targeting, Versions
  <2>2. PutKnown(View, j)
    BY Zenon, <1>1, <2>1, Carried DEF PutKnown
  <2>3. Proceed(p, j)
    BY Zenon
  <2>. HIDE DEF j
  <2>. QED  BY Zenon, <2>1, <2>2, <2>3, KnowsPut, ReadKeeps DEF ReadRow
<1>. QED  BY Zenon, <1>2, <1>3 DEF ReadRow

LEMMA PutReads ==
    ASSUME SecretsInv, NEW p \in Requests, PutRing(p) \/ RollbackGetVersion(p) \/ CheckKEKNotRetired(p)
    PROVE  SecretsInv'
<1>1. CASE PutRing(p)
  <2>. DEFINE j == [at |-> "put", id |-> req[p].id, expect |-> req[p].expect,
                    e |-> [value |-> req[p].value, kek |-> Act]]
  <2>1. req[p] \in Putting /\ Act \in Keks /\ PutKnown(View, req[p])
    BY Zenon, <1>1, Carried, Position DEF PutRing, Knows
  <2>2. j \in Writing /\ j.id = req[p].id /\ j.expect = req[p].expect
    BY Zenon, <2>1 DEF Putting, Writing, Envelopes
  <2>3. Proceed(p, j)
    BY Zenon, <1>1 DEF PutRing, Act
  <2>. HIDE DEF j
  <2>4. PutKnown(View, j)
    BY Zenon, <2>1, <2>2 DEF PutKnown
  <2>. QED  BY Zenon, <1>1, <2>2, <2>3, <2>4, KnowsPut, ReadKeeps DEF PutRing
<1>2. CASE RollbackGetVersion(p)
  <2>1. CASE Finish(p)
    BY Zenon, <1>2, <2>1, FinishKeeps DEF RollbackGetVersion
  <2>2. CASE id = req[p].id /\ \E e \in history[req[p].version] :
               Proceed(p, [at |-> "check", id |-> id, expect |-> req[p].expect, e |-> e])
    <3>. PICK e \in history[req[p].version] :
               Proceed(p, [at |-> "check", id |-> id, expect |-> req[p].expect, e |-> e])
      BY Zenon, <2>2
    <3>. DEFINE j == [at |-> "check", id |-> id, expect |-> req[p].expect, e |-> e]
    <3>1. req[p] \in Targeting /\ PutKnown(View, req[p])
      BY Zenon, <1>2, Carried, Position DEF RollbackGetVersion, Knows
    <3>2. e \in Envelopes
      BY Zenon, <3>1 DEF Targeting, SecretsInv, RegistryInv, RegistryTypes
    <3>3. j \in Writing /\ j.id = req[p].id /\ j.expect = req[p].expect
      BY Zenon, <2>2, <3>1, <3>2 DEF Targeting, Writing
    <3>4. Proceed(p, j)
      BY Zenon
    <3>. HIDE DEF j
    <3>5. PutKnown(View, j)
      BY Zenon, <3>1, <3>3 DEF PutKnown
    <3>. QED  BY Zenon, <1>2, <3>3, <3>4, <3>5, KnowsPut, ReadKeeps DEF RollbackGetVersion
  <2>. QED  BY Zenon, <1>2, <2>1, <2>2 DEF RollbackGetVersion
<1>3. CASE CheckKEKNotRetired(p)
  <2>1. CASE Finish(p)
    BY Zenon, <1>3, <2>1, FinishKeeps DEF CheckKEKNotRetired
  <2>2. CASE Proceed(p, [req[p] EXCEPT !.at = "put"])
    <3>. DEFINE j == [req[p] EXCEPT !.at = "put"]
    <3>1. req[p] \in Writing /\ PutKnown(View, req[p])
      BY Zenon, <1>3, Carried, Position DEF CheckKEKNotRetired, Knows
    <3>2. j \in Writing /\ j.id = req[p].id /\ j.expect = req[p].expect
      BY Zenon, <3>1 DEF Writing
    <3>3. Proceed(p, j)
      BY Zenon, <2>2
    <3>. HIDE DEF j
    <3>4. PutKnown(View, j)
      BY Zenon, <3>1, <3>2 DEF PutKnown
    <3>. QED  BY Zenon, <1>3, <3>2, <3>3, <3>4, KnowsPut, ReadKeeps DEF CheckKEKNotRetired
  <2>. QED  BY Zenon, <1>3, <2>1, <2>2 DEF CheckKEKNotRetired
<1>. QED  BY Zenon, <1>1, <1>2, <1>3

LEMMA RewrapRingKeeps ==
    ASSUME SecretsInv, NEW p \in Requests, RewrapRing(p)
    PROVE  SecretsInv'
<1>. DEFINE j == [at |-> "ids", ring |-> Listed(lineage)]
<1>1. Linear(Listed(lineage), Act) /\ Listed(lineage) \in Rings /\ Act \in Nat
  BY DEF SecretsInv, LineageInv, Linear, Keks
<1>2. j \in Listing /\ j.ring = Listed(lineage)
  BY Zenon, <1>1 DEF Listing
<1>3. RingKnown(View, j.ring)
  BY <1>1, <1>2, Carried DEF RingKnown, Act
<1>4. Proceed(p, j)
  BY Zenon DEF RewrapRing
<1>. HIDE DEF j
<1>. QED  BY Zenon, <1>2, <1>3, <1>4, KnowsListing, ReadKeeps DEF RewrapRing

\* The registry row of a secret that is there is an item.
LEMMA RowIsItem ==
    ASSUME SecretsInv, id # 0
    PROVE  <<id, 0>> \in Item /\ ItemKnown(View, <<id, 0>>)
<1>1. id \in Nat /\ nextId \in Nat /\ id < nextId /\ View.next = nextId
  BY Zenon DEF SecretsInv, RegistryInv, RegistryTypes, View
<1>2. 0 \in 0 .. MaxVersion
  BY SecretConstants
<1>. QED  BY <1>1, <1>2 DEF Item, ItemKnown

LEMMA ListIdsKeeps ==
    ASSUME SecretsInv, NEW p \in Requests, ListIds(p)
    PROVE  SecretsInv'
<1>1. req[p] \in Listing /\ RingKnown(View, req[p].ring)
  BY Zenon, Carried, Position DEF ListIds, Knows
<1>2. ASSUME NEW items \in SUBSET {<<id, 0>>}, items # {} => id # 0,
             Proceed(p, [at |-> "refs", ring |-> req[p].ring, items |-> items])
      PROVE  SecretsInv'
  <2>. DEFINE j == [at |-> "refs", ring |-> req[p].ring, items |-> items]
  <2>1. items \in SUBSET Item /\ \A item \in items : ItemKnown(View, item)
    BY Zenon, <1>2, RowIsItem
  <2>2. j \in Batch /\ j.ring = req[p].ring /\ j.items = items
    BY Zenon, <1>1, <2>1 DEF Listing, Batch
  <2>3. Proceed(p, j)
    BY Zenon, <1>2
  <2>. HIDE DEF j
  <2>. QED  BY Zenon, <1>1, <2>1, <2>2, <2>3, KnowsBatch, ReadKeeps DEF ListIds
<1>3. CASE Proceed(p, [at |-> "refs", ring |-> req[p].ring,
                    items |-> {<<id, 0>> : e \in {e \in env : e.kek # ActiveVersion(req[p].ring)}}])
  <2>. DEFINE items == {<<id, 0>> : e \in {e \in env : e.kek # ActiveVersion(req[p].ring)}}
  <2>1. items \in SUBSET {<<id, 0>>}
    BY Zenon
  <2>2. items # {} => id # 0
    BY Zenon DEF SecretsInv, RegistryInv, RegistryTypes
  <2>3. Proceed(p, [at |-> "refs", ring |-> req[p].ring, items |-> items])
    BY Zenon, <1>3
  <2>. HIDE DEF items
  <2>. QED  BY Zenon, <1>2, <2>1, <2>2, <2>3
<1>4. CASE id # 0 /\ Proceed(p, [at |-> "refs", ring |-> req[p].ring, items |-> {<<id, 0>>}])
  BY ZenonT(60), <1>2, <1>4
<1>. QED  BY ZenonT(60), <1>3, <1>4 DEF ListIds

\* A version that has a history row and is not the current one is an older one.
LEMMA OlderIsItem ==
    ASSUME SecretsInv, NEW v \in Versions \ {current}, history[v] # {}
    PROVE  <<id, v>> \in Item /\ ItemKnown(View, <<id, v>>)
<1>1. id # 0 /\ id \in Nat /\ id < nextId /\ nextId \in Nat /\ current \in Versions
  BY Zenon DEF SecretsInv, RegistryInv, RegistryTypes
<1>2. v \in 1 .. current
  BY Zenon, <1>1 DEF SecretsInv, RegistryInv, HistoryMirrorsRow
<1>3. v < current /\ v # 0
  BY <1>1, <1>2 DEF Versions
<1>. QED  BY <1>1, <1>3 DEF Item, ItemKnown, View, Versions

LEMMA ListRefsKeeps ==
    ASSUME SecretsInv, NEW p \in Requests, ListRefs(p)
    PROVE  SecretsInv'
<1>. DEFINE refs == {v \in Versions \ {current} :
                       \E e \in history[v] : e.kek # ActiveVersion(req[p].ring)}
            items == req[p].items \union ({id} \X refs)
            j == [req[p] EXCEPT !.at = "item", !.items = items]
<1>1. /\ req[p] \in Batch /\ RingKnown(View, req[p].ring)
      /\ \A item \in req[p].items : ItemKnown(View, item)
  BY Zenon, Carried, Position DEF ListRefs, Knows
<1>2. ASSUME NEW item \in items PROVE item \in Item /\ ItemKnown(View, item)
  <2>1. CASE item \in req[p].items
    BY Zenon, <1>1, <2>1 DEF Batch
  <2>2. CASE item \in {id} \X refs
    <3>1. PICK v \in refs : item = <<id, v>>
      BY <2>2
    <3>2. v \in Versions \ {current} /\ history[v] # {}
      BY Zenon
    <3>. QED  BY Zenon, <3>1, <3>2, OlderIsItem
  <2>. QED  BY Zenon, <2>1, <2>2
<1>3. Proceed(p, j)
  BY Zenon DEF ListRefs
<1>. HIDE DEF items
<1>4. j \in Batch /\ j.ring = req[p].ring /\ j.items = items
  BY Zenon, <1>1, <1>2 DEF Batch
<1>. HIDE DEF j
<1>. QED  BY Zenon, <1>1, <1>2, <1>3, <1>4, KnowsBatch, ReadKeeps DEF ListRefs

\* What is read for an item is one envelope at most.
LEMMA GetIsOne ==
    ASSUME SecretsInv, NEW item \in Item, ItemKnown(View, item)
    PROVE  /\ Get(item) = GetIn(View, item) /\ Get(item) \in SUBSET Envelopes
           /\ \A e, f \in Get(item) : e = f
<1>1. Get(item) = GetIn(View, item)
  BY Zenon DEF Get, GetIn, View
<1>2. CASE id # item[1]
  BY Zenon, <1>1, <1>2 DEF Get
<1>3. CASE id = item[1] /\ item[2] = 0
  <2>1. id # 0
    BY <1>3 DEF ItemKnown
  <2>2. current \in Versions /\ history[current] = env
    BY Zenon, <2>1 DEF SecretsInv, RegistryInv, RegistryTypes, HistoryMirrorsRow
  <2>. QED  BY Zenon, <1>1, <1>3, <2>2 DEF Get, SecretsInv, RegistryInv, RegistryTypes
<1>4. CASE id = item[1] /\ item[2] # 0
  <2>1. item[2] \in Versions
    BY <1>4 DEF Item, Versions
  <2>. QED  BY Zenon, <1>1, <1>4, <2>1 DEF Get, SecretsInv, RegistryInv, RegistryTypes
<1>. QED  BY Zenon, <1>2, <1>3, <1>4

LEMMA RewrapGetKeeps ==
    ASSUME SecretsInv, NEW p \in Requests, RewrapGet(p)
    PROVE  SecretsInv'
<1>1. /\ req[p] \in Batch /\ RingKnown(View, req[p].ring)
      /\ \A item \in req[p].items : ItemKnown(View, item)
  BY Zenon, Carried, Position DEF RewrapGet, Knows
<1>2. PICK item \in req[p].items :
         LET rest == [req[p] EXCEPT !.items = @ \ {item}]
         IN IF Rewrap(req[p].ring, Get(item)) = {}
            THEN Proceed(p, rest)
            ELSE \E e \in Get(item) :
                    Proceed(p, [at |-> "update", item |-> item, e |-> e, rest |-> rest])
  BY Zenon DEF RewrapGet
<1>. DEFINE rest == [req[p] EXCEPT !.items = @ \ {item}]
<1>3. /\ rest \in Batch /\ rest.ring = req[p].ring
      /\ rest.items \subseteq req[p].items
  BY Zenon, <1>1 DEF Batch
<1>4. item \in Item /\ ItemKnown(View, item) /\ req[p].ring \in Rings
  BY Zenon, <1>1 DEF Batch
<1>. HIDE DEF rest
<1>5. CASE Proceed(p, rest)
  BY Zenon, <1>1, <1>3, <1>5, KnowsBatch, ReadKeeps DEF RewrapGet
<1>6. CASE /\ Rewrap(req[p].ring, Get(item)) # {}
           /\ \E e \in Get(item) :
                 Proceed(p, [at |-> "update", item |-> item, e |-> e, rest |-> rest])
  <2>1. PICK e \in Get(item) : Proceed(p, [at |-> "update", item |-> item, e |-> e, rest |-> rest])
    BY Zenon, <1>6
  <2>. DEFINE j == [at |-> "update", item |-> item, e |-> e, rest |-> rest]
              ring == req[p].ring
  <2>2. e \in Envelopes /\ e \in Rewrap(ring, Get(item))
    BY Zenon, <1>4, <1>6, <2>1, GetIsOne DEF Rewrap
  <2>3. e.kek \in Keks /\ e.kek # ActiveVersion(ring) /\ Opens(ring, e.kek)
    BY Zenon, <2>2 DEF Rewrap, Envelopes
  <2>4. e.kek < ActiveVersion(ring)
    BY <1>1, <2>3 DEF RingKnown, Linear, Opens, Keks
  <2>5. j \in Updating /\ j.item = item /\ j.e = e /\ j.rest = rest
    BY Zenon, <1>3, <1>4, <2>2 DEF Updating
  <2>6. Proceed(p, j)
    BY Zenon, <2>1
  <2>. HIDE DEF j
  <2>7. UpdateKnown(View, j)
    <3>1. ~View.stale => \A f \in GetIn(View, item) : f.kek = e.kek => f = e
      BY ZenonT(60), <1>3, <1>4, <2>1, GetIsOne
    <3>. QED  BY Zenon, <1>1, <1>3, <1>4, <2>4, <2>5, <3>1 DEF UpdateKnown
  <2>. QED  BY Zenon, <2>5, <2>6, <2>7, KnowsUpdating, ReadKeeps DEF RewrapGet
<1>. QED  BY Zenon, <1>2, <1>5, <1>6 DEF rest

-----------------------------------------------------------------------------
(* The lineage.                                                            *)

LEMMA RotateListKeeps ==
    ASSUME SecretsInv, NEW p \in Requests, RotateList(p)
    PROVE  SecretsInv'
<1>. DEFINE j == [at |-> "key", next |-> 1 + Act]
<1>1. Newest({k \in Keks : Listed(lineage)[k] # "none"}) = Act /\ Act \in Keks
  BY Zenon, LinearFacts DEF SecretsInv, LineageInv, Linear
<1>2. 1 + Act \in Keks /\ Proceed(p, j)
  BY Zenon, <1>1 DEF RotateList
<1>3. j \in RotatingKEK /\ j.next = 1 + Act /\ j.at = "key"
  BY Zenon, <1>2 DEF RotatingKEK
<1>4. RotateKnown(View, j)
  BY <1>1, <1>3, Carried DEF RotateKnown, Keks
<1>. HIDE DEF j
<1>. QED  BY Zenon, <1>2, <1>3, <1>4, KnowsRotating, ReadKeeps DEF RotateList

\* The registry is kept by a step that leaves it alone and retires nothing that
\* is in use without force.
LEMMA RegistryUntouched ==
    ASSUME SecretsInv, UNCHANGED <<registry, nextId, written, puts, stale>>,
           forced' \subseteq Keks, forced \subseteq forced',
           ~stale => \A v \in Versions : \A e \in history[v] :
                        lineage'[e.kek] = "retired" => lineage[e.kek] = "retired" \/ e.kek \in forced'
    PROVE  RegistryInv'
<1>1. RegistryTypes'
  BY Zenon DEF SecretsInv, RegistryInv, RegistryTypes, registry
<1>2. HistoryMirrorsRow' /\ NoPutLost'
  BY Zenon DEF SecretsInv, RegistryInv, HistoryMirrorsRow, NoPutLost, registry
<1>3. FreshWritesAreSafe'
  BY Zenon DEF SecretsInv, RegistryInv, FreshWritesAreSafe, ValuesKept, NothingStranded, registry
<1>. QED  BY Zenon, <1>1, <1>2, <1>3 DEF RegistryInv

\* The view grows with a step that leaves the registry alone.
LEMMA LineageGrows ==
    ASSUME SecretsInv, UNCHANGED <<registry, nextId, stale>>, hsmKeys \subseteq hsmKeys',
           Act' \in Keks, Act' >= Act,
           \A k \in Keks : lineage[k] \in {"retiring", "retired"} =>
                              lineage'[k] \in {"retiring", "retired"}
    PROVE  Grows(View, View')
<1>1. /\ Act \in Nat /\ nextId \in Nat /\ current \in Nat
      /\ \A k \in Keks : lineage[k] \in {"retiring", "retired"} => k < Act
  BY OldIsOlder DEF SecretsInv, RegistryInv, RegistryTypes, LineageInv, Linear, Keks
<1>2. /\ View'.act = Act' /\ View'.lineage = lineage' /\ View'.hsmKeys = hsmKeys'
      /\ View'.next = View.next /\ View'.id = View.id /\ View'.current = View.current
      /\ View'.env = View.env /\ View'.history = View.history /\ View'.stale = View.stale
  BY Zenon DEF View, registry
<1>3. /\ View.act = Act /\ View.lineage = lineage /\ View.hsmKeys = hsmKeys
      /\ View.next = nextId /\ View.current = current
  BY Zenon DEF View
<1>. QED  BY <1>1, <1>2, <1>3 DEF Grows

\* A rotation that found the key of its version may record it.
LEMMA RotateFindKeyKeeps ==
    ASSUME SecretsInv, NEW p \in Requests, RotateFindKey(p)
    PROVE  SecretsInv'
<1>1. req[p] \in RotatingKEK /\ RotateKnown(View, req[p]) /\ View.hsmKeys = hsmKeys
  BY Zenon, Carried, Position DEF RotateFindKey, Knows
<1>2. PICK l \in {"generate", "record"} :
         /\ Proceed(p, [req[p] EXCEPT !.at = l])
         /\ l = "record" => req[p].next \in hsmKeys
  BY Zenon DEF RotateFindKey
<1>. DEFINE j == [req[p] EXCEPT !.at = l]
<1>3. j \in RotatingKEK /\ j.next = req[p].next /\ j.at = l
  BY Zenon, <1>1 DEF RotatingKEK
<1>4. RotateKnown(View, j)
  BY Zenon, <1>1, <1>2, <1>3 DEF RotateKnown
<1>5. Proceed(p, j)
  BY Zenon, <1>2
<1>. HIDE DEF j
<1>. QED  BY Zenon, <1>3, <1>4, <1>5, KnowsRotating, ReadKeeps DEF RotateFindKey

LEMMA RotateGenerateKeyKeeps ==
    ASSUME SecretsInv, NEW p \in Requests, RotateGenerateKey(p)
    PROVE  SecretsInv'
<1>. DEFINE j == [req[p] EXCEPT !.at = "record"]
<1>a. CASE req[p].next \in hsmKeys
  BY Zenon, <1>a, FinishKeeps DEF RotateGenerateKey
<1>b. CASE req[p].next \notin hsmKeys
  <2>1. req[p] \in RotatingKEK /\ RotateKnown(View, req[p])
    BY Zenon, Carried, Position DEF RotateGenerateKey, Knows
  <2>2. j \in RotatingKEK /\ j.next = req[p].next /\ j.next \in Keks
    BY Zenon, <2>1 DEF RotatingKEK
  <2>3. hsmKeys' = hsmKeys \union {j.next} /\ lineage' = lineage /\ Act' = Act
    BY Zenon, <1>b, <2>2 DEF RotateGenerateKey, Act
  <2>4. LineageInv'
    BY Zenon, <2>2, <2>3 DEF SecretsInv, LineageInv
  <2>5. RegistryInv'
    BY Zenon, <2>3, RegistryUntouched
       DEF RotateGenerateKey, ghosts, SecretsInv, RegistryInv, RegistryTypes
  <2>6. Act \in Keks /\ Act >= Act
    BY DEF SecretsInv, LineageInv, Linear, Keks
  <2>7. Grows(View, View')
    BY Zenon, <2>3, <2>6, LineageGrows DEF RotateGenerateKey, ghosts
  <2>8. View'.act = View.act /\ j.next \in View'.hsmKeys
    BY <2>3 DEF View
  <2>9. req' = [req EXCEPT ![p] = j]
    BY Zenon, <1>b DEF RotateGenerateKey, Proceed
  <2>. HIDE DEF j
  <2>10. j \in RequestStates /\ Knows(View', j)
    BY Zenon, <2>1, <2>2, <2>8, KnowsRotating DEF RotateKnown
  <2>. QED  BY ZenonT(40), <2>4, <2>5, <2>7, <2>9, <2>10, StepKeeps
<1>. QED  BY Zenon, <1>a, <1>b

LEMMA RotateRecordKeeps ==
    ASSUME SecretsInv, NEW p \in Requests, RotateKEKVersion(p)
    PROVE  SecretsInv'
<1>1. /\ req[p] \in RotatingKEK /\ req[p].next \in Keks
      /\ req[p].next \in 2 .. Act + 1 /\ req[p].next \in hsmKeys
  BY Zenon, Carried, Position DEF RotateKEKVersion, Knows, RotateKnown, RotatingKEK
<1>2. CASE lineage' = lineage
  BY Zenon, <1>2, FinishKeeps DEF RotateKEKVersion
<1>3. CASE /\ lineage[req[p].next] = "none"
           /\ lineage' = [k \in Keks |-> IF k = req[p].next THEN "active"
                                         ELSE IF Listed(lineage)[k] = "active" THEN "retiring"
                                         ELSE lineage[k]]
  <2>1. Linear(Listed(lineage), Act) /\ lineage \in Rings /\ Act \in Keks
    BY Zenon DEF SecretsInv, LineageInv, Linear
  <2>2. /\ \A k \in Keks \ {1} : Listed(lineage)[k] = lineage[k]
        /\ Listed(lineage) # lineage => Act = 1
    <3>1. CASE Listed(lineage) = lineage
      BY Zenon, <3>1
    <3>2. CASE Listed(lineage) = [lineage EXCEPT ![1] = "active"] /\ \A k \in Keks : lineage[k] = "none"
      <4>1. 1 \in Keks
        BY SecretConstants DEF Keks
      <4>2. \A k \in Keks \ {1} : Listed(lineage)[k] = lineage[k]
        BY Zenon, <2>1, <3>2 DEF Rings
      <4>3. Listed(lineage)[Act] = "active"
        BY Zenon, <2>1 DEF Linear
      <4>4. Act = 1
        BY Zenon, <2>1, <3>2, <4>2, <4>3
      <4>. QED  BY Zenon, <4>2, <4>4
    <3>. QED  BY Zenon, <3>1, <3>2 DEF Listed
  <2>3. req[p].next = Act + 1
    <3>1. req[p].next \in Keks \ {1}
      BY <1>1
    <3>2. Listed(lineage)[req[p].next] = "none"
      BY Zenon, <1>3, <2>2, <3>1
    <3>. QED  BY <1>1, <2>1, <3>2 DEF Linear, Keks
  <2>4. lineage' \in Rings
    BY Zenon, <1>3, <2>1 DEF Rings, Statuses
  <2>5. ASSUME NEW k \in Keks
        PROVE  /\ k < Act + 1 => lineage'[k] \in {"retiring", "retired"}
               /\ k = Act + 1 => lineage'[k] = "active"
               /\ k > Act + 1 => lineage'[k] = "none"
    <3>1. CASE k < Act
      BY <1>3, <2>1, <2>2, <2>3, <3>1 DEF Linear, Keks
    <3>2. CASE k = Act
      BY <1>3, <2>1, <2>3, <3>2 DEF Linear, Keks
    <3>3. CASE k = Act + 1
      BY <1>3, <2>1, <2>3, <3>3 DEF Keks
    <3>4. CASE k > Act + 1
      BY <1>3, <2>1, <2>2, <2>3, <3>4 DEF Linear, Keks
    <3>. QED  BY <2>1, <3>1, <3>2, <3>3, <3>4 DEF Keks
  <2>6. Linear(lineage', Act + 1)
    BY Zenon, <1>1, <2>3, <2>4, <2>5 DEF Linear
  <2>7. Listed(lineage') = lineage'
    BY Zenon, <1>1, <2>3, <2>5 DEF Listed
  <2>8. Act' = Act + 1
    BY Zenon, <2>6, <2>7, LinearFacts DEF Act
  <2>9. 1 .. Act + 1 \subseteq hsmKeys
    BY <1>1, <2>1, <2>3 DEF SecretsInv, LineageInv, Keks
  <2>10. LineageInv'
    BY Zenon, <2>4, <2>6, <2>7, <2>8, <2>9 DEF LineageInv, SecretsInv, RotateKEKVersion
  <2>11. \A k \in Keks : lineage'[k] = "retired" => lineage[k] = "retired"
    BY Zenon, <1>3
  <2>12. RegistryInv'
    <3>1. \A v \in Versions : \A e \in history[v] : e.kek \in Keks
      BY DEF SecretsInv, RegistryInv, RegistryTypes, Envelopes
    <3>. QED  BY Zenon, <2>11, <3>1, RegistryUntouched
              DEF RotateKEKVersion, ghosts, SecretsInv, RegistryInv, RegistryTypes
  <2>13. \A k \in Keks : lineage[k] \in {"retiring", "retired"} =>
                            lineage'[k] \in {"retiring", "retired"}
    <3>1. \A k \in Keks : lineage[k] \in {"retiring", "retired"} => k < Act
      BY Zenon, OldIsOlder DEF SecretsInv
    <3>. QED  BY <2>1, <2>5, <3>1 DEF Keks
  <2>14. Act' \in Keks /\ Act' >= Act
    BY <1>1, <2>1, <2>3, <2>8 DEF Keks
  <2>15. Grows(View, View')
    BY Zenon, <2>13, <2>14, LineageGrows DEF RotateKEKVersion, ghosts
  <2>. QED  BY Zenon, <2>10, <2>12, <2>15, KnowsIdle, StepKeeps DEF RotateKEKVersion, Finish, Proceed
<1>. QED  BY Zenon, <1>2, <1>3 DEF RotateKEKVersion

LEMMA RetireReads ==
    ASSUME SecretsInv, NEW p \in Requests, RetireList(p) \/ RetireCount(p)
    PROVE  SecretsInv'
<1>1. CASE RetireList(p)
  <2>1. PICK k \in Keks, force \in BOOLEAN :
           /\ lineage[k] = "retiring"
           /\ Proceed(p, [at |-> IF force THEN "retire" ELSE "count", kek |-> k, force |-> force])
    BY Zenon, <1>1 DEF RetireList
  <2>. DEFINE j == [at |-> IF force THEN "retire" ELSE "count", kek |-> k, force |-> force]
  <2>2. j \in RetiringKEK /\ j.kek = k /\ (j.at = "retire" => j.force)
    BY Zenon DEF RetiringKEK
  <2>3. Proceed(p, j)
    BY Zenon, <2>1
  <2>. HIDE DEF j
  <2>4. RetireKnown(View, j)
    BY Zenon, <2>1, <2>2, Carried DEF RetireKnown
  <2>. QED  BY Zenon, <1>1, <2>2, <2>3, <2>4, KnowsRetiring, ReadKeeps DEF RetireList
<1>2. CASE RetireCount(p)
  <2>1. req[p] \in RetiringKEK /\ RetireKnown(View, req[p])
    BY Zenon, <1>2, Carried, Position DEF RetireCount, Knows
  <2>2. CASE Finish(p)
    BY Zenon, <1>2, <2>2, FinishKeeps DEF RetireCount
  <2>3. CASE OnKEK(req[p].kek) = {} /\ Proceed(p, [req[p] EXCEPT !.at = "retire"])
    <3>. DEFINE j == [req[p] EXCEPT !.at = "retire"]
    <3>1. j \in RetiringKEK /\ j.kek = req[p].kek
      BY Zenon, <2>1 DEF RetiringKEK
    <3>2. ASSUME NEW v \in Versions, NEW f \in history[v] PROVE f.kek # req[p].kek
      <4>1. id # 0
        BY Zenon, <3>2 DEF SecretsInv, RegistryInv, RegistryTypes
      <4>2. history[current] = env
        BY Zenon, <4>1 DEF SecretsInv, RegistryInv, HistoryMirrorsRow
      <4>3. f \in (IF v = current THEN env ELSE history[v])
        BY Zenon, <3>2, <4>2
      <4>. QED  BY Zenon, <2>3, <4>3 DEF OnKEK
    <3>3. Proceed(p, j)
      BY Zenon, <2>3
    <3>. HIDE DEF j
    <3>4. RetireKnown(View, j)
      BY Zenon, <2>1, <3>1, <3>2, Carried DEF RetireKnown
    <3>. QED  BY Zenon, <1>2, <3>1, <3>3, <3>4, KnowsRetiring, ReadKeeps DEF RetireCount
  <2>. QED  BY Zenon, <1>2, <2>2, <2>3 DEF RetireCount
<1>. QED  BY Zenon, <1>1, <1>2

LEMMA RetireSetKeeps ==
    ASSUME SecretsInv, NEW p \in Requests, RetireSet(p)
    PROVE  SecretsInv'
<1>1. req[p] \in RetiringKEK /\ RetireKnown(View, req[p]) /\ req[p].kek \in Keks
  BY Zenon, Carried, Position DEF RetireSet, Knows, RetiringKEK
<1>2. lineage[req[p].kek] \in {"retiring", "retired"}
  BY Zenon, <1>1, Carried DEF RetireKnown
<1>3. req[p].kek < Act /\ Listed(lineage) = lineage /\ Act \in Keks
  BY Zenon, <1>1, <1>2, OldIsOlder DEF SecretsInv
<1>4. Linear(lineage, Act) /\ lineage \in Rings
  BY Zenon, <1>3 DEF SecretsInv, LineageInv
<1>5. lineage' = [lineage EXCEPT ![req[p].kek] = "retired"] /\ lineage' \in Rings
  BY Zenon, <1>1, <1>4 DEF RetireSet, Rings, Statuses
<1>6. Linear(lineage', Act)
  BY Zenon, <1>1, <1>3, <1>4, <1>5 DEF Linear, Rings, Keks
<1>7. Listed(lineage') = lineage'
  BY Zenon, <1>3, <1>6 DEF Listed, Linear
<1>8. Act' = Act
  BY Zenon, <1>6, <1>7, LinearFacts DEF Act
<1>9. LineageInv'
  BY Zenon, <1>5, <1>6, <1>7, <1>8 DEF LineageInv, SecretsInv, RetireSet
<1>10. RegistryInv'
  <2>1. forced' \subseteq Keks /\ forced \subseteq forced' /\ (req[p].force => req[p].kek \in forced')
    BY Zenon, <1>1 DEF RetireSet, SecretsInv, RegistryInv, RegistryTypes
  <2>2. ASSUME ~stale, NEW v \in Versions, NEW e \in history[v], lineage'[e.kek] = "retired"
        PROVE  lineage[e.kek] = "retired" \/ e.kek \in forced'
    <3>1. e.kek \in Keks
      BY <2>2 DEF SecretsInv, RegistryInv, RegistryTypes, Envelopes
    <3>2. CASE e.kek # req[p].kek
      BY Zenon, <1>4, <1>5, <2>2, <3>1, <3>2 DEF Rings
    <3>3. CASE e.kek = req[p].kek /\ req[p].force
      BY Zenon, <2>1, <3>3
    <3>4. CASE e.kek = req[p].kek /\ ~req[p].force
      BY Zenon, <1>1, <2>2, <3>4, Carried DEF RetireSet, RetireKnown
    <3>. QED  BY Zenon, <3>2, <3>3, <3>4
  <2>. QED  BY Zenon, <2>1, <2>2, RegistryUntouched DEF RetireSet
<1>11. \A k \in Keks : lineage[k] \in {"retiring", "retired"} =>
                          lineage'[k] \in {"retiring", "retired"}
  BY Zenon, <1>4, <1>5 DEF Rings
<1>12. Grows(View, View')
  <2>1. Act' \in Keks /\ Act' >= Act
    BY <1>3, <1>8 DEF Keks
  <2>. QED  BY Zenon, <1>11, <2>1, LineageGrows DEF RetireSet
<1>. QED  BY ZenonT(40), <1>9, <1>10, <1>12, KnowsIdle, StepKeeps DEF RetireSet, Finish, Proceed

-----------------------------------------------------------------------------
(* The registry.                                                           *)

\* A step that leaves the lineage alone grows if what it adds is stored under
\* the active version or marks the state stale.
LEMMA RegistryGrows ==
    ASSUME SecretsInv, UNCHANGED <<lineage, hsmKeys>>, RegistryTypes',
           nextId' >= nextId, stale => stale',
           id' \in {id, 0} \/ id' >= nextId, id' = id => current' >= current,
           ~stale' => /\ \A f \in env' : f \in env \/ f.kek = Act
                      /\ \A v \in Versions : \A f \in history'[v] : f \in history[v] \/ f.kek = Act
    PROVE  LineageInv' /\ Grows(View, View')
<1>1. Act' = Act /\ Act \in Nat
  BY DEF Act, SecretsInv, LineageInv, Linear, Keks
<1>2. LineageInv'
  BY Zenon, <1>1 DEF SecretsInv, LineageInv
<1>3. \A k \in Keks : lineage[k] \in {"retiring", "retired"} => k < Act
  BY Zenon, OldIsOlder DEF SecretsInv
<1>4. /\ View'.act = Act /\ View'.lineage = lineage /\ View'.hsmKeys = hsmKeys
      /\ View'.next = nextId' /\ View'.id = id' /\ View'.current = current'
      /\ View'.env = env' /\ View'.history = history' /\ View'.stale = stale'
  BY Zenon, <1>1 DEF View
<1>5. /\ View.act = Act /\ View.lineage = lineage /\ View.hsmKeys = hsmKeys
      /\ View.next = nextId /\ View.id = id /\ View.current = current
      /\ View.env = env /\ View.history = history /\ View.stale = stale
  BY Zenon, SMTT(40) DEF View
<1>6. Grows(View, View')
  BY <1>1, <1>3, <1>4, <1>5 DEF Grows
<1>. QED  BY Zenon, <1>2, <1>6

\* What Stored records: a write that leaves no mark was under the active version,
\* which is not retired.
LEMMA StoredFresh ==
    ASSUME SecretsInv, NEW e \in Envelopes, Stored(e)
    PROVE  /\ stale' \in BOOLEAN /\ (stale => stale')
           /\ ~stale' => ~stale /\ e.kek = Act /\ lineage[e.kek] # "retired"
<1>1. stale' = (stale \/ e.kek # Act) /\ stale \in BOOLEAN
  BY Zenon DEF Stored, Act, SecretsInv, RegistryInv, RegistryTypes
<1>2. lineage[Act] # "retired"
  BY Zenon, OldIsOlder DEF SecretsInv, LineageInv, Linear
<1>. QED  BY Zenon, <1>1, <1>2

LEMMA CreateKeeps ==
    ASSUME SecretsInv, NEW p \in Requests, CreateStoredSecret(p)
    PROVE  SecretsInv'
<1>1. CASE UNCHANGED <<registry, nextId, written, puts, stale>>
  BY Zenon, <1>1, FinishKeeps DEF CreateStoredSecret, ghosts
<1>2. CASE id = 0 /\ ~UNCHANGED <<registry, nextId, written, puts, stale>>
  <2>. DEFINE e == req[p].e
  <2>1. e \in Envelopes /\ e.value \in Values
    BY Carried, Position DEF CreateStoredSecret, Storing, Envelopes
  <2>2. /\ id' = nextId /\ nextId' = nextId + 1 /\ current' = 1 /\ env' = {e}
        /\ history' = [v \in Versions |-> IF v = 1 THEN {e} ELSE {}]
        /\ written' = [v \in Versions |-> IF v = 1 THEN {e.value} ELSE {}]
        /\ puts' = 0 /\ Stored(e) /\ forced' = forced
        /\ lineage' = lineage /\ hsmKeys' = hsmKeys /\ req' = [req EXCEPT ![p] = Free]
    BY Zenon, <1>2 DEF CreateStoredSecret, Finish, Proceed
  <2>. HIDE DEF e
  <2>3. /\ stale' \in BOOLEAN /\ (stale => stale')
        /\ ~stale' => ~stale /\ e.kek = Act /\ lineage[e.kek] # "retired"
    BY Zenon, <2>1, <2>2, StoredFresh
  <2>4. 1 \in Versions /\ nextId \in Nat /\ nextId > 0
    BY SecretConstants DEF Versions, SecretsInv, RegistryInv, RegistryTypes
  <2>5. /\ history' \in [Versions -> SUBSET Envelopes] /\ written' \in [Versions -> SUBSET Values]
        /\ \A v \in Versions : history'[v] = (IF v = 1 THEN {e} ELSE {})
        /\ \A v \in Versions : written'[v] = (IF v = 1 THEN {e.value} ELSE {})
    BY Zenon, <2>1, <2>2
  <2>6. RegistryTypes'
    BY <2>1, <2>2, <2>3, <2>4, <2>5 DEF RegistryTypes, SecretsInv, RegistryInv, Versions
  <2>7. HistoryMirrorsRow'
    <3>1. {v \in Versions : history'[v] # {}} = {1}
      BY <2>4, <2>5
    <3>2. {v \in 1 .. 1 : HistoryDepth = 0 \/ v + HistoryDepth > 1} = {1}
      BY SecretConstants
    <3>. QED  BY Zenon, <2>2, <2>4, <2>5, <3>1, <3>2 DEF HistoryMirrorsRow
  <2>8. NoPutLost'
    BY <2>2 DEF NoPutLost
  <2>9. FreshWritesAreSafe'
    BY Zenon, <2>2, <2>3, <2>5 DEF FreshWritesAreSafe, ValuesKept, NothingStranded
  <2>10. ~stale' => /\ \A f \in env' : f \in env \/ f.kek = Act
                    /\ \A v \in Versions : \A f \in history'[v] : f \in history[v] \/ f.kek = Act
    BY Zenon, <2>2, <2>3, <2>5
  <2>11. LineageInv' /\ Grows(View, View')
    BY <1>2, <2>2, <2>3, <2>4, <2>6, <2>10, RegistryGrows
  <2>. QED  BY ZenonT(60), <2>2, <2>6, <2>7, <2>8, <2>9, <2>11, KnowsIdle, StepKeeps DEF RegistryInv
<1>. QED  BY Zenon, <1>1, <1>2 DEF CreateStoredSecret

LEMMA DeleteKeeps ==
    ASSUME SecretsInv, DeleteStoredSecret
    PROVE  SecretsInv'
<1>1. /\ id # 0 /\ id' = 0 /\ current' = 0 /\ env' = {} /\ history' = [v \in Versions |-> {}]
      /\ written' = [v \in Versions |-> {}] /\ puts' = 0
      /\ UNCHANGED <<lineage, hsmKeys, nextId, req, stale, forced>>
  BY Zenon DEF DeleteStoredSecret
<1>2. \A v \in Versions : history'[v] = {}
  BY Zenon, <1>1
<1>3. RegistryTypes'
  BY <1>1, <1>2, SecretConstants DEF RegistryTypes, SecretsInv, RegistryInv
<1>4. RegistryInv'
  BY Zenon, <1>1, <1>2, <1>3 DEF RegistryInv, HistoryMirrorsRow, NoPutLost, FreshWritesAreSafe,
                          ValuesKept, NothingStranded
<1>5. LineageInv' /\ Grows(View, View')
  <2>1. nextId \in Nat /\ id \in Nat
    BY Zenon DEF SecretsInv, RegistryInv, RegistryTypes
  <2>. QED  BY <1>1, <1>2, <1>3, <2>1, RegistryGrows
<1>6. View \in Views /\ View' \in Views
  <2>1. View \in Views
    BY Zenon, ViewType DEF SecretsInv, RegistryInv
  <2>2. (LineageInv /\ RegistryTypes => View \in Views)'
    BY ViewType, PTL
  <2>. QED  BY Zenon, <1>3, <1>5, <2>1, <2>2
<1>7. \A q \in Requests : Knows(View', req'[q])
  BY Zenon, <1>1, <1>5, <1>6, KnowsKept DEF SecretsInv
<1>. QED  BY Zenon, <1>1, <1>4, <1>5, <1>7 DEF SecretsInv

\* PutStoredSecretVersion.
LEMMA PutKeeps ==
    ASSUME SecretsInv, NEW p \in Requests, PutStoredSecretVersion(p)
    PROVE  SecretsInv'
<1>1. CASE UNCHANGED <<current, env, history, written, puts, stale>>
  BY Zenon, <1>1, FinishKeeps DEF PutStoredSecretVersion, registry, ghosts
<1>2. CASE id = req[p].id /\ current = req[p].expect
  <2>. DEFINE e == req[p].e
              new == current + 1
  <2>1. /\ e \in Envelopes /\ e.value \in Values
        /\ id \in 1 .. nextId - 1 /\ current \in 1 .. MaxVersion - 1
    BY ZenonT(40), <1>2, Carried, Position DEF PutStoredSecretVersion, Writing, Envelopes, Knows, PutKnown
  <2>2. /\ current' = new /\ env' = {e}
        /\ history' = Pruned(new, e)
        /\ written' = [written EXCEPT ![new] = {e.value}]
        /\ puts' = puts + 1 /\ Stored(e)
        /\ UNCHANGED <<lineage, hsmKeys, id, nextId, forced>> /\ req' = [req EXCEPT ![p] = Free]
    BY ZenonT(40), <1>2 DEF PutStoredSecretVersion, Finish, Proceed
  <2>. HIDE DEF e
  <2>3. /\ stale' \in BOOLEAN /\ (stale => stale')
        /\ ~stale' => ~stale /\ e.kek = Act /\ lineage[e.kek] # "retired"
    BY Zenon, <2>1, <2>2, StoredFresh
  <2>4. /\ new \in Versions /\ new \in Nat /\ current \in Nat /\ id # 0 /\ id \in Nat
        /\ nextId \in Nat /\ current \in 1 .. current
    BY <2>1, SecretConstants DEF Versions, SecretsInv, RegistryInv, RegistryTypes
  <2>5. /\ history \in [Versions -> SUBSET Envelopes] /\ written \in [Versions -> SUBSET Values]
        /\ \A v \in Versions : \A f, g \in history[v] : f = g
        /\ puts \in Nat
    BY Zenon DEF SecretsInv, RegistryInv, RegistryTypes
  <2>6. /\ history' \in [Versions -> SUBSET Envelopes] /\ written' \in [Versions -> SUBSET Values]
        /\ history'[new] = {e} /\ written'[new] = {e.value}
        /\ \A v \in Versions \ {new} :
              /\ history'[v] = (IF HistoryDepth > 0 /\ v + HistoryDepth <= new THEN {} ELSE history[v])
              /\ written'[v] = written[v]
    <3>1. /\ history'[new] = {e}
          /\ \A v \in Versions \ {new} :
                history'[v] = (IF HistoryDepth > 0 /\ v + HistoryDepth <= new THEN {} ELSE history[v])
      BY Zenon, <2>2, <2>4 DEF Pruned
    <3>2. history' = [v \in Versions |-> history'[v]]
      BY Zenon, <2>2 DEF Pruned
    <3>3. \A v \in Versions : history'[v] \in SUBSET Envelopes
      BY Zenon, <2>1, <2>5, <3>1
    <3>4. /\ written' \in [Versions -> SUBSET Values] /\ written'[new] = {e.value}
          /\ \A v \in Versions \ {new} : written'[v] = written[v]
      BY Zenon, <2>1, <2>2, <2>4, <2>5
    <3>. QED  BY Zenon, <3>1, <3>2, <3>3, <3>4
  <2>. HIDE DEF new
  <2>7. \A v \in Versions : \A f \in history'[v] :
           (v = new /\ f = e) \/ (v # new /\ f \in history[v])
    BY Zenon, <2>6
  <2>8. RegistryTypes'
    <3>1. \A v \in Versions : \A f, g \in history'[v] : f = g
      BY Zenon, <2>5, <2>7
    <3>2. current' \in 0 .. MaxVersion /\ current' \in Versions /\ puts' \in Nat
      BY <2>2, <2>4, <2>5 DEF Versions
    <3>3. env' \in SUBSET Envelopes
      BY Zenon, <2>1, <2>2
    <3>. QED  BY Zenon, <2>2, <2>3, <2>4, <2>6, <3>1, <3>2, <3>3 DEF RegistryTypes, SecretsInv, RegistryInv
  <2>9. HistoryMirrorsRow'
    <3>1. {v \in Versions : history[v] # {}} =
             {v \in 1 .. current : HistoryDepth = 0 \/ v + HistoryDepth > current}
      BY Zenon, <2>4 DEF SecretsInv, RegistryInv, HistoryMirrorsRow
    <3>2. ASSUME NEW v \in Versions
          PROVE  history'[v] # {} <=>
                    v \in 1 .. new /\ (HistoryDepth = 0 \/ v + HistoryDepth > new)
      <4>1. CASE v = new
        <5>1. history'[v] # {}
          BY Zenon, <2>6, <4>1
        <5>2. v \in 1 .. new /\ (HistoryDepth = 0 \/ v + HistoryDepth > new)
          BY <2>4, <4>1, SecretConstants DEF Versions
        <5>. QED  BY Zenon, <5>1, <5>2
      <4>2. CASE v # new
        <5>1. history[v] # {} <=> v \in 1 .. current /\ (HistoryDepth = 0 \/ v + HistoryDepth > current)
          BY Zenon, <3>1
        <5>2. v \in 1 .. new <=> v \in 1 .. current
          BY <2>4, <4>2 DEF new, Versions
        <5>3. HistoryDepth = 0 \/ v + HistoryDepth > new => HistoryDepth = 0 \/ v + HistoryDepth > current
          BY <2>4, SecretConstants DEF new, Versions
        <5>4. history'[v] # {} <=> history[v] # {} /\ (HistoryDepth = 0 \/ v + HistoryDepth > new)
          BY <2>4, <2>6, <4>2, SecretConstants DEF Versions
        <5>. QED  BY Zenon, <5>1, <5>2, <5>3, <5>4
      <4>. QED  BY Zenon, <4>1, <4>2
    <3>3. 1 .. new \subseteq Versions
      BY <2>4, SecretConstants DEF Versions
    <3>4. {v \in Versions : history'[v] # {}} =
             {v \in 1 .. new : HistoryDepth = 0 \/ v + HistoryDepth > new}
      BY Zenon, <3>2, <3>3
    <3>. QED  BY Zenon, <2>2, <2>6, <3>4 DEF HistoryMirrorsRow
  <2>10. NoPutLost'
    BY <2>2, <2>4, <2>5 DEF NoPutLost, SecretsInv, RegistryInv, new
  <2>11. FreshWritesAreSafe'
    <3>. SUFFICES ASSUME ~stale' PROVE ValuesKept' /\ NothingStranded'
      BY Zenon DEF FreshWritesAreSafe
    <3>1. ~stale /\ ValuesKept /\ NothingStranded
      BY Zenon, <2>3 DEF SecretsInv, RegistryInv, FreshWritesAreSafe
    <3>2. ValuesKept'
      BY Zenon, <2>6, <2>7, <3>1 DEF ValuesKept
    <3>3. NothingStranded'
      BY Zenon, <2>2, <2>3, <2>7, <3>1 DEF NothingStranded
    <3>. QED  BY Zenon, <3>2, <3>3
  <2>12. ~stale' => /\ \A f \in env' : f \in env \/ f.kek = Act
                    /\ \A v \in Versions : \A f \in history'[v] : f \in history[v] \/ f.kek = Act
    BY Zenon, <2>2, <2>3, <2>7
  <2>13. current' >= current /\ nextId' >= nextId
    BY <2>2, <2>4 DEF new
  <2>14. LineageInv' /\ Grows(View, View')
    BY ZenonT(60), <2>2, <2>3, <2>8, <2>12, <2>13, RegistryGrows
  <2>. QED  BY Zenon, <2>2, <2>8, <2>9, <2>10, <2>11, <2>14, KnowsIdle, StepKeeps DEF RegistryInv
<1>. QED  BY Zenon, <1>1, <1>2 DEF PutStoredSecretVersion

\* UpdateStoredSecretEnvelope and UpdateStoredSecretVersionEnvelope.
LEMMA UpdateKeeps ==
    ASSUME SecretsInv, NEW p \in Requests, UpdateEnvelope(p)
    PROVE  SecretsInv'
<1>. DEFINE j == req[p]
            item == j.item
            rest == j.rest
            new == [value |-> j.e.value, kek |-> ActiveVersion(rest.ring)]
            version == IF item[2] = 0 THEN current ELSE item[2]
<1>1. j \in Updating /\ UpdateKnown(View, j)
  BY Zenon, Carried, Position DEF UpdateEnvelope, Knows
<1>2. item \in Item /\ rest \in Batch /\ j.e \in Envelopes /\ rest.ring \in Rings
  BY Zenon, <1>1 DEF Updating, Batch
<1>3. /\ RingKnown(View, rest.ring) /\ ItemKnown(View, item)
      /\ \A i \in rest.items : ItemKnown(View, i)
  BY ZenonT(40), <1>1 DEF UpdateKnown
<1>4. req' = [req EXCEPT ![p] = rest]
  BY Zenon DEF UpdateEnvelope, Proceed
<1>5. CASE UNCHANGED <<env, history, stale>>
  <2>1. rest \in RequestStates /\ Knows(View, rest)
    BY Zenon, <1>2, <1>3, KnowsBatch
  <2>2. UNCHANGED <<lineage, hsmKeys, registry, nextId, ghosts>>
    BY Zenon, <1>5 DEF UpdateEnvelope, registry, ghosts
  <2>3. Proceed(p, rest)
    BY Zenon, <1>4 DEF Proceed
  <2>. QED  BY Zenon, <2>1, <2>2, <2>3, ReadKeeps
<1>6. CASE \E f \in Get(item) : f.kek = j.e.kek
  <2>1. /\ env' = (IF item[2] = 0 THEN {new} ELSE env)
        /\ history' = [history EXCEPT ![version] = {new}]
        /\ Stored(new)
        /\ UNCHANGED <<lineage, hsmKeys, id, current, nextId, written, puts, forced>>
    BY Zenon, <1>6 DEF UpdateEnvelope
  <2>2. new \in Envelopes /\ new.value = j.e.value
    BY ZenonT(40), <1>2, <1>3 DEF Envelopes, RingKnown, Linear
  <2>3. PICK f \in Get(item) : f.kek = j.e.kek
    BY Zenon, <1>6
  <2>4. id = item[1] /\ id # 0
    <3>1. id = item[1]
      BY Zenon, <2>3 DEF Get
    <3>2. item[1] \in 1 .. nextId - 1
      BY Zenon, <1>3, Carried DEF ItemKnown
    <3>3. nextId \in Nat
      BY Zenon DEF SecretsInv, RegistryInv, RegistryTypes
    <3>. HIDE DEF item
    <3>. QED  BY <3>1, <3>2, <3>3
  <2>5. /\ version \in Versions /\ f \in history[version]
        /\ (item[2] = 0 => version = current) /\ (item[2] # 0 => version < current)
        /\ current \in Versions /\ history[current] = env
    <3>1. current \in Versions /\ history[current] = env
      BY Zenon, <2>4 DEF SecretsInv, RegistryInv, RegistryTypes, HistoryMirrorsRow
    <3>2. CASE item[2] = 0
      BY Zenon, <2>3, <2>4, <3>1, <3>2 DEF Get
    <3>3. CASE item[2] # 0
      <4>1. version = item[2] /\ f \in history[version]
        BY Zenon, <2>3, <2>4, <3>3 DEF Get
      <4>2. item[2] \in 0 .. MaxVersion /\ item[2] < current
        BY Zenon, <1>2, <1>3, <2>4, <3>3, Carried DEF Item, ItemKnown
      <4>3. item[2] \in Versions
        <5>. HIDE DEF item
        <5>. QED  BY <3>3, <4>2 DEF Versions
      <4>. QED  BY Zenon, <3>1, <3>3, <4>1, <4>2, <4>3
    <3>. QED  BY Zenon, <3>1, <3>2, <3>3
  <2>6. ~stale => f = j.e
    <3>1. f \in GetIn(View, item)
      BY Zenon, <1>2, <1>3, <2>3, GetIsOne
    <3>2. View.stale = stale
      BY Zenon, Carried
    <3>. QED  BY Zenon, <1>1, <2>3, <3>1, <3>2 DEF UpdateKnown
  <2>. HIDE DEF new, version, j, item, rest
  <2>7. /\ stale' \in BOOLEAN /\ (stale => stale')
        /\ ~stale' => ~stale /\ new.kek = Act /\ lineage[new.kek] # "retired"
    BY Zenon, <2>1, <2>2, StoredFresh
  <2>8. /\ history \in [Versions -> SUBSET Envelopes] /\ nextId \in Nat /\ current \in Nat
        /\ \A v \in Versions : \A g, h \in history[v] : g = h
    BY Zenon, RowNumbers DEF SecretsInv, RegistryInv, RegistryTypes
  <2>9. /\ history' \in [Versions -> SUBSET Envelopes] /\ history'[version] = {new}
        /\ \A v \in Versions \ {version} : history'[v] = history[v]
    BY <2>1, <2>2, <2>5, <2>8
  <2>10. RegistryTypes'
    <3>1. \A v \in Versions : \A g, h \in history'[v] : g = h
      BY <2>8, <2>9
    <3>2. env' \in SUBSET Envelopes
      BY ZenonT(40), <2>1, <2>2 DEF SecretsInv, RegistryInv, RegistryTypes
    <3>. QED  BY Zenon, <2>1, <2>4, <2>7, <2>9, <3>1, <3>2 DEF RegistryTypes, SecretsInv, RegistryInv
  <2>11. HistoryMirrorsRow'
    <3>1. history'[current] = env'
      <4>1. CASE item[2] = 0
        BY Zenon, <2>1, <2>5, <2>9, <4>1
      <4>2. CASE item[2] # 0
        <5>1. current # version
          BY <2>5, <4>2 DEF Versions
        <5>. QED  BY Zenon, <2>1, <2>5, <2>9, <4>2, <5>1
      <4>. QED  BY Zenon, <4>1, <4>2
    <3>2. \A v \in Versions : history'[v] # {} <=> history[v] # {}
      BY Zenon, <2>5, <2>9
    <3>. QED  BY Zenon, <2>1, <2>4, <3>1, <3>2 DEF HistoryMirrorsRow, SecretsInv, RegistryInv
  <2>12. NoPutLost'
    BY Zenon, <2>1 DEF NoPutLost, SecretsInv, RegistryInv
  <2>13. FreshWritesAreSafe'
    <3>. SUFFICES ASSUME ~stale' PROVE ValuesKept' /\ NothingStranded'
      BY Zenon DEF FreshWritesAreSafe
    <3>1. ~stale /\ ValuesKept /\ NothingStranded
      BY Zenon, <2>7 DEF SecretsInv, RegistryInv, FreshWritesAreSafe
    <3>2. {new.value} = written[version]
      BY ZenonT(60), <2>2, <2>5, <2>6, <3>1 DEF ValuesKept
    <3>3. ValuesKept'
      BY Zenon, <2>1, <2>9, <3>1, <3>2 DEF ValuesKept
    <3>4. NothingStranded'
      BY Zenon, <2>1, <2>7, <2>9, <3>1 DEF NothingStranded
    <3>. QED  BY Zenon, <3>3, <3>4
  <2>14. ~stale' => /\ \A g \in env' : g \in env \/ g.kek = Act
                    /\ \A v \in Versions : \A g \in history'[v] : g \in history[v] \/ g.kek = Act
    BY Zenon, <2>1, <2>7, <2>9
  <2>15. LineageInv' /\ Grows(View, View')
    <3>1. current' >= current /\ nextId' >= nextId
      BY <2>1, <2>8
    <3>. QED  BY Zenon, <2>1, <2>7, <2>10, <2>14, <3>1, RegistryGrows
  <2>16. View \in Views /\ View' \in Views
    <3>1. View \in Views
      BY Zenon, ViewType DEF SecretsInv, RegistryInv
    <3>2. (LineageInv /\ RegistryTypes => View \in Views)'
      BY ViewType, PTL
    <3>. QED  BY Zenon, <2>10, <2>15, <3>1, <3>2
  <2>17. rest \in RequestStates /\ Knows(View', rest)
    <3>1. rest \in RequestStates /\ Knows(View, rest)
      BY Zenon, <1>2, <1>3, KnowsBatch
    <3>. QED  BY Zenon, <2>15, <2>16, <3>1, KnowsKept
  <2>. QED  BY ZenonT(40), <1>4, <2>10, <2>11, <2>12, <2>13, <2>15, <2>17, StepKeeps DEF RegistryInv
<1>. QED  BY Zenon, <1>5, <1>6 DEF UpdateEnvelope

-----------------------------------------------------------------------------
(* The theorems.                                                           *)

LEMMA InitIInv == SecretsInit => SecretsInv
<1>. SUFFICES ASSUME SecretsInit PROVE SecretsInv
  BY Zenon
<1>1. 1 \in Keks /\ lineage \in Rings /\ \A k \in Keks : lineage[k] = "none"
  BY SecretConstants DEF SecretsInit, Rings, Statuses, Keks
<1>2. Listed(lineage) = [lineage EXCEPT ![1] = "active"]
  BY Zenon, <1>1 DEF Listed
<1>3. Linear(Listed(lineage), 1)
  BY <1>1, <1>2 DEF Linear, Rings, Statuses, Keks
<1>4. Act = 1
  BY Zenon, <1>3, LinearFacts DEF Act
<1>5. LineageInv
  BY <1>1, <1>3, <1>4 DEF LineageInv, SecretsInit
<1>6. \A v \in Versions : history[v] = {}
  BY Zenon DEF SecretsInit
<1>7. RegistryTypes
  <2>1. /\ id \in Nat /\ nextId \in Nat /\ id < nextId /\ current \in 0 .. MaxVersion
        /\ env \in SUBSET Envelopes /\ puts \in Nat /\ forced \subseteq Keks
    BY SecretConstants DEF SecretsInit
  <2>2. history \in [Versions -> SUBSET Envelopes] /\ written \in [Versions -> SUBSET Values]
    BY Zenon DEF SecretsInit
  <2>3. id = 0 /\ current = 0 /\ env = {} /\ stale \in BOOLEAN
    BY Zenon DEF SecretsInit
  <2>4. \A v \in Versions : \A e, f \in history[v] : e = f
    BY Zenon, <1>6
  <2>. QED  BY Zenon, <1>6, <2>1, <2>2, <2>3, <2>4 DEF RegistryTypes
<1>8. RegistryInv
  <2>1. HistoryMirrorsRow /\ NoPutLost
    BY Zenon DEF HistoryMirrorsRow, NoPutLost, SecretsInit
  <2>2. FreshWritesAreSafe
    BY Zenon, <1>6 DEF FreshWritesAreSafe, ValuesKept, NothingStranded
  <2>. QED  BY Zenon, <1>7, <2>1, <2>2 DEF RegistryInv
<1>9. \A p \in Requests : Free \in RequestStates /\ Knows(View, Free)
  BY Zenon, KnowsIdle
<1>10. req \in [Requests -> RequestStates] /\ \A p \in Requests : req[p] = Free
  BY Zenon, <1>9 DEF SecretsInit
<1>. QED  BY Zenon, <1>5, <1>8, <1>9, <1>10 DEF SecretsInv

LEMMA StepIInv == SecretsInv /\ [SecretsNext]_secretsVars => SecretsInv'
<1>. SUFFICES ASSUME SecretsInv, [SecretsNext]_secretsVars PROVE SecretsInv'
  BY Zenon
<1>1. CASE DeleteStoredSecret
  BY Zenon, <1>1, DeleteKeeps
<1>2. ASSUME NEW p \in Requests, Step(p) PROVE SecretsInv'
  <2>1. CASE StoreFind(p) \/ StoreRing(p)
    BY Zenon, <2>1, StoreReads
  <2>2. CASE CreateStoredSecret(p)
    BY Zenon, <2>2, CreateKeeps
  <2>3. CASE ReadRow(p)
    BY Zenon, <2>3, ReadRowKeeps
  <2>4. CASE PutRing(p) \/ RollbackGetVersion(p) \/ CheckKEKNotRetired(p)
    BY Zenon, <2>4, PutReads
  <2>5. CASE PutStoredSecretVersion(p)
    BY Zenon, <2>5, PutKeeps
  <2>6. CASE RewrapRing(p)
    BY Zenon, <2>6, RewrapRingKeeps
  <2>7. CASE ListIds(p)
    BY Zenon, <2>7, ListIdsKeeps
  <2>8. CASE ListRefs(p)
    BY Zenon, <2>8, ListRefsKeeps
  <2>9. CASE RewrapGet(p)
    BY Zenon, <2>9, RewrapGetKeeps
  <2>10. CASE UpdateEnvelope(p)
    BY Zenon, <2>10, UpdateKeeps
  <2>11. CASE RewrapDone(p) \/ Abort(p)
    BY Zenon, <2>11, FinishKeeps DEF RewrapDone, Abort
  <2>12. CASE RotateList(p)
    BY Zenon, <2>12, RotateListKeeps
  <2>13. CASE RotateFindKey(p) \/ RotateGenerateKey(p)
    BY Zenon, <2>13, RotateFindKeyKeeps, RotateGenerateKeyKeeps
  <2>14. CASE RotateKEKVersion(p)
    BY Zenon, <2>14, RotateRecordKeeps
  <2>15. CASE RetireList(p) \/ RetireCount(p)
    BY Zenon, <2>15, RetireReads
  <2>16. CASE RetireSet(p)
    BY Zenon, <2>16, RetireSetKeeps
  <2>. QED  BY Zenon, <1>2, <2>1, <2>2, <2>3, <2>4, <2>5, <2>6, <2>7, <2>8, <2>9, <2>10, <2>11, <2>12,
               <2>13, <2>14, <2>15, <2>16 DEF Step
<1>3. CASE UNCHANGED secretsVars
  <2>1. Act' = Act /\ View' = View
    BY Zenon, <1>3 DEF secretsVars, registry, ghosts, Act, View
  <2>2. LineageInv' /\ RegistryTypes'
    BY Zenon, <1>3, <2>1 DEF SecretsInv, LineageInv, RegistryInv, RegistryTypes, secretsVars, registry, ghosts
  <2>3. HistoryMirrorsRow' /\ NoPutLost'
    BY Zenon, <1>3 DEF SecretsInv, RegistryInv, HistoryMirrorsRow, NoPutLost, secretsVars, registry, ghosts
  <2>4. FreshWritesAreSafe'
    BY Zenon, <1>3 DEF SecretsInv, RegistryInv, FreshWritesAreSafe, ValuesKept, NothingStranded, secretsVars,
                       registry, ghosts
  <2>5. req' = req
    BY Zenon, <1>3 DEF secretsVars
  <2>. QED  BY Zenon, <2>1, <2>2, <2>3, <2>4, <2>5 DEF SecretsInv, RegistryInv
<1>. QED  BY Zenon, <1>1, <1>2, <1>3 DEF SecretsNext

LEMMA Invariance == SecretsSpec => []SecretsInv
  BY InitIInv, StepIInv, PTL DEF SecretsSpec

\* However rotations and retirements race and die, the KEK lineage has one active
\* version, it is the newest, none is missing before it, and each has its key
\* (RotateKEK, RotateKEKVersion, RetireKEK).
THEOREM LineageStaysLinear == SecretsSpec => []OneActiveVersion
<1>1. SecretsInv => OneActiveVersion
  BY Zenon, LineageIsLinear DEF SecretsInv
<1>. QED  BY <1>1, Invariance, PTL

\* Whatever puts, rollbacks and re-wraps race, the history entry of the current
\* version is the registry row, and the history is the newest versions
\* (PutStoredSecretVersion, UpdateStoredSecretEnvelope).
THEOREM HistoryFollowsTheRow == SecretsSpec => []HistoryMirrorsRow
<1>1. SecretsInv => HistoryMirrorsRow
  BY Zenon DEF SecretsInv, RegistryInv
<1>. QED  BY <1>1, Invariance, PTL

\* Every put and rollback that reported success is a version of its own: the
\* compare-and-swap on current_version lets no two of them write the same one
\* (PutStoredSecretVersion).
THEOREM PutsAreVersions == SecretsSpec => []NoPutLost
<1>1. SecretsInv => NoPutLost
  BY Zenon DEF SecretsInv, RegistryInv
<1>. QED  BY <1>1, Invariance, PTL

\* As long as no request stores an envelope under a KEK version that has been
\* superseded since it loaded its ring, every version decrypts to the value it
\* was accepted with, and only a forced retirement leaves one that does not open
\* (RewrapSecrets, UpdateEnvelope, RetireKEK).
THEOREM FreshRegistriesAreSafe == SecretsSpec => []FreshWritesAreSafe
<1>1. SecretsInv => FreshWritesAreSafe
  BY Zenon DEF SecretsInv, RegistryInv
<1>. QED  BY <1>1, Invariance, PTL
============================================================================
