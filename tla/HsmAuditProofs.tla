--------------------------- MODULE HsmAuditProofs ---------------------------
(***************************************************************************)
(* The HSM audit log, for any number of processes, files, log sizes and    *)
(* positions of the entry counter.  KeepInv: what the device was told to   *)
(* forget is stored, but for the entries of an acknowledgement that went   *)
(* astray, and every job carries entries in order that the device did log. *)
(* QuietInv: while nothing disturbs the device and the processes respect   *)
(* the lease, one job at most is in flight and it continues what is        *)
(* stored, so that no check fails.  ChainInv and LoneInv: a process alone, *)
(* none of whose writes failed, has a file that ends where the process     *)
(* left off, and that is close to the tail.  Only the files of KeepInv     *)
(* need the entry counter to be in its first half (HalfRange), because     *)
(* trimWritten compares numbers of entries with isForward.                 *)
(***************************************************************************)
EXTENDS HsmAudit, TLAPS

-----------------------------------------------------------------------------
(* Numbers of entries.                                                     *)

LEMMA Remainder == ASSUME NEW a \in Nat, NEW b \in Nat, b # 0 PROVE a % b \in 0 .. b - 1
OBVIOUS

LEMMA Quotient ==
    ASSUME NEW a \in Nat, NEW b \in Nat, b # 0
    PROVE  \E q \in Int : a = b * q + (a % b)
<1>1. a \div b \in Int
  OBVIOUS
<1>2. a = b * (a \div b) + (a % b)
  OBVIOUS
<1> QED BY Zenon, <1>1, <1>2

LEMMA SameRemainder ==
    ASSUME NEW i \in Nat, NEW j \in Nat, NEW b \in Nat, b # 0, i < j, j - i < b, i % b = j % b
    PROVE  FALSE
<1>1. PICK q \in Int : i = b * q + (i % b)
  BY Zenon, Quotient
<1>2. PICK u \in Int : j = b * u + (j % b)
  BY Zenon, Quotient
<1>3. b * u - b * q = j - i
  <2>1. PICK m \in Int : m = i % b /\ m = j % b
    OBVIOUS
  <2>2. PICK x \in Int, y \in Int : x = b * q /\ y = b * u
    OBVIOUS
  <2>3. i = x + m /\ j = y + m
    BY <1>1, <1>2, <2>1, <2>2
  <2> QED BY <2>2, <2>3
<1>4. CASE u <= q
  <2>1. b * u <= b * q
    BY <1>4
  <2> QED BY <1>3, <2>1
<1>5. CASE u >= q + 1
  <2>1. b * u >= b * (q + 1)
    BY <1>5
  <2>2. b * (q + 1) = b * q + b
    OBVIOUS
  <2> QED BY <1>3, <2>1, <2>2
<1> QED BY <1>4, <1>5

LEMMA NumberRange ==
    ASSUME NEW ep, NEW i \in Nat, i > 0
    PROVE  Number(<<ep, i>>) \in 1 .. Modulus - 1
<1>1. PICK a \in Nat, m \in Nat : a = i - 1 /\ m = Modulus - 1 /\ m # 0
  BY HsmAuditConstants
<1>2. a % m \in 0 .. m - 1
  BY <1>1, Remainder, Zenon
<1> QED BY <1>1, <1>2 DEF Number

\* Entries less than a round apart have different numbers.
LEMMA NumberOnce ==
    ASSUME NEW ep, NEW i \in Nat, NEW j \in Nat, i > 0, j > 0, i - j < Modulus - 1, j - i < Modulus - 1,
           Number(<<ep, i>>) = Number(<<ep, j>>)
    PROVE  i = j
<1>1. PICK a \in Nat, b \in Nat, m \in Nat : a = i - 1 /\ b = j - 1 /\ m = Modulus - 1 /\ m # 0
  BY HsmAuditConstants
<1>2. a % m \in Int /\ b % m \in Int /\ 1 + (a % m) = 1 + (b % m)
  BY <1>1 DEF Number
<1>3. a % m = b % m
  BY <1>2
<1>4. ~(a < b) /\ ~(b < a)
  BY <1>1, <1>3, SameRemainder
<1> QED BY <1>1, <1>4

\* The counter of a device has not gone half round since its last reset.
HalfRange == MaxHead <= Modulus \div 2

LEMMA NumberIs ==
    ASSUME HalfRange, NEW ep, NEW i \in 1 .. MaxHead
    PROVE  Number(<<ep, i>>) = i
<1>1. PICK a \in Nat, m \in Nat : a = i - 1 /\ m = Modulus - 1 /\ a < m
  BY HsmAuditConstants DEF HalfRange
<1>2. a % m = a
  BY <1>1
<1> QED BY <1>1, <1>2 DEF Number

LEMMA ForwardIs ==
    ASSUME HalfRange, NEW a \in 1 .. MaxHead, NEW b \in 1 .. MaxHead
    PROVE  isForward(a, b) <=> a <= b
<1>1. PICK h \in Nat : h = Modulus \div 2 /\ 2 * h <= Modulus /\ b - a < h /\ a - b < h
  BY HsmAuditConstants DEF HalfRange
<1>2. CASE a <= b
  <2>1. (b - a) % Modulus = b - a
    BY <1>1, <1>2, HsmAuditConstants
  <2> QED BY <1>1, <1>2, <2>1 DEF isForward
<1>3. CASE a > b
  <2>1. (b - a) % Modulus = Modulus + (b - a)
    BY <1>1, <1>3, HsmAuditConstants
  <2> QED BY <1>1, <1>3, <2>1, HsmAuditConstants DEF isForward
<1> QED BY <1>2, <1>3

-----------------------------------------------------------------------------
(* The scan for a position.                                                *)

LEMMA MinOfOne == ASSUME NEW x \in Nat PROVE Min({x}) = x
<1>1. \A y \in {x} : x <= y
  OBVIOUS
<1> QED BY Zenon, <1>1 DEF Min

LEMMA Least ==
    ASSUME NEW S \in SUBSET Int, NEW x \in S, \A y \in S : x <= y
    PROVE  {i \in S : \A k \in S : i <= k} = {x}
<1>1. ASSUME NEW i \in S, \A k \in S : i <= k PROVE i = x
  <2>1. i \in Int /\ x \in Int /\ i <= x /\ x <= i
    BY Zenon, <1>1
  <2> QED BY <2>1
<1> QED BY Zenon, <1>1

\* A scan finds at most one entry, of the segment.
LEMMA FirstOne ==
    ASSUME NEW pos, NEW ep, NEW from \in 0 .. MaxHead, NEW to \in 0 .. MaxHead,
           NEW i \in FirstForward(pos, ep, from, to)
    PROVE  i \in from + 1 .. to /\ FirstForward(pos, ep, from, to) = {i}
<1> DEFINE at == {k \in from + 1 .. to : isForward(Number(pos), Number(<<ep, k>>))}
<1>1. FirstForward(pos, ep, from, to) = {k \in at : \A y \in at : k <= y}
  BY Zenon DEF FirstForward
<1>2. at \in SUBSET Int /\ at \subseteq from + 1 .. to
  BY HsmAuditConstants
<1> HIDE DEF at
<1>3. i \in at /\ \A y \in at : i <= y
  BY Zenon, <1>1
<1> QED BY Zenon, <1>1, <1>2, <1>3, Least

LEMMA TrimAt ==
    ASSUME NEW pos, NEW ep, NEW from, NEW to, NEW i, pos # None, from # to,
           FirstForward(pos, ep, from, to) = {i}
    PROVE  Trim(pos, ep, from, to) = IF Number(<<ep, i>>) # Number(pos) THEN {i - 1}
                                     ELSE IF <<ep, i>> = pos THEN {i} ELSE {}
<1> DEFINE Of(x) == IF Number(<<ep, x>>) # Number(pos) THEN {x - 1}
                    ELSE IF <<ep, x>> = pos THEN {x} ELSE {}
<1>1. Trim(pos, ep, from, to) = UNION {Of(x) : x \in {i}}
  BY Zenon DEF Trim
<1>2. UNION {Of(x) : x \in {i}} = Of(i)
  <2> HIDE DEF Of
  <2> QED OBVIOUS
<1> QED BY Zenon, <1>1, <1>2

LEMMA TrimOne ==
    ASSUME NEW pos, NEW ep, NEW from \in 0 .. MaxHead, NEW to \in 0 .. MaxHead, from <= to,
           NEW f \in Trim(pos, ep, from, to)
    PROVE  /\ f \in from .. to /\ Trim(pos, ep, from, to) = {f}
           /\ pos # None /\ from < to /\ f = to => pos = <<ep, to>>
<1>1. CASE pos = None \/ from = to
  BY <1>1 DEF Trim
<1>2. CASE pos # None /\ from # to
  <2>1. PICK i : i \in FirstForward(pos, ep, from, to)
    BY Zenon, <1>2 DEF Trim
  <2>2. i \in from + 1 .. to /\ FirstForward(pos, ep, from, to) = {i}
    BY <2>1, FirstOne
  <2>3. Trim(pos, ep, from, to) = IF Number(<<ep, i>>) # Number(pos) THEN {i - 1}
                                  ELSE IF <<ep, i>> = pos THEN {i} ELSE {}
    BY Zenon, <1>2, <2>2, TrimAt
  <2> QED BY <2>2, <2>3
<1> QED BY <1>1, <1>2

\* Where a position lies, as long as the counter has not gone half round.
LEMMA TrimIs ==
    ASSUME HalfRange, NEW e \in 1 .. MaxEpoch, NEW k \in 1 .. MaxHead, NEW ep \in 1 .. MaxEpoch,
           NEW from \in 0 .. MaxHead, NEW to \in 0 .. MaxHead, from < to
    PROVE  /\ k <= from => Trim(<<e, k>>, ep, from, to) = {from}
           /\ from < k /\ k <= to /\ e = ep => Trim(<<e, k>>, ep, from, to) = {k}
           /\ from < k /\ k <= to /\ e # ep => Contradicts(<<e, k>>, ep, from, to)
           /\ k > to => Trim(<<e, k>>, ep, from, to) = {}
<1> DEFINE pos == <<e, k>>
           at == {i \in from + 1 .. to : isForward(Number(pos), Number(<<ep, i>>))}
<1>0. pos # None /\ from # to
  BY DEF None
<1>1. Number(pos) = k /\ \A i \in from + 1 .. to : i \in 1 .. MaxHead /\ Number(<<ep, i>>) = i
  BY NumberIs, HsmAuditConstants
<1>2. at = {i \in from + 1 .. to : k <= i}
  BY <1>1, ForwardIs
<1>3. FirstForward(pos, ep, from, to) = {i \in at : \A y \in at : i <= y}
  BY Zenon DEF FirstForward
<1>4. at \in SUBSET Int
  BY HsmAuditConstants
<1> HIDE DEF at, pos
<1>5. CASE k <= from
  <2>1. from + 1 \in at /\ \A y \in at : from + 1 <= y
    BY <1>2, <1>5, HsmAuditConstants
  <2>2. FirstForward(pos, ep, from, to) = {from + 1}
    BY Zenon, <1>3, <1>4, <2>1, Least
  <2>3. Number(<<ep, from + 1>>) # Number(pos) /\ from + 1 - 1 = from
    BY <1>1, <1>5, HsmAuditConstants
  <2> QED BY <1>0, <1>5, <2>2, <2>3, TrimAt DEF pos
<1>6. CASE from < k /\ k <= to
  <2>1. k \in at /\ \A y \in at : k <= y
    BY <1>2, <1>6, HsmAuditConstants
  <2>2. FirstForward(pos, ep, from, to) = {k}
    BY Zenon, <1>3, <1>4, <2>1, Least
  <2>3. Number(<<ep, k>>) = Number(pos)
    BY <1>1, <1>6, HsmAuditConstants
  <2>4. CASE e = ep
    BY <1>0, <2>2, <2>3, <2>4, <1>6, TrimAt DEF pos
  <2>5. CASE e # ep
    BY <1>0, <2>2, <2>3, <2>5, <1>6 DEF Contradicts, pos
  <2> QED BY <1>6, <2>4, <2>5
<1>7. CASE k > to
  <2>1. at = {}
    BY <1>2, <1>7, HsmAuditConstants
  <2>2. FirstForward(pos, ep, from, to) = {}
    BY Zenon, <1>3, <2>1
  <2>3. Trim(pos, ep, from, to) = {}
    BY Zenon, <1>0, <2>2 DEF Trim
  <2> QED BY <1>7, <2>3 DEF pos
<1> QED BY <1>5, <1>6, <1>7

-----------------------------------------------------------------------------
(* The inductive invariant.                                                *)

\* A store holds the entries of epoch e up to t.
Kept(st, e, t) == \A i \in 1 .. t : st[Number(<<e, i>>)] = <<e, i>>

\* So does a file, if it holds no entry of another epoch and no torn line.
Pure(fl, e) == \A k \in DOMAIN fl : fl[k][1] \in {0, e}
Whole(fl) == \A k \in DOMAIN fl : fl[k] # Torn /\ fl[k] # Malformed
Written(fl, e, t) ==
    HalfRange /\ Whole(fl) /\ Pure(fl, e) => \A i \in 1 .. t : \E k \in DOMAIN fl : fl[k] = <<e, i>>

Safe(st, fl, e, t) == Kept(st, e, t) /\ Written(fl, e, t)

\* So do both the entries of epoch e up to c, but for those in x.
Backed(st, fl, e, c, x) ==
    \A i \in (1 .. c) \ x :
        /\ st[Number(<<e, i>>)] = <<e, i>>
        /\ HalfRange /\ Whole(fl) /\ Pure(fl, e) => \E k \in DOMAIN fl : fl[k] = <<e, i>>

Fetched == {"sink", "append", "save", "tail", "consume"}

\* What a process relies on, by the step it has come to.
Relies(st, fl, j) ==
    /\ j.tail # None => Safe(st, fl, j.tail[1], j.tail[2])
    /\ j.at = "fetch" /\ ~j.prov => j.tail # None
    /\ j.at \in Fetched => j.ep > 0 /\ j.to > 0 /\ j.from <= j.to
    /\ j.at \in {"sink", "append"} => Kept(st, j.ep, j.from) /\ j.to - j.from <= Ring
    /\ j.at = "sink" => Written(fl, j.ep, j.from) /\ j.from < j.to
    /\ j.at \in {"append", "save", "tail", "consume"} => Written(fl, j.ep, j.to)
    /\ j.at \in {"save", "tail", "consume"} => Kept(st, j.ep, j.to)

\* The segment of a job was fetched from the device, perhaps before a reset.
Current(e, h, j) == j.at \in Fetched => j.ep <= e /\ (j.ep = e => j.to <= h)

KeepInv ==
    /\ TypeOK
    /\ Backed(stored, file, epoch, consumed, astray)
    /\ tail # None => Safe(stored, file, tail[1], tail[2])
    /\ \A p \in Procs : Relies(stored, file, job[p])
    /\ \A p \in Procs : Current(epoch, head, job[p])
    /\ Whole(file) =>
          /\ \A p \in Procs : last[p] # None => \E k \in DOMAIN file : file[k] = last[p]
          /\ \A k \in DOMAIN file : file[k] # Resume => Written(file, file[k][1], file[k][2])
          /\ file # <<>> => file[Len(file)] # Resume

-----------------------------------------------------------------------------
(* Types.                                                                  *)

Steps == {"idle", "load", "fetch", "sink", "append", "save", "tail", "consume", "release"}

LEMMA JobTypes ==
    ASSUME TypeOK, NEW p \in Procs, NEW j \in Jobs, job' = [job EXCEPT ![p] = j]
    PROVE  /\ job' \in [Procs -> Jobs] /\ job'[p] = j
           /\ \A q \in Procs : q # p => job'[q] = job[q]
BY Zenon DEF TypeOK

\* The jobs as the actions set them.
Fields(j, at, prov, t, ep, from, to) ==
    /\ j \in Jobs
    /\ j.at = at /\ j.prov = prov /\ j.tail = t /\ j.ep = ep /\ j.from = from /\ j.to = to

LEMMA IdleFields == Fields(Idle, "idle", FALSE, None, 0, 0, 0)
<1>1. 0 \in 0 .. MaxEpoch /\ 0 \in 0 .. MaxHead
  BY HsmAuditConstants
<1> QED BY Zenon, <1>1 DEF Idle, Jobs, Fields

LEMMA LoadFields == Fields([Idle EXCEPT !.at = "load"], "load", FALSE, None, 0, 0, 0)
BY Zenon, IdleFields DEF Jobs, Fields

LEMMA FetchFields ==
    ASSUME NEW t \in Entries \union {None}
    PROVE  /\ Fields([Idle EXCEPT !.at = "fetch", !.tail = t], "fetch", FALSE, t, 0, 0, 0)
           /\ Fields([Idle EXCEPT !.at = "fetch", !.prov = TRUE], "fetch", TRUE, None, 0, 0, 0)
BY Zenon, IdleFields DEF Jobs, Fields

LEMMA SegmentFields ==
    ASSUME NEW at \in Steps, NEW ep \in 0 .. MaxEpoch, NEW from \in 0 .. MaxHead, NEW to \in 0 .. MaxHead
    PROVE  /\ Fields([Idle EXCEPT !.at = at, !.ep = ep, !.from = from, !.to = to],
                     at, FALSE, None, ep, from, to)
           /\ Fields([Idle EXCEPT !.at = "sink", !.prov = TRUE, !.ep = ep, !.to = to],
                     "sink", TRUE, None, ep, 0, to)
BY Zenon, IdleFields DEF Jobs, Fields, Steps

LEMMA GotoTypes ==
    ASSUME TypeOK, NEW p \in Procs, NEW at \in Steps, Goto(p, at)
    PROVE  \E j : /\ job' = [job EXCEPT ![p] = j]
                  /\ Fields(j, at, job[p].prov, job[p].tail, job[p].ep, job[p].from, job[p].to)
<1>1. PICK j : j = [job[p] EXCEPT !.at = at]
  BY Zenon
<1>2. job[p] \in Jobs /\ job' = [job EXCEPT ![p] = j]
  BY Zenon, <1>1 DEF TypeOK, Goto
<1>3. Fields(j, at, job[p].prov, job[p].tail, job[p].ep, job[p].from, job[p].to)
  BY Zenon, <1>1, <1>2 DEF Jobs, Steps, Fields
<1> QED BY Zenon, <1>2, <1>3

LEMMA TypeInit == Init => TypeOK
<1> SUFFICES ASSUME Init PROVE TypeOK
  OBVIOUS
<1>1. errors \in 0 .. conf.errors /\ conf \in Scenarios
  BY HsmAuditConstants DEF Init
<1>2. /\ epoch \in 1 .. MaxEpoch /\ consumed \in 0 .. head /\ head \in 1 .. MaxHead
      /\ head - consumed <= Ring
  BY HsmAuditConstants DEF Init
<1>3. file \in Seq(Lines)
  BY DEF Init
<1>4. /\ lease \in Procs \union {"free", "dead"}
      /\ tail \in Entries \union {None}
      /\ stored \in [1 .. Modulus - 1 -> Entries \union {None}]
      /\ last \in [Procs -> Entries \union {None}]
      /\ job \in [Procs -> Jobs]
      /\ alarm \in BOOLEAN /\ unflushed \in BOOLEAN
      /\ unlogged \in BOOLEAN /\ astray \subseteq 1 .. MaxHead
  BY Zenon, IdleFields DEF Init, Fields
<1> QED BY Zenon, <1>1, <1>2, <1>3, <1>4 DEF TypeOK

\* An entry is neither None nor another line of the file.
LEMMA EntryTypes ==
    /\ None \notin Entries /\ Resume \notin Entries /\ Torn \notin Entries /\ Malformed \notin Entries
    /\ Resume # Torn /\ Resume # Malformed
    /\ \A e \in Entries : e[1] \in 1 .. MaxEpoch /\ e[2] \in 1 .. MaxHead /\ e = <<e[1], e[2]>>
BY HsmAuditConstants DEF Entries, None, Resume, Torn, Malformed

-----------------------------------------------------------------------------
(* The store grows, and so does the file unless a write of it is cut off.   *)

Grows ==
    /\ \A n \in 1 .. Modulus - 1 : stored[n] # None => stored'[n] = stored[n]
    /\ Whole(file') => /\ Whole(file)
                       /\ \A k \in DOMAIN file : k \in DOMAIN file' /\ file'[k] = file[k]

LEMMA KeptStays ==
    ASSUME Grows, NEW e, NEW t \in Nat, Kept(stored, e, t)
    PROVE  Kept(stored', e, t)
<1> SUFFICES ASSUME NEW i \in 1 .. t PROVE stored'[Number(<<e, i>>)] = <<e, i>>
  BY Zenon DEF Kept
<1>1. Number(<<e, i>>) \in 1 .. Modulus - 1
  BY NumberRange
<1>2. stored[Number(<<e, i>>)] = <<e, i>> /\ <<e, i>> # None
  BY DEF Kept, None
<1> QED BY Zenon, <1>1, <1>2 DEF Grows

LEMMA WrittenStays ==
    ASSUME Grows, NEW e, NEW t, Written(file, e, t)
    PROVE  Written(file', e, t)
BY Zenon DEF Grows, Written, Pure

LEMMA BackedStays ==
    ASSUME Grows, NEW e, NEW c \in Nat, NEW x, Backed(stored, file, e, c, x)
    PROVE  Backed(stored', file', e, c, x)
<1> SUFFICES ASSUME NEW i \in (1 .. c) \ x
             PROVE  /\ stored'[Number(<<e, i>>)] = <<e, i>>
                    /\ HalfRange /\ Whole(file') /\ Pure(file', e)
                          => \E k \in DOMAIN file' : file'[k] = <<e, i>>
  BY Zenon DEF Backed
<1>1. Number(<<e, i>>) \in 1 .. Modulus - 1
  BY NumberRange
<1>2. stored[Number(<<e, i>>)] = <<e, i>> /\ <<e, i>> # None
  BY DEF Backed, None
<1>3. stored'[Number(<<e, i>>)] = <<e, i>>
  BY Zenon, <1>1, <1>2 DEF Grows
<1>4. HalfRange /\ Whole(file) /\ Pure(file, e) => \E k \in DOMAIN file : file[k] = <<e, i>>
  BY Zenon DEF Backed
<1> QED BY Zenon, <1>3, <1>4 DEF Grows, Pure

LEMMA SafeStays ==
    ASSUME Grows, NEW e, NEW t \in Nat, Safe(stored, file, e, t)
    PROVE  Safe(stored', file', e, t)
BY Zenon, KeptStays, WrittenStays DEF Safe

LEMMA TailNat == ASSUME NEW t \in Entries \union {None}, t # None PROVE t[2] \in Nat
BY EntryTypes, HsmAuditConstants

LEMMA ReliesStays ==
    ASSUME Grows, NEW j \in Jobs, Relies(stored, file, j)
    PROVE  Relies(stored', file', j)
<1>1. j.from \in Nat /\ j.to \in Nat /\ j.tail \in Entries \union {None}
  BY HsmAuditConstants DEF Jobs
<1>2. /\ Kept(stored, j.ep, j.from) => Kept(stored', j.ep, j.from)
      /\ Kept(stored, j.ep, j.to) => Kept(stored', j.ep, j.to)
      /\ Written(file, j.ep, j.from) => Written(file', j.ep, j.from)
      /\ Written(file, j.ep, j.to) => Written(file', j.ep, j.to)
      /\ j.tail # None /\ Safe(stored, file, j.tail[1], j.tail[2])
            => Safe(stored', file', j.tail[1], j.tail[2])
  BY Zenon, <1>1, TailNat, KeptStays, WrittenStays, SafeStays
<1> QED BY Zenon, <1>2 DEF Relies

\* What a step has to show.
LEMMA StepKeeps ==
    ASSUME KeepInv, TypeOK', Grows, Backed(stored', file', epoch', consumed', astray'),
           tail' \in {tail, None} \/ Safe(stored', file', tail'[1], tail'[2]),
           NEW p, \A q \in Procs : q = p \/ job'[q] = job[q],
           p \in Procs => Relies(stored', file', job'[p]),
           \A q \in Procs : Current(epoch', head', job'[q]),
           Whole(file') =>
              /\ \A q \in Procs : last'[q] \in {last[q], None} \/ \E k \in DOMAIN file' : file'[k] = last'[q]
              /\ \A k \in DOMAIN file' : k \in DOMAIN file \/ file'[k] = Resume
                                          \/ Written(file', file'[k][1], file'[k][2])
              /\ file' = file \/ file'[Len(file')] # Resume
    PROVE  KeepInv'
<1>1. tail' # None => Safe(stored', file', tail'[1], tail'[2])
  BY Zenon, TailNat, SafeStays DEF KeepInv, TypeOK
<1>2. \A q \in Procs : Relies(stored', file', job'[q])
  <2> SUFFICES ASSUME NEW q \in Procs PROVE Relies(stored', file', job'[q])
    BY Zenon
  <2>1. job[q] \in Jobs /\ Relies(stored, file, job[q])
    BY Zenon DEF KeepInv, TypeOK
  <2>2. Relies(stored', file', job[q])
    BY Zenon, <2>1, ReliesStays
  <2> QED BY Zenon, <2>2
<1>3. Whole(file') => \A q \in Procs : last'[q] # None => \E k \in DOMAIN file' : file'[k] = last'[q]
  BY ZenonT(60) DEF KeepInv, Grows
<1>4. Whole(file') => \A k \in DOMAIN file' : file'[k] # Resume => Written(file', file'[k][1], file'[k][2])
  BY Zenon, WrittenStays DEF KeepInv, Grows
<1>5. Whole(file') => (file' # <<>> => file'[Len(file')] # Resume)
  BY Zenon DEF KeepInv
<1> QED BY Zenon, <1>1, <1>2, <1>3, <1>4, <1>5 DEF KeepInv

\* A step that leaves the store and the file alone.
LEMMA TablesStay ==
    ASSUME KeepInv, TypeOK', UNCHANGED <<stored, file, last>>, Backed(stored', file', epoch', consumed', astray'),
           tail' \in {tail, None} \/ Safe(stored', file', tail'[1], tail'[2]),
           NEW p, \A q \in Procs : q = p \/ job'[q] = job[q],
           p \in Procs => Relies(stored', file', job'[p]),
           \A q \in Procs : Current(epoch', head', job'[q])
    PROVE  KeepInv'
<1>1. Grows
  BY Zenon DEF Grows
<1> QED BY Zenon, <1>1, StepKeeps

LEMMA RestTypes ==
    ASSUME KeepInv
    PROVE  /\ lease \in Procs \union {"free", "dead"} /\ alarm \in BOOLEAN /\ errors \in 0 .. conf.errors
           /\ tail \in Entries \union {None} /\ unflushed \in BOOLEAN /\ TypeOK
           /\ unlogged \in BOOLEAN /\ astray \subseteq 1 .. MaxHead
           /\ \A p \in Procs : job[p] \in Jobs /\ Relies(stored, file, job[p])
BY Zenon DEF KeepInv, TypeOK

LEMMA DeviceTypes ==
    ASSUME KeepInv
    PROVE  /\ epoch \in 1 .. MaxEpoch /\ epoch \in 0 .. MaxEpoch /\ consumed \in 0 .. MaxHead
           /\ head \in 1 .. MaxHead /\ head \in 0 .. MaxHead /\ consumed <= head
           /\ head - consumed <= Ring
<1>1. /\ epoch \in 1 .. MaxEpoch /\ consumed \in 0 .. head /\ head \in 1 .. MaxHead
      /\ head - consumed <= Ring
  BY Zenon DEF KeepInv, TypeOK
<1> QED BY <1>1, HsmAuditConstants

LEMMA Segment ==
    ASSUME KeepInv, NEW p \in Procs, job[p].at \in Fetched
    PROVE  /\ job[p].ep \in 1 .. MaxEpoch /\ job[p].to \in 1 .. MaxHead /\ job[p].from \in 0 .. MaxHead
           /\ job[p].from <= job[p].to /\ <<job[p].ep, job[p].to>> \in Entries
           /\ job[p].to \in 0 .. MaxHead
<1>1. job[p] \in Jobs /\ Relies(stored, file, job[p])
  BY Zenon, RestTypes
<1>2. job[p].ep > 0 /\ job[p].to > 0 /\ job[p].from <= job[p].to
  BY Zenon, <1>1 DEF Relies
<1>3. job[p].ep \in 0 .. MaxEpoch /\ job[p].to \in 0 .. MaxHead /\ job[p].from \in 0 .. MaxHead
  BY Zenon, <1>1 DEF Jobs
<1>4. job[p].ep \in 1 .. MaxEpoch /\ job[p].to \in 1 .. MaxHead
  BY <1>2, <1>3, HsmAuditConstants
<1> QED BY Zenon, <1>2, <1>3, <1>4 DEF Entries

-----------------------------------------------------------------------------
(* The append-only file.                                                   *)

LEMMA Concat ==
    ASSUME NEW X, NEW s \in Seq(X), NEW t \in Seq(X)
    PROVE  /\ s \o t \in Seq(X) /\ Len(s \o t) = Len(s) + Len(t) /\ Len(s) \in Nat /\ Len(t) \in Nat
           /\ \A i \in 1 .. Len(s) : (s \o t)[i] = s[i]
           /\ \A i \in 1 .. Len(t) : (s \o t)[Len(s) + i] = t[i]
OBVIOUS

\* Perhaps a resume record, then the entries f+1 .. to of epoch ep.
Segmented(R, ep, f, to) ==
    /\ R \in Seq(Lines) /\ Len(R) > 0 /\ R[Len(R)] = <<ep, to>>
    /\ \A i \in f + 1 .. to : \E k \in 1 .. Len(R) : R[k] = <<ep, i>>
    /\ \A k \in 1 .. Len(R) : R[k] = Resume \/ \E i \in f + 1 .. to : R[k] = <<ep, i>>

\* What AppendEntries writes.
LEMMA RecordsAre ==
    ASSUME NEW pos, NEW ep \in 1 .. MaxEpoch, NEW f \in 0 .. MaxHead, NEW to \in 1 .. MaxHead, f < to
    PROVE  Segmented(Records(pos, ep, f, to), ep, f, to)
<1> DEFINE n == to - f
           S == [i \in 1 .. n |-> <<ep, f + i>>]
           pre == IF IF pos = None THEN f = 0 ELSE Number(<<ep, f + 1>>) = nextNumber(Number(pos))
                  THEN <<>> ELSE <<Resume>>
           R == Records(pos, ep, f, to)
<1>1. R = pre \o S
  BY Zenon DEF Records
<1>2. n \in Nat /\ n > 0 /\ f + n = to
  BY HsmAuditConstants
<1>3. \A i \in 1 .. n : f + i \in 1 .. MaxHead
  BY <1>2, HsmAuditConstants
<1> HIDE DEF n
<1>4. S \in [1 .. n -> Entries]
  BY Zenon, <1>3 DEF Entries
<1>5. S \in Seq(Lines) /\ Len(S) = n /\ \A i \in 1 .. n : S[i] = <<ep, f + i>>
  <2>1. S \in [1 .. n -> Lines]
    BY Zenon, <1>4 DEF Lines
  <2> QED BY <1>2, <2>1
<1> HIDE DEF S
<1>6. (pre = <<>> \/ pre = <<Resume>>)
  BY Zenon
<1> HIDE DEF pre
<1>7. pre \in Seq(Lines) /\ Len(pre) \in Nat
      /\ \A i \in 1 .. Len(pre) : pre[i] = Resume
  <2>1. CASE pre = <<>>
    BY <2>1
  <2>2. CASE pre = <<Resume>>
    <3>1. Len(pre) = 1 /\ pre[1] = Resume
      BY <2>2
    <3>2. Resume \in Lines
      BY Zenon DEF Lines
    <3>3. pre \in Seq(Lines)
      BY <2>2, <3>2
    <3> QED BY <3>1, <3>3
  <2> QED BY <1>6, <2>1, <2>2
<1> HIDE DEF R
<1>8. /\ R \in Seq(Lines) /\ Len(R) = Len(pre) + n
      /\ \A i \in 1 .. Len(pre) : R[i] = pre[i]
      /\ \A i \in 1 .. n : R[Len(pre) + i] = S[i]
  <2>1. /\ pre \o S \in Seq(Lines) /\ Len(pre \o S) = Len(pre) + Len(S)
        /\ \A i \in 1 .. Len(pre) : (pre \o S)[i] = pre[i]
        /\ \A i \in 1 .. Len(S) : (pre \o S)[Len(pre) + i] = S[i]
    <3>1. pre \in Seq(Lines) /\ S \in Seq(Lines)
      BY Zenon, <1>5, <1>7
    <3> QED BY <3>1, Concat
  <2> QED BY Zenon, <1>1, <1>5, <2>1
<1>9. Len(R) > 0 /\ R[Len(R)] = <<ep, to>>
  <2>1. n \in 1 .. n /\ Len(pre) + n > 0
    BY <1>2, <1>7
  <2>2. R[Len(R)] = S[n] /\ S[n] = <<ep, f + n>>
    BY Zenon, <1>5, <1>8, <2>1
  <2> QED BY Zenon, <1>2, <1>8, <2>1, <2>2
<1>10. ASSUME NEW i \in f + 1 .. to PROVE \E k \in 1 .. Len(R) : R[k] = <<ep, i>>
  <2>1. i - f \in 1 .. n /\ f + (i - f) = i /\ Len(pre) + (i - f) \in 1 .. Len(R)
    BY <1>2, <1>7, <1>8
  <2>2. R[Len(pre) + (i - f)] = S[i - f] /\ S[i - f] = <<ep, f + (i - f)>>
    BY Zenon, <1>5, <1>8, <2>1
  <2> QED BY Zenon, <2>1, <2>2
<1>11. ASSUME NEW k \in 1 .. Len(R) PROVE R[k] = Resume \/ \E i \in f + 1 .. to : R[k] = <<ep, i>>
  <2>1. CASE k <= Len(pre)
    BY <1>7, <1>8, <2>1
  <2>2. CASE k > Len(pre)
    <3>1. PICK x : x = k - Len(pre)
      BY Zenon
    <3>2. x \in 1 .. n /\ k = Len(pre) + x /\ f + x \in f + 1 .. to
      BY <1>2, <1>7, <1>8, <2>2, <3>1
    <3>3. R[k] = <<ep, f + x>>
      BY Zenon, <1>5, <1>8, <3>2
    <3> QED BY Zenon, <3>2, <3>3
  <2> QED BY <1>7, <2>1, <2>2
<1> QED BY Zenon, <1>8, <1>9, <1>10, <1>11 DEF R, Segmented

\* A write, whole or cut off: the file is torn, or it is the records appended.
LEMMA WriteKeeps ==
    ASSUME file \in Seq(Lines), NEW recs \in Seq(Lines), Len(recs) > 0,
           file' = Appended(recs) \/ \E k \in 0 .. Len(recs) : file' = Appended(Cut(recs, k))
    PROVE  file' \in Seq(Lines) /\ (~Whole(file') \/ (Whole(file) /\ file' = file \o recs))
<1>1. PICK R \in Seq(Lines) : /\ Len(R) > 0 /\ file' = Appended(R)
                              /\ R = recs \/ R[Len(R)] = Torn
  <2>1. CASE file' = Appended(recs)
    BY Zenon, <2>1
  <2>2. ASSUME NEW k \in 0 .. Len(recs), file' = Appended(Cut(recs, k))
        PROVE  \E R \in Seq(Lines) : /\ Len(R) > 0 /\ file' = Appended(R)
                                     /\ R = recs \/ R[Len(R)] = Torn
    <3>1. CASE k = Len(recs)
      BY Zenon, <2>2, <3>1 DEF Cut
    <3>2. CASE k # Len(recs)
      <4>1. SubSeq(recs, 1, k) \in Seq(Lines) /\ <<Torn>> \in Seq(Lines) /\ Len(<<Torn>>) = 1
        <5>1. Torn \in Lines
          BY Zenon DEF Lines
        <5> QED BY <5>1
      <4>2. PICK A \in Seq(Lines) : A = SubSeq(recs, 1, k)
        BY Zenon, <4>1
      <4>3. PICK R : R = A \o <<Torn>>
        BY Zenon
      <4>4. R \in Seq(Lines) /\ Len(R) = Len(A) + 1 /\ Len(A) \in Nat /\ R[Len(A) + 1] = Torn
        BY <4>1, <4>3
      <4>5. Cut(recs, k) = R
        BY Zenon, <3>2, <4>2, <4>3 DEF Cut
      <4>6. Len(R) > 0 /\ R[Len(R)] = Torn
        BY <4>4
      <4> QED BY Zenon, <2>2, <4>4, <4>5, <4>6
    <3> QED BY Zenon, <3>1, <3>2
  <2> QED BY Zenon, <2>1, <2>2
<1>2. Len(file) \in Nat /\ DOMAIN file = 1 .. Len(file) /\ Len(R) \in Nat
  OBVIOUS
<1>3. CASE Len(file) > 0 /\ file[Len(file)] = Torn
  <2>1. PICK x \in {Torn, Malformed} :
           /\ x = IF R[1] = Torn THEN Torn ELSE Malformed
           /\ file' = [file EXCEPT ![Len(file)] = x] \o Tail(R)
    BY Zenon, <1>1, <1>3 DEF Appended
  <2>2. x \in Lines
    BY Zenon DEF Lines
  <2>3. PICK A : A = [file EXCEPT ![Len(file)] = x]
    BY Zenon
  <2>4. A \in Seq(Lines) /\ Len(A) = Len(file) /\ A[Len(file)] = x
    BY <1>2, <1>3, <2>2, <2>3
  <2>5. Tail(R) \in Seq(Lines)
    BY <1>1
  <2>6. file' \in Seq(Lines) /\ Len(file) \in DOMAIN file' /\ file'[Len(file)] = x
    <3>1. /\ A \o Tail(R) \in Seq(Lines) /\ Len(A \o Tail(R)) = Len(A) + Len(Tail(R)) /\ Len(Tail(R)) \in Nat
          /\ \A i \in 1 .. Len(A) : (A \o Tail(R))[i] = A[i]
      BY Zenon, <2>4, <2>5, Concat
    <3>2. Len(file) \in 1 .. Len(A) /\ Len(file) \in 1 .. Len(A) + Len(Tail(R))
      BY <1>2, <1>3, <2>4, <3>1
    <3>3. file' = A \o Tail(R)
      BY Zenon, <2>1, <2>3
    <3>4. DOMAIN file' = 1 .. Len(A) + Len(Tail(R))
      BY <3>1, <3>3
    <3> QED BY Zenon, <2>4, <3>1, <3>2, <3>3, <3>4
  <2> QED BY Zenon, <2>6 DEF Whole
<1>4. CASE ~(Len(file) > 0 /\ file[Len(file)] = Torn)
  <2>1. file' = file \o R
    BY Zenon, <1>1, <1>4 DEF Appended
  <2>2. /\ file' \in Seq(Lines) /\ Len(file') = Len(file) + Len(R)
        /\ \A i \in 1 .. Len(file) : file'[i] = file[i]
        /\ \A i \in 1 .. Len(R) : file'[Len(file) + i] = R[i]
    BY <1>1, <2>1, Concat
  <2>3. Len(R) \in 1 .. Len(R) /\ DOMAIN file' = 1 .. Len(file) + Len(R)
        /\ Len(file) + Len(R) \in 1 .. Len(file) + Len(R) /\ 1 .. Len(file) \subseteq 1 .. Len(file) + Len(R)
    BY <1>1, <1>2, <2>2
  <2>4. CASE R = recs
    BY Zenon, <1>2, <2>1, <2>2, <2>3, <2>4 DEF Whole
  <2>5. CASE R[Len(R)] = Torn
    BY Zenon, <2>2, <2>3, <2>5 DEF Whole
  <2> QED BY Zenon, <1>1, <2>2, <2>4, <2>5
<1> QED BY Zenon, <1>3, <1>4

\* What is in the file, and what trimWritten leaves to write.
LEMMA Covered ==
    ASSUME KeepInv, NEW p \in Procs, job[p].at = "sink", HalfRange, Whole(file), Pure(file, job[p].ep),
           NEW i \in 1 .. job[p].to
    PROVE  \/ \E k \in DOMAIN file : file[k] = <<job[p].ep, i>>
           \/ \E f \in trimWritten(last[p], job[p].ep, job[p].from, job[p].to) : f < job[p].to /\ f < i
<1> DEFINE ep == job[p].ep
           from == job[p].from
           to == job[p].to
<1>1. ep \in 1 .. MaxEpoch /\ to \in 1 .. MaxHead /\ from \in 0 .. MaxHead /\ to \in 0 .. MaxHead
  BY Zenon, Segment DEF Fetched
<1>2. from < to /\ (i \in 1 .. from => \E k \in DOMAIN file : file[k] = <<ep, i>>)
  BY Zenon DEF KeepInv, Relies, Written
<1>3. i \in 1 .. from \/ from < i
  BY <1>1
<1>4. CASE last[p] = None
  BY Zenon, <1>2, <1>3, <1>4 DEF trimWritten, Trim
<1>5. CASE last[p] # None
  <2>1. PICK k \in DOMAIN file : file[k] = last[p]
    BY Zenon, <1>5 DEF KeepInv
  <2>2. last[p] \in Entries
    BY Zenon, <1>5 DEF KeepInv, TypeOK
  <2>3. PICK e \in 1 .. MaxEpoch, t \in 1 .. MaxHead : last[p] = <<e, t>>
    BY Zenon, <2>2, EntryTypes
  <2>4. e \in {0, ep}
    BY <2>1, <2>3 DEF Pure
  <2>5. e = ep
    BY <2>4
  <2>6. last[p] # Resume
    BY <2>3 DEF Resume
  <2>7. Written(file, ep, t)
    BY <2>1, <2>3, <2>5, <2>6 DEF KeepInv
  <2>8. CASE i <= t
    <3>1. i \in 1 .. t
      BY <2>8
    <3> QED BY Zenon, <2>7, <3>1 DEF Written
  <2>9. CASE t < i
    <3>1. trimWritten(last[p], ep, from, to) = IF t <= from THEN {from} ELSE {t}
      <4> HIDE DEF ep, from, to
      <4>0. <<ep, t>> = last[p]
        BY Zenon, <2>3, <2>5
      <4>1. CASE t <= from
        <5>1. Trim(<<ep, t>>, ep, from, to) = {from}
          BY <1>1, <1>2, <4>1, TrimIs
        <5> QED BY Zenon, <4>0, <4>1, <5>1 DEF trimWritten
      <4>2. CASE ~(t <= from)
        <5>0. from < t /\ t <= to
          BY <1>1, <2>3, <2>9, <4>2 DEF to
        <5>1. Trim(<<ep, t>>, ep, from, to) = {t}
          BY <1>1, <1>2, <5>0, TrimIs
        <5> QED BY Zenon, <4>0, <4>2, <5>1 DEF trimWritten
      <4> QED BY Zenon, <4>1, <4>2
    <3>2. t < i /\ t < to
      BY <1>1, <2>9
    <3> QED BY Zenon, <1>2, <1>3, <3>1, <3>2
  <2> QED BY <2>8, <2>9
<1> QED BY Zenon, <1>4, <1>5

\* The file after a whole write of p, whether or not the flush is reported failed.
LEMMA FileGrows ==
    ASSUME KeepInv, NEW p \in Procs, job[p].at = "sink", stored' = stored, Whole(file),
           NEW f \in trimWritten(last[p], job[p].ep, job[p].from, job[p].to), f < job[p].to,
           file' = file \o Records(last[p], job[p].ep,
                                   Min(trimWritten(last[p], job[p].ep, job[p].from, job[p].to)), job[p].to)
    PROVE  /\ Grows /\ file' \in Seq(Lines) /\ Written(file', job[p].ep, job[p].to)
           /\ file'[Len(file')] = <<job[p].ep, job[p].to>> /\ Len(file') \in DOMAIN file'
           /\ \A k \in DOMAIN file' : k \in DOMAIN file \/ file'[k] = Resume
                                      \/ Written(file', file'[k][1], file'[k][2])
<1> DEFINE ep == job[p].ep
           from == job[p].from
           to == job[p].to
           X == Lines
<1>1. /\ ep \in 1 .. MaxEpoch /\ to \in 1 .. MaxHead /\ from \in 0 .. MaxHead /\ to \in 0 .. MaxHead
      /\ from <= to
  BY Zenon, Segment DEF Fetched
<1>2. f \in from .. to /\ trimWritten(last[p], ep, from, to) = {f}
  BY <1>1, TrimOne DEF trimWritten
<1>3. f \in 0 .. MaxHead /\ f \in Nat
  BY <1>1, <1>2, HsmAuditConstants
<1>4. PICK R : R = Records(last[p], ep, f, to)
  BY Zenon
<1>5. file' = file \o R
  BY Zenon, <1>2, <1>3, <1>4, MinOfOne
<1>6. /\ R \in Seq(X) /\ Len(R) > 0 /\ R[Len(R)] = <<ep, to>>
      /\ \A i \in f + 1 .. to : \E k \in 1 .. Len(R) : R[k] = <<ep, i>>
      /\ \A k \in 1 .. Len(R) : R[k] = Resume \/ \E i \in f + 1 .. to : R[k] = <<ep, i>>
  <2>1. Segmented(Records(last[p], ep, f, to), ep, f, to)
    BY <1>1, <1>3, RecordsAre
  <2> QED BY Zenon, <1>4, <2>1 DEF Segmented
<1>7. file \in Seq(X)
  BY Zenon DEF KeepInv, TypeOK
<1> HIDE DEF ep, from, to, X
<1>8. /\ file' \in Seq(X) /\ Len(file') = Len(file) + Len(R) /\ Len(file) \in Nat /\ Len(R) \in Nat
      /\ \A i \in 1 .. Len(file) : file'[i] = file[i]
      /\ \A i \in 1 .. Len(R) : file'[Len(file) + i] = R[i]
  <2>1. R \in Seq(X)
    BY Zenon, <1>6
  <2> QED BY <1>5, <1>7, <2>1, Concat
<1>9. DOMAIN file = 1 .. Len(file) /\ DOMAIN file' = 1 .. Len(file')
  BY <1>7, <1>8
<1>10. \A i \in 1 .. Len(file) : i \in 1 .. Len(file')
  BY <1>8
<1>11. Grows
  BY Zenon, <1>8, <1>9, <1>10 DEF Grows
<1>12. \A i \in 1 .. Len(R) : Len(file) + i \in 1 .. Len(file')
  BY <1>8
<1>13. Len(R) \in 1 .. Len(R)
  BY <1>6, <1>8
<1>14. file'[Len(file')] = <<ep, to>> /\ Len(file') \in DOMAIN file'
  BY Zenon, <1>6, <1>8, <1>9, <1>12, <1>13
<1>15. Written(file', ep, to)
  <2> SUFFICES ASSUME HalfRange, Whole(file'), Pure(file', ep), NEW i \in 1 .. to
               PROVE  \E k \in DOMAIN file' : file'[k] = <<ep, i>>
    BY Zenon DEF Written
  <2>1. Pure(file, ep)
    BY Zenon, <1>11 DEF Pure, Grows
  <2>2. CASE \E k \in DOMAIN file : file[k] = <<ep, i>>
    BY Zenon, <1>11, <2>2 DEF Grows
  <2>3. CASE f < i
    <3>1. i \in f + 1 .. to
      BY <1>1, <1>3, <2>3
    <3>2. PICK k \in 1 .. Len(R) : R[k] = <<ep, i>>
      BY Zenon, <1>6, <3>1
    <3>3. file'[Len(file) + k] = R[k] /\ Len(file) + k \in DOMAIN file'
      BY Zenon, <1>8, <1>9, <1>12
    <3> QED BY Zenon, <3>2, <3>3
  <2> QED BY Zenon, <1>2, <2>1, <2>2, <2>3, Covered DEF ep, from, to
<1>16. ASSUME NEW k \in DOMAIN file'
       PROVE  k \in DOMAIN file \/ file'[k] = Resume \/ Written(file', file'[k][1], file'[k][2])
  <2>1. CASE k > Len(file)
    <3>1. PICK x : x = k - Len(file)
      BY Zenon
    <3>2. x \in 1 .. Len(R) /\ k = Len(file) + x
      BY <1>8, <1>9, <2>1, <3>1
    <3>3. file'[k] = R[x]
      BY Zenon, <1>8, <3>2
    <3>4. CASE \E i \in f + 1 .. to : R[x] = <<ep, i>>
      <4>1. PICK i \in f + 1 .. to : R[x] = <<ep, i>>
        BY Zenon, <3>4
      <4>2. file'[k][1] = ep /\ file'[k][2] = i
        BY <3>3, <4>1
      <4>3. \A y \in 1 .. i : y \in 1 .. to
        BY <1>1, <1>3, <4>1
      <4> QED BY Zenon, <1>15, <4>2, <4>3 DEF Written
    <3> QED BY Zenon, <1>6, <3>2, <3>3, <3>4
  <2>2. CASE ~(k > Len(file))
    <3>1. k \in 1 .. Len(file)
      BY <1>8, <1>9, <2>2
    <3> QED BY Zenon, <1>9, <3>1
  <2> QED BY Zenon, <2>1, <2>2
<1> QED BY Zenon, <1>8, <1>11, <1>14, <1>15, <1>16 DEF ep, to, X

-----------------------------------------------------------------------------
(* Steps that leave the tables alone.                                      *)

\* The entries fetched continue the tail.
LEMMA Continues ==
    ASSUME KeepInv, NEW pos \in Entries, consumed # head,
           NEW f \in Trim(pos, epoch, consumed, head), VerifySegment(pos, epoch, f, head)
    PROVE  f \in consumed .. head /\ pos = <<epoch, f>>
<1>1. pos # None
  BY Zenon, EntryTypes
<1>2. consumed < head
  BY DeviceTypes
<1>3. f \in consumed .. head /\ (f = head => pos = <<epoch, head>>)
  BY <1>1, <1>2, DeviceTypes, TrimOne
<1>4. f < head \/ f = head
  BY <1>3, DeviceTypes
<1> QED BY Zenon, <1>3, <1>4 DEF VerifySegment

\* What readTail finds: the end of a file that is whole.
LEMMA LastOfFile ==
    ASSUME KeepInv
    PROVE  /\ ReadTail \in Entries \union {None}
           /\ Whole(file) => /\ ReadTail = IF file = <<>> THEN None ELSE file[Len(file)]
                             /\ ReadTail # None => \E k \in DOMAIN file : file[k] = ReadTail
<1> DEFINE at == {i \in DOMAIN file : /\ file[i] \in Entries
                                      /\ \A k \in DOMAIN file : k > i => file[k] \notin Entries}
<1>1. ReadTail = IF at = {} THEN None ELSE file[CHOOSE i \in at : TRUE]
  BY Zenon DEF ReadTail
<1>2. ReadTail \in Entries \union {None}
  BY Zenon, <1>1
<1>3. ASSUME Whole(file)
      PROVE  /\ ReadTail = IF file = <<>> THEN None ELSE file[Len(file)]
             /\ ReadTail # None => \E k \in DOMAIN file : file[k] = ReadTail
  <2>1. file \in Seq(Lines) /\ (file # <<>> => file[Len(file)] # Resume)
    BY Zenon, <1>3 DEF KeepInv, TypeOK
  <2>2. CASE file = <<>>
    <3>1. at = {}
      BY <2>2
    <3> QED BY Zenon, <1>1, <2>2, <3>1
  <2>3. CASE file # <<>>
    <3>1. /\ Len(file) \in DOMAIN file /\ file[Len(file)] \in Lines
          /\ \A k \in DOMAIN file : ~(k > Len(file)) /\ (k = Len(file) \/ Len(file) > k)
      BY <2>1, <2>3
    <3>2. file[Len(file)] \in Entries
      BY Zenon, <1>3, <2>1, <2>3, <3>1 DEF Lines, Whole
    <3>3. at = {Len(file)}
      BY Zenon, <3>1, <3>2
    <3> HIDE DEF at
    <3>4. (CHOOSE i \in at : TRUE) = Len(file)
      BY Zenon, <3>3
    <3>5. at # {}
      BY Zenon, <3>3
    <3>6. ReadTail = file[Len(file)]
      BY Zenon, <1>1, <3>4, <3>5
    <3> QED BY Zenon, <2>3, <3>1, <3>6
  <2> QED BY Zenon, <2>2, <2>3
<1> QED BY Zenon, <1>2, <1>3

-----------------------------------------------------------------------------
(* The tail and the device.                                                *)

\* The job of p moves on.
LEMMA Moves ==
    ASSUME KeepInv, NEW p \in Procs, NEW at \in Steps, Goto(p, at)
    PROVE  /\ job' \in [Procs -> Jobs] /\ \A q \in Procs : q = p \/ job'[q] = job[q]
           /\ Fields(job'[p], at, job[p].prov, job[p].tail, job[p].ep, job[p].from, job[p].to)
<1>1. PICK j : /\ job' = [job EXCEPT ![p] = j]
               /\ Fields(j, at, job[p].prov, job[p].tail, job[p].ep, job[p].from, job[p].to)
  BY Zenon, RestTypes, GotoTypes
<1> QED BY Zenon, <1>1, RestTypes, JobTypes DEF Fields

-----------------------------------------------------------------------------
(* The store.                                                              *)

-----------------------------------------------------------------------------

LEMMA KeepInit == Init => KeepInv
<1> SUFFICES ASSUME Init PROVE KeepInv
  OBVIOUS
<1>1. Backed(stored, file, epoch, consumed, astray)
  BY DEF Init, Backed
<1>2. \A p \in Procs : Relies(stored, file, job[p]) /\ Current(epoch, head, job[p])
  BY Zenon, IdleFields DEF Init, Fields, Current, Relies, Fetched
<1>3. tail = None /\ \A p \in Procs : last[p] = None
  BY Zenon DEF Init
<1>4. file = <<>> /\ DOMAIN file = {}
  BY DEF Init
<1> QED BY Zenon, TypeInit, <1>1, <1>2, <1>3, <1>4 DEF KeepInv

LEMMA KeepStep == KeepInv /\ [Next]_vars => KeepInv'
\* A step of p that changes its job, the lease, the alarm or the errors.
<1>JobStep.
      ASSUME KeepInv, NEW p \in Procs, NEW j \in Jobs, job' = [job EXCEPT ![p] = j],
             Relies(stored, file, j), Current(epoch, head, j),
             UNCHANGED <<conf, epoch, head, consumed, unlogged, astray, tail, stored, file, last, unflushed>>,
             lease' \in Procs \union {"free", "dead"}, alarm' \in BOOLEAN, errors' \in 0 .. conf.errors
      PROVE  KeepInv'
  <2> USE <1>JobStep
  <2>1. TypeOK
    BY Zenon DEF KeepInv
  <2>2. /\ job' \in [Procs -> Jobs] /\ job'[p] = j
        /\ \A q \in Procs : q # p => job'[q] = job[q]
    BY Zenon, <2>1, JobTypes
  <2>3. TypeOK'
    BY Zenon, <2>1, <2>2 DEF TypeOK
  <2>4. Backed(stored', file', epoch', consumed', astray') /\ Relies(stored', file', job'[p])
    BY Zenon, <2>2 DEF KeepInv
  <2>5. UNCHANGED <<stored, file, last>> /\ tail' \in {tail, None}
    BY Zenon
  <2>6. \A q \in Procs : q = p \/ job'[q] = job[q]
    BY Zenon, <2>2
  <2>7. \A q \in Procs : Current(epoch', head', job'[q])
    BY Zenon, <2>2, <2>6 DEF KeepInv
  <2> QED BY Zenon, <2>3, <2>4, <2>5, <2>6, <2>7, TablesStay
<1>OneMore.
      ASSUME KeepInv, errors < conf.errors, errors' = errors + 1
      PROVE  errors' \in 0 .. conf.errors
  <2> USE <1>OneMore
  <2>1. errors \in 0 .. conf.errors /\ conf \in Scenarios
    BY Zenon DEF KeepInv, TypeOK
  <2>2. conf.errors \in Nat
    BY Zenon, <2>1, HsmAuditConstants
  <2> QED BY <2>1, <2>2
<1>Released.
      ASSUME KeepInv, NEW p \in Procs, Goto(p, "release")
      PROVE  \E j \in Jobs : job' = [job EXCEPT ![p] = j] /\ Relies(stored, file, j) /\ Current(epoch, head, j)
  <2> USE <1>Released
  <2>1. PICK j : /\ job' = [job EXCEPT ![p] = j]
                 /\ Fields(j, "release", job[p].prov, job[p].tail, job[p].ep, job[p].from, job[p].to)
    BY Zenon, RestTypes, GotoTypes DEF Steps
  <2>2. Relies(stored, file, j) /\ Current(epoch, head, j)
    BY Zenon, <2>1, RestTypes DEF Relies, Current, Fields, Fetched
  <2> QED BY Zenon, <2>1, <2>2 DEF Fields
<1>IdleRelies. ASSUME KeepInv PROVE Idle \in Jobs /\ Relies(stored, file, Idle) /\ Current(epoch, head, Idle)
  BY Zenon, <1>IdleRelies, IdleFields DEF Fields, Current, Relies, Fetched
<1>AcquireStep.
      ASSUME KeepInv, NEW p \in Procs, Acquire(p)
      PROVE  KeepInv'
  <2> USE <1>AcquireStep
  <2>1. PICK j : j = [Idle EXCEPT !.at = "load"]
    BY Zenon
  <2>2. j \in Jobs /\ Relies(stored, file, j) /\ Current(epoch, head, j)
    BY Zenon, <2>1, LoadFields DEF Fields, Current, Relies, Fetched
  <2> QED BY Zenon, <2>1, <2>2, <1>JobStep, RestTypes DEF Acquire, device, files
<1>LoadAuditStateStep.
      ASSUME KeepInv, NEW p \in Procs, LoadAuditState(p)
      PROVE  KeepInv'
  <2> USE <1>LoadAuditStateStep
  <2>1. PICK j : j = [Idle EXCEPT !.at = "fetch", !.tail = tail]
    BY Zenon
  <2>2. tail # None => j \in Jobs /\ Relies(stored, file, j) /\ Current(epoch, head, j)
    BY Zenon, <2>1, RestTypes, FetchFields DEF KeepInv, Fields, Current, Relies, Fetched
  <2>3. \E x \in Jobs : job' = [job EXCEPT ![p] = x] /\ Relies(stored, file, x) /\ Current(epoch, head, x)
    BY Zenon, <2>1, <2>2, <1>Released DEF LoadAuditState
  <2> QED BY Zenon, <2>3, <1>JobStep, RestTypes DEF LoadAuditState, device, files
<1>FetchLogStep.
      ASSUME KeepInv, NEW p \in Procs, FetchLog(p)
      PROVE  KeepInv'
  <2> USE <1>FetchLogStep
  <2>1. job[p].tail \in Entries /\ Safe(stored, file, job[p].tail[1], job[p].tail[2])
    BY Zenon, RestTypes DEF FetchLog, Relies, Jobs
  <2>2. CASE Goto(p, "release")
    <3>1. alarm' \in BOOLEAN
      BY Zenon, RestTypes DEF FetchLog
    <3> QED BY Zenon, <2>2, <3>1, <1>Released, <1>JobStep, RestTypes DEF FetchLog, device, files
  <2>3. CASE ~Goto(p, "release")
    <3>1. PICK f \in Trim(job[p].tail, epoch, consumed, head) :
             /\ consumed # head
             /\ job' = [job EXCEPT ![p] = [Idle EXCEPT !.at = IF f < head THEN "sink" ELSE "consume",
                                                       !.ep = epoch, !.from = f, !.to = head]]
             /\ \E g \in Trim(job[p].tail, epoch, consumed, head) :
                   VerifySegment(job[p].tail, epoch, g, head)
      BY Zenon, <2>3 DEF FetchLog, trimToTail
    <3>2. VerifySegment(job[p].tail, epoch, f, head)
      BY <3>1, DeviceTypes, TrimOne
    <3>3. f \in consumed .. head /\ job[p].tail = <<epoch, f>>
      BY Zenon, <2>1, <3>1, <3>2, Continues
    <3>4. PICK at : at = IF f < head THEN "sink" ELSE "consume"
      BY Zenon
    <3>5. PICK j : j = [Idle EXCEPT !.at = at, !.ep = epoch, !.from = f, !.to = head]
      BY Zenon
    <3>6. f \in 0 .. MaxHead /\ f <= head /\ (~(f < head) => f = head) /\ head - f <= Ring
      BY <3>3, DeviceTypes, HsmAuditConstants
    <3>7. Fields(j, at, FALSE, None, epoch, f, head)
      BY Zenon, <3>4, <3>5, <3>6, DeviceTypes, SegmentFields DEF Steps
    <3>8. Safe(stored, file, epoch, f)
      BY <2>1, <3>3
    <3>9. epoch > 0 /\ head > 0 /\ epoch <= epoch /\ head <= head
      BY DeviceTypes
    <3>10. Relies(stored, file, j) /\ Current(epoch, head, j)
      BY Zenon, <3>4, <3>6, <3>7, <3>8, <3>9 DEF Relies, Current, Fields, Safe, Fetched
    <3>11. job' = [job EXCEPT ![p] = j]
      BY Zenon, <3>1, <3>4, <3>5
    <3>12. alarm' \in BOOLEAN
      BY Zenon, RestTypes DEF FetchLog
    <3> QED BY Zenon, <3>7, <3>10, <3>11, <3>12, <1>JobStep, RestTypes DEF FetchLog, device, files, Fields
  <2> QED BY Zenon, <2>2, <2>3
<1>ReleaseStep.
      ASSUME KeepInv, NEW p \in Procs, Release(p)
      PROVE  KeepInv'
  <2> USE <1>ReleaseStep
  <2>1. lease' \in Procs \union {"free", "dead"}
    BY Zenon, RestTypes DEF Release
  <2> QED BY Zenon, <2>1, <1>IdleRelies, <1>JobStep, RestTypes DEF Release, device, files
<1>ProvisionLoadStep.
      ASSUME KeepInv, NEW p \in Procs, ProvisionLoad(p)
      PROVE  KeepInv'
  <2> USE <1>ProvisionLoadStep
  <2>1. PICK j : j = [Idle EXCEPT !.at = "fetch", !.prov = TRUE]
    BY Zenon
  <2>2. j \in Jobs /\ Relies(stored, file, j) /\ Current(epoch, head, j)
    BY Zenon, <2>1, FetchFields DEF Fields, Current, Relies, Fetched
  <2> QED BY Zenon, <2>1, <2>2, <1>JobStep, RestTypes DEF ProvisionLoad, device, files
<1>FromNothing. Kept(stored, epoch, 0) /\ Written(file, epoch, 0)
  BY DEF Kept, Written
<1>ProvisionFetchStep.
      ASSUME KeepInv, NEW p \in Procs, ProvisionFetch(p)
      PROVE  KeepInv'
  <2> USE <1>ProvisionFetchStep
  <2>1. PICK j : j = [Idle EXCEPT !.at = "sink", !.prov = TRUE, !.ep = epoch, !.to = head]
    BY Zenon
  <2>2. Fields(j, "sink", TRUE, None, epoch, 0, head)
    BY Zenon, <2>1, DeviceTypes, SegmentFields DEF Steps
  <2>3. consumed = 0 => epoch > 0 /\ head > 0 /\ 0 < head /\ 0 <= head /\ head - 0 <= Ring
                   /\ epoch <= epoch /\ head <= head
    BY DeviceTypes
  <2>4. consumed = 0 => j \in Jobs /\ Relies(stored, file, j) /\ Current(epoch, head, j)
    BY Zenon, <2>2, <2>3, <1>FromNothing DEF Relies, Current, Fields, Fetched
  <2>5. \E x \in Jobs : job' = [job EXCEPT ![p] = x] /\ Relies(stored, file, x) /\ Current(epoch, head, x)
    BY Zenon, <2>1, <2>4, <1>Released DEF ProvisionFetch
  <2> QED BY Zenon, <2>5, <1>JobStep, RestTypes DEF ProvisionFetch, device, files
<1>FailStep.
      ASSUME KeepInv, NEW p \in Procs, Fail(p)
      PROVE  KeepInv'
  <2> USE <1>FailStep
  <2>1. \E x \in Jobs : job' = [job EXCEPT ![p] = x] /\ Relies(stored, file, x) /\ Current(epoch, head, x)
    BY Zenon, <1>IdleRelies, <1>Released DEF Fail
  <2> QED BY Zenon, <2>1, <1>OneMore, <1>JobStep, RestTypes DEF Fail, device, files
<1>RestartStep.
      ASSUME KeepInv, NEW p \in Procs, Restart(p)
      PROVE  KeepInv'
  <2> USE <1>RestartStep
  <2>1. TypeOK /\ last \in [Procs -> Entries \union {None}]
    BY Zenon DEF KeepInv, TypeOK
  <2>2. /\ job' \in [Procs -> Jobs] /\ job'[p] = Idle
        /\ \A q \in Procs : q = p \/ job'[q] = job[q]
    BY Zenon, <2>1, <1>IdleRelies, JobTypes DEF Restart
  <2>3. /\ last' \in [Procs -> Entries \union {None}]
        /\ last'[p] = ReadTail /\ \A q \in Procs : q = p \/ last'[q] = last[q]
    BY Zenon, <2>1, LastOfFile DEF Restart
  <2>4. lease' \in Procs \union {"free", "dead"} /\ errors' \in 0 .. conf.errors
    BY Zenon, RestTypes, <1>OneMore DEF Restart
  <2>5. TypeOK'
    BY Zenon, <2>1, <2>2, <2>3, <2>4 DEF TypeOK, Restart, device
  <2>6. UNCHANGED <<stored, file, epoch, consumed, astray, tail>>
    BY Zenon DEF Restart, device
  <2>7. Grows /\ Backed(stored', file', epoch', consumed', astray') /\ Relies(stored', file', job'[p])
    BY Zenon, <2>2, <2>6, <1>IdleRelies DEF KeepInv, Grows
  <2>8. Whole(file') =>
           \A q \in Procs : last'[q] \in {last[q], None} \/ \E k \in DOMAIN file' : file'[k] = last'[q]
    BY Zenon, <2>3, <2>6, LastOfFile
  <2>9. /\ tail' \in {tail, None} /\ file' = file
        /\ \A k \in DOMAIN file' : k \in DOMAIN file
    BY Zenon, <2>6
  <2>10. \A q \in Procs : Current(epoch', head', job'[q])
    BY Zenon, <2>2, <1>IdleRelies DEF KeepInv, Restart, device
  <2> QED BY Zenon, <2>2, <2>5, <2>7, <2>8, <2>9, <2>10, StepKeeps
<1>DeviceStep.
      ASSUME KeepInv, Operate \/ Overflow \/ Reset
      PROVE  KeepInv'
  <2> USE <1>DeviceStep
  <2>1. TypeOK /\ Backed(stored, file, epoch, consumed, astray)
    BY Zenon DEF KeepInv
  <2>2. UNCHANGED <<conf, lease, tail, stored, file, last, unflushed, job, alarm, errors>>
    BY Zenon DEF Operate, Overflow, Reset, files
  <2>3. /\ epoch' \in 1 .. MaxEpoch /\ consumed' \in 0 .. head' /\ head' \in 1 .. MaxHead
        /\ head' - consumed' <= Ring
    BY DeviceTypes, HsmAuditConstants DEF Operate, Overflow, Reset
  <2>4. TypeOK'
    <3>1. unlogged' \in BOOLEAN /\ astray' \subseteq 1 .. MaxHead
      BY Zenon, RestTypes DEF Operate, Overflow, Reset
    <3> QED BY Zenon, <2>1, <2>2, <2>3, <3>1 DEF TypeOK
  <2>5. consumed' = 0 \/ (epoch' = epoch /\ consumed' = consumed /\ astray' = astray)
    BY Zenon DEF Operate, Overflow, Reset
  <2>6. Backed(stored', file', epoch', consumed', astray')
    <3>1. CASE consumed' = 0
      BY <3>1 DEF Backed
    <3> QED BY Zenon, <2>1, <2>2, <2>5, <3>1
  <2>7. PICK p : p \notin Procs
    BY Zenon, HsmAuditConstants
  <2>9. \A q \in Procs : Current(epoch', head', job'[q])
    <3> SUFFICES ASSUME NEW q \in Procs PROVE Current(epoch', head', job'[q])
      BY Zenon
    <3>1. job[q] \in Jobs /\ job'[q] = job[q] /\ Current(epoch, head, job[q])
      BY Zenon, <2>1, <2>2 DEF KeepInv, TypeOK
    <3>2. job[q].ep \in Nat /\ job[q].to \in Nat
      BY <3>1, HsmAuditConstants DEF Jobs
    <3>3. (epoch' = epoch /\ (head' = head + 1 \/ head' = head)) \/ epoch' = epoch + 1
      BY Zenon DEF Operate, Overflow, Reset
    <3> QED BY <3>1, <3>2, <3>3, DeviceTypes DEF Current
  <2>8. \A q \in Procs : q = p \/ job'[q] = job[q]
    BY Zenon, <2>2
  <2> QED BY Zenon, <2>2, <2>4, <2>6, <2>7, <2>8, <2>9, TablesStay
<1>TailMoves.
      ASSUME KeepInv, NEW p \in Procs, job[p].at \in {"tail", "save"},
             tail' = <<job[p].ep, job[p].to>>, Goto(p, "consume"),
             UNCHANGED <<conf, epoch, head, consumed, unlogged, astray, lease, stored, file, last, unflushed, alarm, errors>>
      PROVE  KeepInv'
  <2> USE <1>TailMoves
  <2>1. /\ job' \in [Procs -> Jobs] /\ \A q \in Procs : q = p \/ job'[q] = job[q]
        /\ Fields(job'[p], "consume", job[p].prov, job[p].tail, job[p].ep, job[p].from, job[p].to)
    BY Zenon, Moves DEF Steps
  <2>2. Relies(stored, file, job[p]) /\ Current(epoch, head, job[p]) /\ job[p].at \in Fetched
    BY Zenon DEF KeepInv, Fetched
  <2>3. TypeOK'
    BY Zenon, <2>1, <2>2, Segment DEF KeepInv, TypeOK
  <2>4. Relies(stored', file', job'[p]) /\ Current(epoch', head', job'[p])
    BY Zenon, <2>1, <2>2 DEF Relies, Current, Fields, Fetched
  <2>5. Safe(stored', file', job[p].ep, job[p].to)
    BY Zenon, <2>2 DEF Relies, Safe
  <2>6. tail'[1] = job[p].ep /\ tail'[2] = job[p].to
    OBVIOUS
  <2>7. Safe(stored', file', tail'[1], tail'[2]) /\ Backed(stored', file', epoch', consumed', astray')
    BY Zenon, <2>5, <2>6 DEF KeepInv
  <2>8. \A q \in Procs : Current(epoch', head', job'[q])
    BY Zenon, <2>1, <2>4 DEF KeepInv
  <2> QED BY Zenon, <2>1, <2>3, <2>4, <2>7, <2>8, TablesStay
<1>UpdateTailStep.
      ASSUME KeepInv, NEW p \in Procs, UpdateTail(p)
      PROVE  KeepInv'
  BY Zenon, <1>UpdateTailStep, <1>TailMoves DEF UpdateTail, device, files
<1>SaveAuditStateStep.
      ASSUME KeepInv, NEW p \in Procs, SaveAuditState(p)
      PROVE  KeepInv'
  <2> USE <1>SaveAuditStateStep
  <2>1. CASE tail' = <<job[p].ep, job[p].to>> /\ Goto(p, "consume")
    BY Zenon, <2>1, <1>TailMoves DEF SaveAuditState, device, files
  <2>2. CASE UNCHANGED tail /\ Goto(p, "release")
    BY Zenon, <2>2, <1>Released, <1>JobStep, RestTypes DEF SaveAuditState, device, files
  <2> QED BY Zenon, <2>1, <2>2 DEF SaveAuditState
<1>ConsumeLogStep.
      ASSUME KeepInv, NEW p \in Procs, ConsumeLog(p)
      PROVE  KeepInv'
  <2> USE <1>ConsumeLogStep
  <2>1. /\ job' \in [Procs -> Jobs] /\ \A q \in Procs : q = p \/ job'[q] = job[q]
        /\ Fields(job'[p], "release", job[p].prov, job[p].tail, job[p].ep, job[p].from, job[p].to)
    BY Zenon, Moves DEF ConsumeLog, Steps
  <2>2. UNCHANGED <<conf, epoch, head, unlogged, lease, tail, stored, file, last, unflushed, alarm, errors>>
    BY Zenon DEF ConsumeLog, files
  <2>3. Relies(stored, file, job[p]) /\ Current(epoch, head, job[p]) /\ job[p].at \in Fetched
    BY Zenon DEF KeepInv, Fetched, ConsumeLog
  <2>4. \/ consumed' = consumed /\ astray' = astray
        \/ /\ consumed' \in consumed + 1 .. head
           /\ \/ <<epoch, consumed'>> = <<job[p].ep, job[p].to>> /\ astray' = astray \union {}
              \/ astray' = astray \union (consumed + 1 .. consumed')
    BY Zenon DEF ConsumeLog
  <2>5. /\ consumed' \in 0 .. head /\ head - consumed' <= Ring /\ consumed' \in Nat
        /\ astray' \subseteq 1 .. MaxHead
    <3>1. consumed' \in 0 .. head /\ head - consumed' <= Ring /\ consumed' \in Nat
      BY <2>4, DeviceTypes, HsmAuditConstants
    <3>2. consumed + 1 .. consumed' \subseteq 1 .. MaxHead
      BY <3>1, DeviceTypes, HsmAuditConstants
    <3> QED BY Zenon, <2>4, <3>1, <3>2, RestTypes
  <2>6. TypeOK'
    BY Zenon, <2>1, <2>2, <2>5 DEF KeepInv, TypeOK
  <2>7. Relies(stored', file', job'[p]) /\ Current(epoch', head', job'[p])
    BY Zenon, <2>1, <2>2, <2>3 DEF Relies, Current, Fields, Fetched
  <2>8. Backed(stored, file, epoch, consumed', astray')
    <3>1. Backed(stored, file, epoch, consumed, astray)
      BY Zenon DEF KeepInv
    \* The entry acknowledged is the one fetched: all up to it are stored.
    <3>2. CASE <<epoch, consumed'>> = <<job[p].ep, job[p].to>>
      <4>1. job[p].ep = epoch /\ job[p].to = consumed' /\ job[p].at = "consume"
        BY <3>2 DEF ConsumeLog
      <4>2. Kept(stored, epoch, consumed') /\ Written(file, epoch, consumed')
        BY Zenon, <2>3, <4>1 DEF Relies
      <4> QED BY Zenon, <4>2 DEF Backed, Kept, Written
    \* It is another: those freed are astray.
    <3>3. CASE astray' = astray \union (consumed + 1 .. consumed')
      <4> SUFFICES ASSUME NEW i \in (1 .. consumed') \ astray' PROVE i \in (1 .. consumed) \ astray
        BY Zenon, <3>1 DEF Backed
      <4>1. i \in 1 .. consumed' /\ i \notin astray /\ i \notin consumed + 1 .. consumed'
        BY Zenon, <3>3
      <4>2. i \in 1 .. consumed
        BY <2>5, <4>1, DeviceTypes, HsmAuditConstants
      <4> QED BY Zenon, <4>1, <4>2
    <3> QED BY Zenon, <2>4, <3>1, <3>2, <3>3
  <2>9. \A q \in Procs : Current(epoch', head', job'[q])
    BY Zenon, <2>1, <2>2, <2>7 DEF KeepInv
  <2>10. Backed(stored', file', epoch', consumed', astray') /\ tail' \in {tail, None}
    BY Zenon, <2>2, <2>8
  <2> QED BY Zenon, <2>1, <2>2, <2>6, <2>7, <2>9, <2>10, TablesStay
<1>AppendLogEntriesStep.
      ASSUME KeepInv, NEW p \in Procs, AppendLogEntries(p)
      PROVE  KeepInv'
  <2> USE <1>AppendLogEntriesStep
  <2> DEFINE ep == job[p].ep
             from == job[p].from
             to == job[p].to
             new == {<<ep, i>> : i \in from + 1 .. to}
  <2>1. /\ UNCHANGED <<conf, epoch, head, consumed, unlogged, astray, lease, tail, file, last, unflushed, alarm, errors>>
        /\ job[p].at = "append" /\ job[p].at \in Fetched
    BY Zenon DEF AppendLogEntries, device, files, Fetched
  <2>2. CASE \E e \in new : StoredOtherwise(e)
    BY ZenonT(60), <2>1, <2>2, <1>Released, <1>JobStep, RestTypes DEF AppendLogEntries
  <2>3. CASE \A e \in new : ~StoredOtherwise(e)
    <3>1. PICK at \in {"save", "tail"} : Goto(p, at)
      BY Zenon, <2>3 DEF AppendLogEntries
    <3>2. stored' = [n \in DOMAIN stored |-> IF \E e \in new : Number(e) = n
                                             THEN CHOOSE e \in new : Number(e) = n ELSE stored[n]]
      BY Zenon, <2>3 DEF AppendLogEntries
    <3>3. stored \in [1 .. Modulus - 1 -> Entries \union {None}] /\ job[p] \in Jobs
          /\ Relies(stored, file, job[p]) /\ Current(epoch, head, job[p])
      BY Zenon DEF KeepInv, TypeOK
    <3>4. /\ ep \in 1 .. MaxEpoch /\ to \in 1 .. MaxHead /\ from \in 0 .. MaxHead /\ from <= to
          /\ to \in 0 .. MaxHead
      BY Zenon, <2>1, Segment
    <3>5. Kept(stored, ep, from) /\ to - from <= Ring /\ Written(file, ep, to)
      BY Zenon, <2>1, <3>3 DEF Relies
    <3> HIDE DEF ep, from, to
    <3>6. \A i \in from + 1 .. to : i \in 1 .. MaxHead /\ i \in Nat /\ i > 0
      BY <3>4, HsmAuditConstants
    <3>7. \A e \in new : e \in Entries
      BY <3>4, <3>6 DEF Entries
    <3>8. \A n \in 1 .. Modulus - 1 :
             (\E e \in new : Number(e) = n /\ stored'[n] = e /\ stored[n] \in {None, e})
             \/ ((\A e \in new : Number(e) # n) /\ stored'[n] = stored[n])
      <4> HIDE DEF new
      <4> SUFFICES ASSUME NEW n \in 1 .. Modulus - 1, NEW e \in new, Number(e) = n
                   PROVE  \E x \in new : Number(x) = n /\ stored'[n] = x /\ stored[n] \in {None, x}
        BY Zenon, <3>2, <3>3
      <4>1. PICK x : x = CHOOSE y \in new : Number(y) = n
        BY Zenon
      <4>2. x \in new /\ Number(x) = n
        BY Zenon, <4>1
      <4>3. stored'[n] = x
        BY Zenon, <3>2, <3>3, <4>1
      <4> QED BY Zenon, <2>3, <4>2, <4>3 DEF StoredOtherwise
    <3>9. stored' \in [1 .. Modulus - 1 -> Entries \union {None}]
      <4>1. \A n \in DOMAIN stored' : stored'[n] \in Entries \union {None}
        BY Zenon, <3>2, <3>3, <3>7, <3>8
      <4>2. stored' = [n \in DOMAIN stored' |-> stored'[n]] /\ DOMAIN stored' = 1 .. Modulus - 1
        BY Zenon, <3>2, <3>3
      <4> QED BY Zenon, <4>1, <4>2
    <3>10. Grows
      BY Zenon, <2>1, <3>8 DEF Grows
    <3>11. Kept(stored', ep, to)
      <4> SUFFICES ASSUME NEW i \in 1 .. to PROVE stored'[Number(<<ep, i>>)] = <<ep, i>>
        BY Zenon DEF Kept
      <4>1. CASE i \in from + 1 .. to
        <5>1. Number(<<ep, i>>) \in 1 .. Modulus - 1 /\ <<ep, i>> \in new
          BY Zenon, <3>6, <4>1, NumberRange
        <5>2. PICK e \in new : Number(e) = Number(<<ep, i>>) /\ stored'[Number(<<ep, i>>)] = e
          BY Zenon, <3>8, <5>1
        <5>3. PICK k \in from + 1 .. to : e = <<ep, k>>
          BY Zenon, <5>2
        <5>4. i - k < Modulus - 1 /\ k - i < Modulus - 1
          BY <3>4, <3>5, <4>1, <5>3, HsmAuditConstants
        <5>5. k = i
          BY Zenon, <3>6, <4>1, <5>2, <5>3, <5>4, NumberOnce
        <5> QED BY Zenon, <5>2, <5>3, <5>5
      <4>2. CASE i \in 1 .. from
        <5>1. from \in Nat
          BY <3>4, HsmAuditConstants
        <5>2. Kept(stored', ep, from)
          BY Zenon, <3>5, <3>10, <5>1, KeptStays
        <5> QED BY Zenon, <4>2, <5>2 DEF Kept
      <4> QED BY <3>4, <4>1, <4>2
    <3>12. /\ job' \in [Procs -> Jobs] /\ \A q \in Procs : q = p \/ job'[q] = job[q]
           /\ Fields(job'[p], at, job[p].prov, job[p].tail, ep, from, to)
      BY Zenon, <3>1, Moves DEF Steps, ep, from, to
    <3>13. TypeOK'
      BY Zenon, <2>1, <3>9, <3>12 DEF KeepInv, TypeOK
    <3>14. Relies(stored', file', job'[p]) /\ Current(epoch', head', job'[p])
      <4>1. Relies(stored', file', job[p])
        BY Zenon, <3>3, <3>10, ReliesStays
      <4>2. Written(file', ep, to)
        BY Zenon, <2>1, <3>5
      <4> QED BY Zenon, <2>1, <3>3, <3>11, <3>12, <4>1, <4>2 DEF Relies, Current, Fields, Fetched, ep, from, to
    <3>15. Backed(stored', file', epoch', consumed', astray')
      <4>1. consumed \in Nat
        BY DeviceTypes, HsmAuditConstants
      <4> QED BY Zenon, <2>1, <3>10, <4>1, BackedStays DEF KeepInv
    <3>16. \A q \in Procs : Current(epoch', head', job'[q])
      BY Zenon, <2>1, <3>12, <3>14 DEF KeepInv
    <3>17. /\ tail' \in {tail, None} /\ file' = file /\ \A q \in Procs : last'[q] \in {last[q], None}
           /\ \A k \in DOMAIN file' : k \in DOMAIN file
      BY Zenon, <2>1
    <3> QED BY Zenon, <3>10, <3>12, <3>13, <3>14, <3>15, <3>16, <3>17, StepKeeps
  <2> QED BY Zenon, <2>2, <2>3
<1>AppendEntriesStep.
      ASSUME KeepInv, NEW p \in Procs, AppendEntries(p)
      PROVE  KeepInv'
  <2> USE <1>AppendEntriesStep
  <2> DEFINE ep == job[p].ep
             from == job[p].from
             to == job[p].to
             new == trimWritten(last[p], ep, from, to)
  <2>1. /\ UNCHANGED <<conf, epoch, head, consumed, unlogged, astray, lease, tail, stored, alarm>>
        /\ job[p].at = "sink" /\ job[p].at \in Fetched
    BY Zenon DEF AppendEntries, device, Fetched
  <2>2. /\ ep \in 1 .. MaxEpoch /\ to \in 1 .. MaxHead /\ from \in 0 .. MaxHead /\ to \in 0 .. MaxHead
        /\ from <= to /\ <<ep, to>> \in Entries
    BY Zenon, <2>1, Segment
  <2>3. Relies(stored, file, job[p]) /\ Current(epoch, head, job[p]) /\ job[p] \in Jobs
    BY Zenon DEF KeepInv, TypeOK
  <2>4. last \in [Procs -> Entries \union {None}] /\ consumed \in Nat
    <3>1. consumed \in Nat
      BY DeviceTypes, HsmAuditConstants
    <3> QED BY Zenon, <3>1 DEF KeepInv, TypeOK
  \* Nothing is left to write.
  <2>5. ASSUME ~ \E f \in new : f < to PROVE Written(file, ep, to)
    <3> SUFFICES ASSUME HalfRange, Whole(file), Pure(file, ep), NEW i \in 1 .. to
                 PROVE  \E k \in DOMAIN file : file[k] = <<ep, i>>
      BY Zenon DEF Written
    <3> QED BY Zenon, <2>1, <2>5, Covered
  \* The job after the cycle's step, once the file is written or left.
  <2>6. ASSUME NEW at \in {"append", "release"}, Goto(p, at), Grows,
               at = "append" => Written(file', ep, to)
        PROVE  /\ job' \in [Procs -> Jobs] /\ \A q \in Procs : q = p \/ job'[q] = job[q]
               /\ Relies(stored', file', job'[p]) /\ \A q \in Procs : Current(epoch', head', job'[q])
               /\ Backed(stored', file', epoch', consumed', astray')
    <3>1. /\ job' \in [Procs -> Jobs] /\ \A q \in Procs : q = p \/ job'[q] = job[q]
          /\ Fields(job'[p], at, job[p].prov, job[p].tail, job[p].ep, job[p].from, job[p].to)
      BY Zenon, <2>6, Moves DEF Steps
    <3>2. Relies(stored', file', job[p])
      BY Zenon, <2>3, <2>6, ReliesStays
    <3>3. Relies(stored', file', job'[p]) /\ Current(epoch', head', job'[p])
      BY Zenon, <2>1, <2>3, <2>6, <3>1, <3>2 DEF Relies, Current, Fields, Fetched
    <3>4. \A q \in Procs : Current(epoch', head', job'[q])
      BY Zenon, <2>1, <3>1, <3>3 DEF KeepInv
    <3>5. Backed(stored', file', epoch', consumed', astray')
      BY Zenon, <2>1, <2>4, <2>6, BackedStays DEF KeepInv
    <3> QED BY Zenon, <3>1, <3>3, <3>4, <3>5
  <2>7. CASE Contradicts(last[p], ep, from, to)
    <3>1. Goto(p, "release") /\ UNCHANGED <<file, last, unflushed, errors>>
      BY Zenon, <2>7 DEF AppendEntries, files
    <3> QED BY Zenon, <2>1, <3>1, <1>Released, <1>JobStep, RestTypes
  <2>8. CASE ~Contradicts(last[p], ep, from, to)
    <3>1. CASE ~ \E f \in new : f < to
      <4>0. Goto(p, "append") /\ UNCHANGED <<file, last, unflushed, errors>>
        BY Zenon, <2>8, <3>1 DEF AppendEntries, files
      <4>2. Grows
        BY Zenon, <2>1, <4>0 DEF Grows
      <4>3. /\ job' \in [Procs -> Jobs] /\ \A q \in Procs : q = p \/ job'[q] = job[q]
            /\ Relies(stored', file', job'[p]) /\ \A q \in Procs : Current(epoch', head', job'[q])
            /\ Backed(stored', file', epoch', consumed', astray')
        BY Zenon, <2>5, <2>6, <3>1, <4>0, <4>2
      <4>4. TypeOK'
        BY Zenon, <2>1, <4>0, <4>3 DEF KeepInv, TypeOK
      <4>5. UNCHANGED <<stored, file, last>> /\ tail' \in {tail, None}
        BY Zenon, <2>1, <4>0
      <4> QED BY Zenon, <4>3, <4>4, <4>5, TablesStay
    \* Something is written, and the file is whole or not.
    <3>2. ASSUME NEW f \in new, f < to, file' \in Seq(Lines),
                 ~Whole(file') \/ (Whole(file) /\ file' = file \o Records(last[p], ep, Min(new), to)),
                 NEW at \in {"append", "release"}, Goto(p, at),
                 last' = last \/ last' = [last EXCEPT ![p] = <<ep, to>>],
                 unflushed' \in BOOLEAN, errors' \in 0 .. conf.errors
          PROVE  KeepInv'
      <4>1. /\ Grows /\ Written(file', ep, to)
            /\ Whole(file') =>
                  /\ file'[Len(file')] = <<ep, to>> /\ Len(file') \in DOMAIN file'
                  /\ \A k \in DOMAIN file' : k \in DOMAIN file \/ file'[k] = Resume
                                              \/ Written(file', file'[k][1], file'[k][2])
        <5>1. CASE ~Whole(file')
          BY Zenon, <2>1, <5>1 DEF Grows, Written
        <5>2. CASE Whole(file) /\ file' = file \o Records(last[p], ep, Min(new), to)
          BY Zenon, <2>1, <3>2, <5>2, FileGrows
        <5> QED BY Zenon, <3>2, <5>1, <5>2
      <4>2. /\ job' \in [Procs -> Jobs] /\ \A q \in Procs : q = p \/ job'[q] = job[q]
            /\ Relies(stored', file', job'[p]) /\ \A q \in Procs : Current(epoch', head', job'[q])
            /\ Backed(stored', file', epoch', consumed', astray')
        BY Zenon, <2>6, <3>2, <4>1
      <4>3. /\ last' \in [Procs -> Entries \union {None}]
            /\ \A q \in Procs : last'[q] = last[q] \/ last'[q] = <<ep, to>>
        BY Zenon, <2>2, <2>4, <3>2
      <4>4. TypeOK'
        BY ZenonT(60), <2>1, <3>2, <4>2, <4>3 DEF KeepInv, TypeOK
      <4>5. tail' \in {tail, None}
        BY Zenon, <2>1
      <4>6. Whole(file') =>
            /\ \A q \in Procs : last'[q] \in {last[q], None} \/ \E k \in DOMAIN file' : file'[k] = last'[q]
            /\ file'[Len(file')] # Resume
        BY Zenon, <2>2, <4>1, <4>3, EntryTypes
      <4> QED BY Zenon, <4>1, <4>2, <4>4, <4>5, <4>6, StepKeeps
    <3>3. CASE \E f \in new : f < to
      <4>1. PICK f \in new : f < to
        BY Zenon, <3>3
      <4>2. PICK recs : recs = Records(last[p], ep, Min(new), to)
        BY Zenon
      <4>3. \/ /\ file' = Appended(recs) /\ Goto(p, "append") /\ last' = [last EXCEPT ![p] = <<ep, to>>]
               /\ UNCHANGED <<unflushed, errors>>
            \/ /\ \E k \in 0 .. Len(recs) : file' = Appended(Cut(recs, k))
               /\ Goto(p, "release") /\ last' = last /\ unflushed' = TRUE
               /\ errors < conf.errors /\ errors' = errors + 1
        BY Zenon, <2>8, <4>1, <4>2 DEF AppendEntries
      <4>4. unflushed' \in BOOLEAN /\ errors' \in 0 .. conf.errors
        BY Zenon, <4>3, <1>OneMore, RestTypes
      <4>5. recs \in Seq(Lines) /\ Len(recs) > 0
        <5>1. f \in from .. to /\ new = {f}
          BY <2>2, <4>1, TrimOne DEF trimWritten
        <5>2. f \in 0 .. MaxHead /\ f \in Nat
          BY <2>2, <5>1, HsmAuditConstants
        <5>3. Min(new) = f
          BY Zenon, <5>1, <5>2, MinOfOne
        <5>4. Segmented(Records(last[p], ep, f, to), ep, f, to)
          BY <2>2, <4>1, <5>2, RecordsAre
        <5> QED BY Zenon, <4>2, <5>3, <5>4 DEF Segmented
      <4>6. file' \in Seq(Lines) /\ (~Whole(file') \/ (Whole(file) /\ file' = file \o recs))
        <5>1. file \in Seq(Lines)
          BY Zenon DEF KeepInv, TypeOK
        <5> QED BY Zenon, <4>3, <4>5, <5>1, WriteKeeps
      <4> QED BY Zenon, <3>2, <4>1, <4>2, <4>3, <4>4, <4>6
    <3> QED BY Zenon, <3>1, <3>3
  <2> QED BY Zenon, <2>7, <2>8
<1> SUFFICES ASSUME KeepInv, [Next]_vars PROVE KeepInv'
  OBVIOUS
<1>1. CASE UNCHANGED vars
  BY Zenon, <1>1 DEF vars, device, files, KeepInv, TypeOK
<1>2. CASE Operate \/ Overflow \/ Reset
  BY Zenon, <1>2, <1>DeviceStep
<1>3. ASSUME NEW p \in Procs, Cycle(p) \/ ProvisionLoad(p) \/ Fail(p) \/ Restart(p)
      PROVE  KeepInv'
  <2>1. CASE Cycle(p)
    BY Zenon, <2>1, <1>AcquireStep, <1>LoadAuditStateStep, <1>FetchLogStep, <1>AppendEntriesStep,
       <1>AppendLogEntriesStep, <1>UpdateTailStep, <1>ConsumeLogStep, <1>ReleaseStep, <1>ProvisionFetchStep,
       <1>SaveAuditStateStep DEF Cycle
  <2> QED BY Zenon, <1>3, <2>1, <1>ProvisionLoadStep, <1>FailStep, <1>RestartStep
<1> QED BY Zenon, <1>1, <1>2, <1>3 DEF Next

LEMMA AlwaysKeepInv == Spec => []KeepInv
BY KeepInit, KeepStep, PTL DEF Spec

-----------------------------------------------------------------------------
(* The counter wraps.                                                      *)

\* Two numbers less than a round apart.
LEMMA NextRemainder ==
    ASSUME NEW i \in Nat, NEW j \in Nat, NEW b \in Nat, b # 0, i < j, j - i < b
    PROVE  \/ j % b = (i % b) + (j - i)
           \/ j % b = (i % b) + (j - i) - b
<1>1. PICK q \in Int : i = b * q + (i % b)
  BY Zenon, Quotient
<1>2. PICK u \in Int : j = b * u + (j % b)
  BY Zenon, Quotient
<1>3. PICK r \in Int, s \in Int, x \in Int, y \in Int :
         r = i % b /\ s = j % b /\ x = b * q /\ y = b * u
  OBVIOUS
<1>4. r \in 0 .. b - 1 /\ s \in 0 .. b - 1
  BY Zenon, <1>3, Remainder
<1>5. i = x + r /\ j = y + s
  BY Zenon, <1>1, <1>2, <1>3
<1>6. CASE u <= q - 1
  <2>1. b * u <= b * (q - 1)
    BY <1>6
  <2>2. b * (q - 1) = b * q - b
    OBVIOUS
  <2>3. y <= x - b
    BY <1>3, <2>1, <2>2
  <2> QED BY <1>4, <1>5, <2>3
<1>7. CASE u >= q + 2
  <2>1. b * u >= b * (q + 2)
    BY <1>7
  <2>2. b * (q + 2) = b * q + b + b
    OBVIOUS
  <2>3. y >= x + b + b
    BY <1>3, <2>1, <2>2
  <2> QED BY <1>4, <1>5, <2>3
<1>8. CASE u = q
  <2>1. y = x
    BY <1>3, <1>8
  <2>2. s = r + (j - i)
    BY <1>5, <2>1
  <2> QED BY Zenon, <1>3, <2>2
<1>9. CASE u = q + 1
  <2>1. b * (q + 1) = b * q + b
    OBVIOUS
  <2>2. y = x + b
    BY <1>3, <1>9, <2>1
  <2>3. s = r + (j - i) - b
    BY <1>5, <2>2
  <2> QED BY Zenon, <1>3, <2>3
<1> QED BY <1>6, <1>7, <1>8, <1>9

\* The same of the numbers of entries.
LEMMA NumberMoves ==
    ASSUME NEW ep, NEW i \in Nat, NEW j \in Nat, i > 0, i < j, j - i < Modulus - 1
    PROVE  /\ Number(<<ep, i>>) \in 1 .. Modulus - 1 /\ Number(<<ep, j>>) \in 1 .. Modulus - 1
           /\ \/ Number(<<ep, j>>) = Number(<<ep, i>>) + (j - i)
              \/ Number(<<ep, j>>) = Number(<<ep, i>>) + (j - i) - (Modulus - 1)
<1>1. PICK a \in Nat, c \in Nat, m \in Nat : a = i - 1 /\ c = j - 1 /\ m = Modulus - 1 /\ m # 0
  BY HsmAuditConstants
<1>2. (c % m = (a % m) + (c - a)) \/ (c % m = (a % m) + (c - a) - m)
  <2>1. a < c /\ c - a < m
    BY <1>1
  <2>2. PICK x \in Nat : x = m
    BY <1>1
  <2>3. x # 0 /\ c - a < x
    BY <1>1, <2>1, <2>2
  <2>4. (c % x = (a % x) + (c - a)) \/ (c % x = (a % x) + (c - a) - x)
    BY ZenonT(60), <2>1, <2>3, NextRemainder
  <2> QED BY Zenon, <2>2, <2>4
<1>3. a % m \in 0 .. m - 1 /\ c % m \in 0 .. m - 1
  BY Zenon, <1>1, Remainder
<1>4. PICK x \in Int, y \in Int : x = a % m /\ y = c % m
  BY <1>3
<1>5. Number(<<ep, i>>) = 1 + x /\ Number(<<ep, j>>) = 1 + y
  BY <1>1, <1>4 DEF Number
<1>6. (y = x + (c - a) \/ y = x + (c - a) - m) /\ x \in 0 .. m - 1 /\ y \in 0 .. m - 1
  BY Zenon, <1>2, <1>3, <1>4
<1> QED BY <1>1, <1>5, <1>6

LEMMA NumberNext ==
    ASSUME NEW ep, NEW i \in Nat, i > 0
    PROVE  /\ Number(<<ep, i + 1>>) = nextNumber(Number(<<ep, i>>))
           /\ Number(<<ep, i + 1>>) # Number(<<ep, i>>)
           /\ isForward(Number(<<ep, i>>), Number(<<ep, i + 1>>))
<1>1. PICK a \in Int, b \in Int : a = Number(<<ep, i>>) /\ b = Number(<<ep, i + 1>>)
      /\ a \in 1 .. Modulus - 1 /\ b \in 1 .. Modulus - 1 /\ (b = a + 1 \/ b = a + 1 - (Modulus - 1))
  <2>1. i + 1 \in Nat /\ i < i + 1 /\ (i + 1) - i = 1 /\ 1 < Modulus - 1
    BY HsmAuditConstants
  <2> QED BY <2>1, NumberMoves
<1>2. b = nextNumber(a) /\ b # a
  BY <1>1, HsmAuditConstants DEF nextNumber
<1>3. (b - a) % Modulus \in {1, 2}
  <2>1. CASE b = a + 1
    BY <2>1, HsmAuditConstants
  <2>2. CASE b = a + 1 - (Modulus - 1)
    <3>1. b - a = 2 - Modulus
      BY <1>1, <2>2, HsmAuditConstants
    <3>2. PICK d \in Int : d = Modulus - 2 /\ d > 0 /\ d < Modulus
      BY HsmAuditConstants
    <3>3. (- d) % Modulus = Modulus - d
      BY <3>2, HsmAuditConstants
    <3>4. b - a = - d
      BY <3>1, <3>2, HsmAuditConstants
    <3>5. Modulus - d = 2
      BY <3>2, HsmAuditConstants
    <3> QED BY <3>3, <3>4, <3>5
  <2> QED BY <1>1, <2>1, <2>2
<1>4. PICK h \in Int : h = Modulus \div 2 /\ h > 2
  BY HsmAuditConstants
<1>5. (b - a) % Modulus < h
  BY <1>3, <1>4
<1> QED BY Zenon, <1>1, <1>2, <1>4, <1>5 DEF isForward

LEMMA ForwardSame ==
    ASSUME NEW n \in Int
    PROVE  isForward(n, n)
<1>1. (n - n) % Modulus = 0 /\ Modulus \div 2 > 0
  BY HsmAuditConstants
<1> QED BY <1>1 DEF isForward

\* An entry the ring may still hold is not past a later one.
LEMMA BehindIsBehind ==
    ASSUME NEW ep, NEW i \in Nat, NEW j \in Nat, i > 0, i < j, j - i < Ring
    PROVE  ~isForward(Number(<<ep, j>>), Number(<<ep, i>>))
<1>1. PICK a \in Int, b \in Int, d \in Int :
         /\ a = Number(<<ep, i>>) /\ b = Number(<<ep, j>>) /\ d = j - i
         /\ a \in 1 .. Modulus - 1 /\ b \in 1 .. Modulus - 1 /\ (b = a + d \/ b = a + d - (Modulus - 1))
  <2>1. j - i < Modulus - 1
    BY HsmAuditConstants
  <2> QED BY <2>1, NumberMoves
<1>2. PICK x \in Int : x = Modulus - d /\ 2 * d + 2 <= Modulus /\ d > 0
  BY <1>1, HsmAuditConstants
<1>3. (a - b) % Modulus \in {x, x - 1}
  <2>1. CASE b = a + d
    <3>1. a - b = - d /\ (- d) % Modulus = Modulus - d
      BY <1>2, <2>1, HsmAuditConstants
    <3> QED BY <1>2, <3>1
  <2>2. CASE b = a + d - (Modulus - 1)
    <3>1. a - b = Modulus - d - 1
      BY <1>1, <1>2, <2>2, HsmAuditConstants
    <3>2. (Modulus - d - 1) % Modulus = Modulus - d - 1
      BY <1>2, HsmAuditConstants
    <3> QED BY <1>2, <3>1, <3>2
  <2> QED BY <1>1, <2>1, <2>2
<1>4. PICK h \in Int : h = Modulus \div 2 /\ 2 * h <= Modulus
  BY HsmAuditConstants
<1> QED BY <1>1, <1>2, <1>3, <1>4, HsmAuditConstants DEF isForward

\* The tail lies in the segment of a device that was not reset: what is new begins
\* right after it, wherever the counter stands.
LEMMA TrimToTail ==
    ASSUME NEW ep \in 1 .. MaxEpoch, NEW t \in 1 .. MaxHead, NEW from \in 0 .. MaxHead,
           NEW to \in 0 .. MaxHead, from <= t, t <= to, to - from <= Ring, from < to
    PROVE  Trim(<<ep, t>>, ep, from, to) = {t}
<1> DEFINE pos == <<ep, t>>
           at == {i \in from + 1 .. to : isForward(Number(pos), Number(<<ep, i>>))}
<1>0. pos # None /\ from # to
  BY DEF None
<1>1. FirstForward(pos, ep, from, to) = {i \in at : \A y \in at : i <= y}
  BY Zenon DEF FirstForward
<1>2. at \in SUBSET Int
  BY HsmAuditConstants
<1>3. t \in Nat /\ t > 0
  BY HsmAuditConstants
<1>4. CASE t = from
  <2>1. /\ isForward(Number(pos), Number(<<ep, t + 1>>))
        /\ Number(<<ep, t + 1>>) # Number(pos)
    BY Zenon, <1>3, NumberNext
  <2>2. t + 1 \in from + 1 .. to /\ \A y \in from + 1 .. to : t + 1 <= y
    BY <1>4
  <2>3. t + 1 \in at /\ \A y \in at : t + 1 <= y
    BY Zenon, <2>1, <2>2
  <2> HIDE DEF at
  <2>4. FirstForward(pos, ep, from, to) = {t + 1}
    BY Zenon, <1>1, <1>2, <2>3, Least
  <2>5. Trim(pos, ep, from, to) = {t + 1 - 1}
    BY <1>0, <2>1, <2>4, TrimAt
  <2> QED BY <1>3, <2>5
<1>5. CASE from < t
  <2>1. Number(pos) \in Int
    BY <1>3, NumberRange
  <2>2. t \in at
    <3>1. t \in from + 1 .. to
      BY <1>5
    <3> QED BY Zenon, <2>1, <3>1, ForwardSame
  <2>3. \A y \in from + 1 .. to : y < t => ~isForward(Number(pos), Number(<<ep, y>>))
    <3> SUFFICES ASSUME NEW y \in from + 1 .. to, y < t
                 PROVE  ~isForward(Number(pos), Number(<<ep, y>>))
      BY Zenon
    <3>1. y \in Nat /\ y > 0 /\ t - y < Ring
      BY HsmAuditConstants
    <3> QED BY Zenon, <1>3, <3>1, BehindIsBehind
  <2>4. \A y \in from + 1 .. to : y < t \/ t <= y
    OBVIOUS
  <2>5. \A y \in at : t <= y
    BY Zenon, <2>3, <2>4
  <2> HIDE DEF at
  <2>6. FirstForward(pos, ep, from, to) = {t}
    BY Zenon, <1>1, <1>2, <2>2, <2>5, Least
  <2> QED BY Zenon, <1>0, <2>6, TrimAt
<1> QED BY <1>4, <1>5

\* A position from before a reset, no further than the ring: an entry under its
\* number contradicts it, and earlier ones are behind it.
LEMMA TrimOther ==
    ASSUME NEW e \in 1 .. MaxEpoch, NEW k \in 1 .. MaxHead, NEW ep \in 1 .. MaxEpoch, e # ep,
           NEW from \in 0 .. MaxHead, NEW to \in 0 .. MaxHead, from < to, k <= Ring
    PROVE  /\ k > to => Trim(<<e, k>>, ep, from, to) = {}
           /\ from < k /\ k <= to => Contradicts(<<e, k>>, ep, from, to)
<1> DEFINE pos == <<e, k>>
           at == {i \in from + 1 .. to : isForward(Number(pos), Number(<<ep, i>>))}
<1>0. pos # None /\ from # to /\ <<ep, k>> # pos
  BY DEF None
<1>1. FirstForward(pos, ep, from, to) = {i \in at : \A y \in at : i <= y}
  BY Zenon DEF FirstForward
<1>2. at \in SUBSET Int
  BY HsmAuditConstants
<1>3. k \in Nat /\ k > 0 /\ Number(pos) = Number(<<ep, k>>)
  BY HsmAuditConstants DEF Number
<1>4. \A y \in from + 1 .. to : y < k => y \notin at
  <2> SUFFICES ASSUME NEW y \in from + 1 .. to, y < k
               PROVE  ~isForward(Number(pos), Number(<<ep, y>>))
    BY Zenon
  <2>1. y \in Nat /\ y > 0 /\ k - y < Ring
    BY HsmAuditConstants
  <2> QED BY Zenon, <1>3, <2>1, BehindIsBehind
<1>5. CASE k > to
  <2>1. \A y \in from + 1 .. to : y < k
    BY <1>5
  <2>2. at = {}
    BY Zenon, <1>4, <2>1
  <2>3. FirstForward(pos, ep, from, to) = {}
    BY Zenon, <1>1, <2>2
  <2>4. Trim(pos, ep, from, to) = {}
    BY Zenon, <1>0, <2>3 DEF Trim
  <2> QED BY <1>5, <2>4
<1>6. CASE from < k /\ k <= to
  <2>1. Number(pos) \in Int
    BY <1>3, NumberRange
  <2>2. k \in at
    <3>1. k \in from + 1 .. to
      BY <1>6
    <3> QED BY Zenon, <1>3, <2>1, <3>1, ForwardSame
  <2>3. \A y \in from + 1 .. to : y < k \/ k <= y
    OBVIOUS
  <2>4. \A y \in at : k <= y
    BY Zenon, <1>4, <2>3
  <2> HIDE DEF at
  <2>5. FirstForward(pos, ep, from, to) = {k}
    BY Zenon, <1>1, <1>2, <2>2, <2>4, Least
  <2>6. Contradicts(pos, ep, from, to)
    BY Zenon, <1>0, <1>3, <2>5 DEF Contradicts
  <2> QED BY <1>6, <2>6
<1> QED BY <1>5, <1>6

-----------------------------------------------------------------------------
(* No false alarm.                                                         *)

Respected ==
    /\ epoch = 1 /\ astray = {} /\ ~conf.steal /\ ~conf.rivals
    /\ ~unlogged /\ conf.odd \intersect (1 .. head) = {}

\* What process p may rely on while nothing disturbs the device and the lease: its
\* job j, the lease l, the tail t and the head h.
Cautious(p, j, l, t, h) ==
    /\ j.at = "idle" => ~j.prov
    /\ j.at # "idle" /\ ~j.prov => l = p
    /\ j.at = "fetch" /\ ~j.prov => j.tail = t
    /\ j.at \in Fetched => j.ep = 1 /\ j.to <= h
    /\ j.at \in {"sink", "append", "tail"} /\ ~j.prov => t = <<1, j.from>>
    /\ j.at \in {"fetch", "sink", "append", "save"} /\ j.prov => t = None
    /\ j.at = "tail" => ~j.prov
    /\ j.at = "save" => j.prov
    /\ j.at = "consume" => t # None /\ j.to <= t[2]

\* The tail lies between what the device was told to forget and its head.
Between(t, c, h) ==
    /\ t = None => c = 0
    /\ t # None => t[1] = 1 /\ c <= t[2] /\ t[2] <= h

QuietInv ==
    Respected => /\ ~alarm
                 /\ Between(tail, consumed, head)
                 /\ \A p \in Procs : Cautious(p, job[p], lease, tail, head)
                 /\ \A p, q \in Procs : job[p].prov /\ job[q].prov => p = q

\* p ends its job, or begins one.
LEMMA NewJob ==
    ASSUME KeepInv, NEW p \in Procs, NEW j, job' = [job EXCEPT ![p] = j]
    PROVE  job'[p] = j /\ \A q \in Procs : q = p \/ job'[q] = job[q]
BY Zenon DEF KeepInv, TypeOK

LEMMA QuietIdle ==
    ASSUME NEW p, NEW l, NEW t, NEW h
    PROVE  Cautious(p, Idle, l, t, h) /\ ~Idle.prov
BY Zenon, IdleFields DEF Cautious, Fields, Fetched

LEMMA QuietInit == Init => QuietInv
<1> SUFFICES ASSUME Init PROVE QuietInv
  OBVIOUS
<1>1. ~alarm /\ tail = None /\ consumed = 0 /\ \A p \in Procs : job[p] = Idle
  BY Zenon DEF Init
<1> QED BY Zenon, <1>1, QuietIdle DEF QuietInv, Between

LEMMA QuietStep == KeepInv /\ QuietInv /\ [Next]_vars => QuietInv'
\* What a step has to show.
<1>QuietKeeps.
      ASSUME QuietInv, NEW p, Respected' => Respected,
             \A q \in Procs : q = p \/ job'[q] = job[q],
             Respected /\ Respected' => ~alarm' /\ Between(tail', consumed', head'),
             Respected /\ p \in Procs => Cautious(p, job'[p], lease', tail', head'),
             Respected => \A q \in Procs : q = p \/ Cautious(q, job[q], lease', tail', head'),
             Respected /\ p \in Procs => (job'[p].prov => \A q \in Procs : q = p \/ ~job[q].prov)
      PROVE  QuietInv'
  <2> USE <1>QuietKeeps
  <2> SUFFICES ASSUME Respected'
               PROVE  /\ ~alarm' /\ Between(tail', consumed', head')
                      /\ \A q \in Procs : Cautious(q, job'[q], lease', tail', head')
                      /\ \A q, r \in Procs : job'[q].prov /\ job'[r].prov => q = r
    BY Zenon DEF QuietInv
  <2>1. Respected
    BY Zenon
  <2>2. \A q \in Procs : Cautious(q, job'[q], lease', tail', head')
    BY Zenon, <2>1
  <2>3. \A q, r \in Procs : job'[q].prov /\ job'[r].prov => q = r
    BY Zenon, <2>1 DEF QuietInv
  <2> QED BY Zenon, <2>1, <2>2, <2>3
<1>StillRespected.
      ASSUME conf' = conf, epoch' = epoch, head' = head, unlogged' = unlogged, astray' = astray
      PROVE  Respected' => Respected
  BY Zenon, <1>StillRespected DEF Respected
\* A step of p that changes its job, and perhaps the store and the file.
<1>QuietJob.
      ASSUME QuietInv, NEW p \in Procs, UNCHANGED <<conf, epoch, head, consumed, unlogged, astray, lease, tail>>,
             \A q \in Procs : q = p \/ job'[q] = job[q],
             Respected => /\ ~alarm' /\ Cautious(p, job'[p], lease, tail, head)
                          /\ job'[p].prov => job[p].prov
      PROVE  QuietInv'
  <2> USE <1>QuietJob
  <2>1. Respected => /\ ~alarm' /\ Between(tail', consumed', head')
                     /\ Cautious(p, job'[p], lease', tail', head')
                     /\ \A q \in Procs : q = p \/ Cautious(q, job[q], lease', tail', head')
                     /\ (job'[p].prov => \A q \in Procs : q = p \/ ~job[q].prov)
    BY Zenon DEF QuietInv
  <2> QED BY Zenon, <2>1, <1>QuietKeeps, <1>StillRespected
<1>QuietRelease.
      ASSUME KeepInv, QuietInv, NEW p \in Procs, Goto(p, "release"), job[p].at # "idle"
      PROVE  /\ \A q \in Procs : q = p \/ job'[q] = job[q]
             /\ Respected => Cautious(p, job'[p], lease, tail, head)
             /\ job'[p].prov => job[p].prov
  <2> USE <1>QuietRelease
  <2>1. /\ \A q \in Procs : q = p \/ job'[q] = job[q]
        /\ Fields(job'[p], "release", job[p].prov, job[p].tail, job[p].ep, job[p].from, job[p].to)
    BY Zenon, Moves DEF Steps
  <2> QED BY Zenon, <2>1 DEF Fields, QuietInv, Cautious, Fetched
<1>QuietDevice.
      ASSUME KeepInv, QuietInv, Operate \/ Overflow \/ Reset
      PROVE  QuietInv'
  <2> USE <1>QuietDevice
  <2>1. CASE Reset
    <3>1. epoch' # 1
      BY <2>1, DeviceTypes DEF Reset
    <3> QED BY Zenon, <3>1 DEF QuietInv, Respected
  <2>3. CASE Overflow
    BY Zenon, <2>3 DEF Overflow, QuietInv, Respected
  <2>2. CASE Operate
    <3>1. UNCHANGED <<conf, epoch, consumed, unlogged, astray, lease, tail, alarm, job>> /\ head' = head + 1
      BY Zenon, <2>2 DEF Operate
    <3>2. \A x \in 0 .. MaxHead : x <= head => x <= head'
      BY <3>1, DeviceTypes
    <3>3. tail # None => tail[2] \in 0 .. MaxHead
      BY RestTypes, EntryTypes
    <3>4. \A q \in Procs : job[q].to \in 0 .. MaxHead
      BY Zenon, RestTypes DEF Jobs
    <3>5. PICK p : p \notin Procs
      BY Zenon, HsmAuditConstants
    <3>6. Respected => Between(tail', consumed', head')
      BY Zenon, <3>1, <3>2, <3>3 DEF QuietInv, Between
    <3>7. Respected => \A q \in Procs : Cautious(q, job[q], lease', tail', head')
      BY Zenon, <3>1, <3>2, <3>4 DEF QuietInv, Cautious
    <3>8. \A q \in Procs : q = p \/ job'[q] = job[q]
      BY Zenon, <3>1
    <3>9. Respected => ~alarm'
      BY Zenon, <3>1 DEF QuietInv
    <3>10. Respected' => Respected
      <4>1. 1 .. head \subseteq 1 .. head'
        BY <3>1, DeviceTypes
      <4> QED BY Zenon, <3>1, <4>1 DEF Respected
    <3> QED BY Zenon, <3>5, <3>6, <3>7, <3>8, <3>9, <3>10, <1>QuietKeeps
  <2> QED BY Zenon, <2>1, <2>2, <2>3
<1>QuietAcquire.
      ASSUME KeepInv, QuietInv, NEW p \in Procs, Acquire(p)
      PROVE  QuietInv'
  <2> USE <1>QuietAcquire
  <2>1. PICK j : j = [Idle EXCEPT !.at = "load"]
    BY Zenon
  <2>2. job'[p] = j /\ \A q \in Procs : q = p \/ job'[q] = job[q]
    BY Zenon, <2>1, NewJob DEF Acquire
  <2>3. lease' = p /\ UNCHANGED <<conf, epoch, head, consumed, unlogged, astray, tail, alarm>>
    BY Zenon DEF Acquire, device
  <2>4. Cautious(p, job'[p], lease', tail', head') /\ ~job'[p].prov
    BY Zenon, <2>1, <2>2, <2>3, LoadFields DEF Cautious, Fields, Fetched
  \* Nobody else is at work on the lease.
  <2>5. ASSUME Respected, NEW q \in Procs, q # p PROVE Cautious(q, job[q], lease', tail', head')
    <3>1. Cautious(q, job[q], lease, tail, head) /\ ~conf.steal
      BY Zenon, <2>5 DEF QuietInv, Respected
    <3>2. ~(job[q].at # "idle" /\ ~job[q].prov)
      BY Zenon, <2>5, <3>1, HsmAuditConstants DEF Acquire, Cautious
    <3> QED BY Zenon, <2>3, <3>1, <3>2 DEF Cautious
  <2>6. Respected => ~alarm' /\ Between(tail', consumed', head')
    BY Zenon, <2>3 DEF QuietInv
  <2> QED BY Zenon, <2>2, <2>3, <2>4, <2>5, <2>6, <1>QuietKeeps, <1>StillRespected
<1>QuietLoad.
      ASSUME KeepInv, QuietInv, NEW p \in Procs, LoadAuditState(p)
      PROVE  QuietInv'
  <2> USE <1>QuietLoad
  <2>1. UNCHANGED <<conf, epoch, head, consumed, unlogged, astray, lease, tail, alarm>> /\ job[p].at = "load" /\ ~job[p].prov
    BY Zenon DEF LoadAuditState, device
  <2>2. CASE Goto(p, "release")
    <3>1. job[p].at # "idle"
      BY Zenon, <2>1
    <3> QED BY Zenon, <2>1, <2>2, <3>1, <1>QuietRelease, <1>QuietJob DEF QuietInv
  <2>3. CASE ~Goto(p, "release")
    <3>1. PICK j : j = [Idle EXCEPT !.at = "fetch", !.tail = tail]
      BY Zenon
    <3>2. job'[p] = j /\ \A q \in Procs : q = p \/ job'[q] = job[q]
      BY Zenon, <2>3, <3>1, NewJob DEF LoadAuditState
    <3>3. Fields(j, "fetch", FALSE, tail, 0, 0, 0)
      BY Zenon, <3>1, RestTypes, FetchFields
    <3>4. Respected => Cautious(p, job'[p], lease, tail, head) /\ ~job'[p].prov
      BY Zenon, <2>1, <3>2, <3>3 DEF QuietInv, Cautious, Fields, Fetched
    <3> QED BY Zenon, <2>1, <3>2, <3>4, <1>QuietJob DEF QuietInv
  <2> QED BY Zenon, <2>2, <2>3
<1>QuietFetch.
      ASSUME KeepInv, QuietInv, NEW p \in Procs, FetchLog(p)
      PROVE  QuietInv'
  <2> USE <1>QuietFetch
  <2>1. /\ UNCHANGED <<conf, epoch, head, consumed, unlogged, astray, lease, tail>>
        /\ job[p].at = "fetch" /\ ~job[p].prov /\ job[p].at # "idle"
    BY Zenon DEF FetchLog, device
  <2>2. CASE ~Respected
    BY Zenon, <2>1, <2>2 DEF QuietInv, Respected
  <2>3. CASE Respected
    <3>1. /\ job[p].tail = tail /\ lease = p /\ ~alarm /\ Between(tail, consumed, head) /\ tail \in Entries
          /\ epoch = 1 /\ ~unlogged /\ conf.odd \intersect (1 .. head) = {}
      BY Zenon, <2>1, <2>3, RestTypes DEF QuietInv, Cautious, Relies, Respected
    <3>2. tail # None
      BY Zenon, <3>1, EntryTypes
    <3>3. PICK t \in 1 .. MaxHead : tail = <<1, t>> /\ tail[2] = t /\ consumed <= t /\ t <= head
      BY Zenon, <3>1, <3>2, EntryTypes DEF Between
    <3>4. CASE consumed = head
      <4>1. trimToTail(tail, epoch, consumed, head) = {consumed}
        BY Zenon, <3>4 DEF trimToTail, Trim
      <4>2. ~(consumed < head) /\ consumed + 1 .. head = {}
        BY <3>4, DeviceTypes
      <4>3. ~alarm' /\ Goto(p, "release")
        BY Zenon, <3>1, <3>4, <4>1, <4>2 DEF FetchLog, VerifySegment
      <4> QED BY Zenon, <2>1, <4>3, <1>QuietRelease, <1>QuietJob
    <3>5. CASE consumed # head
      <4>1. /\ consumed < head /\ epoch \in 1 .. MaxEpoch /\ consumed \in 0 .. MaxHead /\ head \in 0 .. MaxHead
            /\ head - consumed <= Ring
        BY <3>5, DeviceTypes
      <4>2. Trim(<<epoch, t>>, epoch, consumed, head) = {t}
        BY <3>3, <4>1, TrimToTail
      <4>3. trimToTail(job[p].tail, epoch, consumed, head) = {t}
        BY Zenon, <3>1, <3>3, <4>2 DEF trimToTail
      <4>4. t \in Nat /\ t > 0
        BY HsmAuditConstants
      <4>5. VerifySegment(job[p].tail, epoch, t, head)
        <5>1. t + 1 .. head \subseteq 1 .. head
          BY <4>4
        <5> QED BY Zenon, <3>1, <3>3, <4>4, <5>1, NumberNext DEF VerifySegment
      <4>6. /\ ~alarm'
            /\ job' = [job EXCEPT ![p] = [Idle EXCEPT !.at = IF t < head THEN "sink" ELSE "consume",
                                                      !.ep = epoch, !.from = t, !.to = head]]
        BY Zenon, <3>1, <3>5, <4>3, <4>5 DEF FetchLog
      <4>7. PICK at : at = IF t < head THEN "sink" ELSE "consume"
        BY Zenon
      <4>8. PICK j : j = [Idle EXCEPT !.at = at, !.ep = epoch, !.from = t, !.to = head]
        BY Zenon
      <4>9. t \in 0 .. MaxHead /\ (~(t < head) => head <= t) /\ head <= head
        BY <3>3, <4>1, HsmAuditConstants
      <4>10. Fields(j, at, FALSE, None, epoch, t, head)
        BY Zenon, <4>7, <4>8, <4>9, DeviceTypes, SegmentFields DEF Steps
      <4>11. job'[p] = j /\ \A q \in Procs : q = p \/ job'[q] = job[q]
        BY Zenon, <4>6, <4>7, <4>8, NewJob
      <4>12. Cautious(p, job'[p], lease, tail, head) /\ ~job'[p].prov
        BY Zenon, <3>1, <3>2, <3>3, <4>7, <4>9, <4>10, <4>11 DEF Cautious, Fields, Fetched
      <4> QED BY Zenon, <2>1, <4>6, <4>11, <4>12, <1>QuietJob
    <3> QED BY Zenon, <3>4, <3>5
  <2> QED BY Zenon, <2>2, <2>3
<1>QuietAppend.
      ASSUME KeepInv, QuietInv, NEW p \in Procs, AppendEntries(p) \/ AppendLogEntries(p)
      PROVE  QuietInv'
  <2> USE <1>QuietAppend
  <2>1. /\ UNCHANGED <<conf, epoch, head, consumed, unlogged, astray, lease, tail, alarm>>
        /\ job[p].at \in {"sink", "append"} /\ job[p].at # "idle" /\ job[p].at \in Fetched
    BY Zenon DEF AppendEntries, AppendLogEntries, device, Fetched
  <2>2. \/ Goto(p, "release")
        \/ Goto(p, "append")
        \/ Goto(p, "save") /\ job[p].prov
        \/ Goto(p, "tail") /\ ~job[p].prov
    BY Zenon DEF AppendEntries, AppendLogEntries
  <2>3. CASE Goto(p, "release")
    BY Zenon, <2>1, <2>3, <1>QuietRelease, <1>QuietJob DEF QuietInv
  <2>4. CASE ~Goto(p, "release")
    <3>1. PICK at \in {"append", "save", "tail"} : /\ Goto(p, at) /\ (at = "save" => job[p].prov)
                                                   /\ (at = "tail" => ~job[p].prov)
      BY Zenon, <2>2, <2>4
    <3>2. /\ \A q \in Procs : q = p \/ job'[q] = job[q]
          /\ Fields(job'[p], at, job[p].prov, job[p].tail, job[p].ep, job[p].from, job[p].to)
      BY Zenon, <3>1, Moves DEF Steps
    <3>3. Respected => Cautious(p, job'[p], lease, tail, head) /\ (job'[p].prov => job[p].prov)
      BY Zenon, <2>1, <3>1, <3>2 DEF QuietInv, Cautious, Fields, Fetched
    <3> QED BY Zenon, <2>1, <3>2, <3>3, <1>QuietJob DEF QuietInv
  <2> QED BY Zenon, <2>3, <2>4
\* The tail moves: nobody else relies on the old one.
<1>QuietTail.
      ASSUME KeepInv, QuietInv, NEW p \in Procs, UpdateTail(p) \/ SaveAuditState(p)
      PROVE  QuietInv'
  <2> USE <1>QuietTail
  <2>1. /\ UNCHANGED <<conf, epoch, head, consumed, unlogged, astray, lease, alarm>>
        /\ job[p].at \in {"tail", "save"} /\ job[p].at # "idle" /\ job[p].at \in Fetched
    BY Zenon DEF UpdateTail, SaveAuditState, device, Fetched
  <2>2. CASE ~Respected
    BY Zenon, <2>1, <2>2 DEF QuietInv, Respected
  <2>3. CASE Respected
    <3>1. /\ Cautious(p, job[p], lease, tail, head) /\ ~alarm /\ Between(tail, consumed, head)
          /\ \A q \in Procs : Cautious(q, job[q], lease, tail, head)
          /\ \A q \in Procs : job[p].prov /\ job[q].prov => p = q
      BY Zenon, <2>3 DEF QuietInv
    <3>2. job[p].ep = 1 /\ job[p].to <= head /\ tail' = <<1, job[p].to>> /\ Goto(p, "consume")
      BY Zenon, <2>1, <3>1 DEF Cautious, UpdateTail, SaveAuditState
    <3>3. /\ \A q \in Procs : q = p \/ job'[q] = job[q]
          /\ Fields(job'[p], "consume", job[p].prov, job[p].tail, job[p].ep, job[p].from, job[p].to)
      BY Zenon, <3>2, Moves DEF Steps
    <3>4. tail'[1] = 1 /\ tail'[2] = job[p].to /\ tail' # None
      BY <3>2 DEF None
    <3>5. /\ job[p].to \in 0 .. MaxHead /\ job[p].from \in 0 .. MaxHead /\ job[p].from <= job[p].to
          /\ job[p].to <= job[p].to
      <4>1. /\ job[p].to \in 0 .. MaxHead /\ job[p].from \in 0 .. MaxHead /\ job[p].from <= job[p].to
        BY Zenon, <2>1, Segment
      <4> QED BY <4>1
    <3>6. tail = None \/ (tail = <<1, job[p].from>> /\ tail[2] = job[p].from /\ tail # None)
      <4>1. tail = None \/ tail = <<1, job[p].from>>
        BY Zenon, <2>1, <3>1 DEF Cautious
      <4> QED BY <4>1 DEF None
    <3>7. consumed <= job[p].to
      <4>1. (consumed = 0 \/ consumed <= job[p].from) /\ consumed \in 0 .. MaxHead
        BY Zenon, <3>1, <3>6, DeviceTypes DEF Between
      <4> QED BY <3>5, <4>1
    <3>8. ~alarm' /\ Between(tail', consumed', head')
      BY Zenon, <2>1, <3>1, <3>2, <3>4, <3>7 DEF Between
    <3>9. Cautious(p, job'[p], lease', tail', head') /\ (job'[p].prov => job[p].prov)
      BY Zenon, <2>1, <3>1, <3>2, <3>3, <3>4, <3>5 DEF Cautious, Fields, Fetched
    <3>10. ASSUME NEW q \in Procs, q # p PROVE Cautious(q, job[q], lease', tail', head')
      <4>1. Cautious(q, job[q], lease, tail, head)
        BY Zenon, <3>1
      <4>2. job[q].at \in Steps
        BY Zenon, RestTypes DEF Jobs, Steps
      <4>3. CASE tail = None
        <5>0. tail # <<1, job[p].from>>
          BY <4>3 DEF None
        <5>1. job[p].prov
          BY Zenon, <2>1, <3>1, <5>0 DEF Cautious
        <5>2. ~job[q].prov
          BY Zenon, <3>1, <3>10, <5>1
        <5>3. job[q].at # "fetch"
          BY Zenon, <4>1, <4>3, <5>2, RestTypes DEF Cautious, Relies
        <5>4. tail # <<1, job[q].from>>
          BY <4>3 DEF None
        <5>5. job[q].at \in {"idle", "load", "release"}
          BY Zenon, <4>1, <4>2, <4>3, <5>2, <5>3, <5>4 DEF Cautious, Steps
        <5> QED BY Zenon, <2>1, <4>1, <5>2, <5>5 DEF Cautious, Fetched
      <4>4. CASE tail # None
        <5>1. ~job[p].prov /\ lease = p
          BY Zenon, <2>1, <3>1, <4>4 DEF Cautious
        <5>2. job[q].at # "idle" => job[q].prov
          BY Zenon, <3>10, <4>1, <5>1 DEF Cautious
        <5>3. job[q].at \in {"idle", "load", "release", "consume"}
          BY Zenon, <4>1, <4>2, <4>4, <5>2 DEF Cautious, Steps
        <5>4. job[q].at = "consume" => job[q].to <= tail'[2]
          <6>1. job[q].at = "consume" => job[q].to <= job[p].from
            BY Zenon, <3>6, <4>1, <4>4 DEF Cautious
          <6>2. job[q].to \in 0 .. MaxHead
            BY Zenon, RestTypes DEF Jobs
          <6> QED BY <3>4, <3>5, <6>1, <6>2
        <5> QED BY Zenon, <2>1, <3>4, <4>1, <5>2, <5>3, <5>4 DEF Cautious, Fetched
      <4> QED BY Zenon, <4>3, <4>4
    <3> QED BY Zenon, <2>1, <3>1, <3>3, <3>8, <3>9, <3>10, <1>QuietKeeps, <1>StillRespected
  <2> QED BY Zenon, <2>2, <2>3
<1>QuietConsume.
      ASSUME KeepInv, QuietInv, NEW p \in Procs, ConsumeLog(p)
      PROVE  QuietInv'
  <2> USE <1>QuietConsume
  <2>1. /\ UNCHANGED <<conf, epoch, head, unlogged, lease, tail, alarm>> /\ Goto(p, "release")
        /\ job[p].at = "consume" /\ job[p].at # "idle"
    BY Zenon DEF ConsumeLog
  <2>2. /\ \A q \in Procs : q = p \/ job'[q] = job[q]
        /\ Respected => Cautious(p, job'[p], lease, tail, head)
        /\ job'[p].prov => job[p].prov
    BY Zenon, <2>1, <1>QuietRelease
  <2>3. \/ consumed' = consumed /\ astray' = astray
        \/ consumed' = job[p].to /\ astray' = astray \union {}
        \/ \E i \in consumed + 1 .. head : astray' = astray \union (consumed + 1 .. i)
    <3>1. CASE UNCHANGED <<consumed, astray>>
      BY Zenon, <3>1
    <3>2. ASSUME NEW i \in consumed + 1 .. head, consumed' = i,
                 astray' = astray \union IF <<epoch, i>> = <<job[p].ep, job[p].to>> THEN {} ELSE consumed + 1 .. i
          PROVE  \/ consumed' = job[p].to /\ astray' = astray \union {}
                 \/ astray' = astray \union (consumed + 1 .. i)
      <4>1. CASE <<epoch, i>> = <<job[p].ep, job[p].to>>
        <5>1. i = job[p].to
          BY <4>1
        <5> QED BY Zenon, <3>2, <4>1, <5>1
      <4>2. CASE <<epoch, i>> # <<job[p].ep, job[p].to>>
        BY Zenon, <3>2, <4>2
      <4> QED BY Zenon, <4>1, <4>2
    <3> QED BY Zenon, <3>1, <3>2 DEF ConsumeLog
  \* An acknowledgement that goes astray shows.
  <2>4. ASSUME Respected, Respected' PROVE ~alarm' /\ Between(tail', consumed', head')
    <3>1. tail # None /\ job[p].to <= tail[2] /\ Between(tail, consumed, head) /\ ~alarm
      BY Zenon, <2>1, <2>4 DEF QuietInv, Cautious
    <3>2. consumed' \in {consumed, job[p].to}
      <4>1. \A i \in consumed + 1 .. head : consumed + 1 \in consumed + 1 .. i
        BY DeviceTypes
      <4>2. astray' = {}
        BY Zenon, <2>4 DEF Respected
      <4> QED BY Zenon, <2>3, <4>1, <4>2
    <3> QED BY Zenon, <2>1, <3>1, <3>2 DEF Between
  <2>5. Respected => /\ Cautious(p, job'[p], lease', tail', head')
                     /\ \A q \in Procs : q = p \/ Cautious(q, job[q], lease', tail', head')
                     /\ (job'[p].prov => \A q \in Procs : q = p \/ ~job[q].prov)
    BY Zenon, <2>1, <2>2 DEF QuietInv
  <2>6. Respected' => Respected
    <3>1. astray' = {} => astray = {}
      BY Zenon, <2>3
    <3> QED BY Zenon, <2>1, <3>1 DEF Respected
  <2> QED BY Zenon, <2>2, <2>4, <2>5, <2>6, <1>QuietKeeps
\* The job ends, and with it the lease.
<1>QuietEnd.
      ASSUME KeepInv, QuietInv, NEW p \in Procs, Release(p) \/ Restart(p)
      PROVE  QuietInv'
  <2> USE <1>QuietEnd
  <2>1. /\ UNCHANGED <<conf, epoch, head, consumed, unlogged, astray, tail, alarm>> /\ job' = [job EXCEPT ![p] = Idle]
        /\ lease' = lease \/ lease = p
    BY Zenon DEF Release, Restart, device
  <2>2. job'[p] = Idle /\ \A q \in Procs : q = p \/ job'[q] = job[q]
    BY Zenon, <2>1, NewJob
  <2>3. ASSUME Respected, NEW q \in Procs, q # p PROVE Cautious(q, job[q], lease', tail', head')
    BY Zenon, <2>1, <2>3 DEF QuietInv, Cautious
  <2>4. Respected => ~alarm' /\ Between(tail', consumed', head')
    BY Zenon, <2>1 DEF QuietInv
  <2>5. Cautious(p, job'[p], lease', tail', head') /\ ~job'[p].prov
    BY Zenon, <2>2, QuietIdle
  <2> QED BY Zenon, <2>1, <2>2, <2>3, <2>4, <2>5, <1>QuietKeeps, <1>StillRespected
<1>QuietFail.
      ASSUME KeepInv, QuietInv, NEW p \in Procs, Fail(p)
      PROVE  QuietInv'
  <2> USE <1>QuietFail
  <2>1. UNCHANGED <<conf, epoch, head, consumed, unlogged, astray, lease, tail, alarm>> /\ job[p].at # "idle"
    BY Zenon DEF Fail, device
  <2>2. CASE Goto(p, "release")
    BY Zenon, <2>1, <2>2, <1>QuietRelease, <1>QuietJob DEF QuietInv
  <2>3. CASE job' = [job EXCEPT ![p] = Idle]
    <3>1. job'[p] = Idle /\ \A q \in Procs : q = p \/ job'[q] = job[q]
      BY Zenon, <2>3, NewJob
    <3>2. Cautious(p, job'[p], lease, tail, head) /\ ~job'[p].prov
      BY Zenon, <3>1, QuietIdle
    <3> QED BY Zenon, <2>1, <3>1, <3>2, <1>QuietJob DEF QuietInv
  <2> QED BY Zenon, <2>2, <2>3 DEF Fail
<1>QuietProvisionLoad.
      ASSUME KeepInv, QuietInv, NEW p \in Procs, ProvisionLoad(p)
      PROVE  QuietInv'
  <2> USE <1>QuietProvisionLoad
  <2>1. UNCHANGED <<conf, epoch, head, consumed, unlogged, astray, lease, tail, alarm>> /\ tail = None
    BY Zenon DEF ProvisionLoad, device
  <2>2. PICK j : j = [Idle EXCEPT !.at = "fetch", !.prov = TRUE]
    BY Zenon
  <2>3. job'[p] = j /\ \A q \in Procs : q = p \/ job'[q] = job[q]
    BY Zenon, <2>2, NewJob DEF ProvisionLoad
  <2>4. Fields(j, "fetch", TRUE, None, 0, 0, 0)
    BY Zenon, <2>2, FetchFields
  <2>5. Cautious(p, job'[p], lease', tail', head')
    BY Zenon, <2>1, <2>3, <2>4 DEF Cautious, Fields, Fetched
  <2>6. Respected => /\ ~alarm' /\ Between(tail', consumed', head')
                     /\ \A q \in Procs : q = p \/ Cautious(q, job[q], lease', tail', head')
    BY Zenon, <2>1 DEF QuietInv
  <2>7. Respected => \A q \in Procs : ~job[q].prov
    BY Zenon DEF QuietInv, Cautious, ProvisionLoad, Respected
  <2> QED BY Zenon, <2>1, <2>3, <2>5, <2>6, <2>7, <1>QuietKeeps, <1>StillRespected
<1>QuietProvisionFetch.
      ASSUME KeepInv, QuietInv, NEW p \in Procs, ProvisionFetch(p)
      PROVE  QuietInv'
  <2> USE <1>QuietProvisionFetch
  <2>1. /\ UNCHANGED <<conf, epoch, head, consumed, unlogged, astray, lease, tail, alarm>>
        /\ job[p].at = "fetch" /\ job[p].prov /\ job[p].at # "idle"
    BY Zenon DEF ProvisionFetch, device
  <2>2. CASE Goto(p, "release")
    BY Zenon, <2>1, <2>2, <1>QuietRelease, <1>QuietJob DEF QuietInv
  <2>3. CASE ~Goto(p, "release")
    <3>1. PICK j : j = [Idle EXCEPT !.at = "sink", !.prov = TRUE, !.ep = epoch, !.to = head]
      BY Zenon
    <3>2. job'[p] = j /\ \A q \in Procs : q = p \/ job'[q] = job[q]
      BY Zenon, <2>3, <3>1, NewJob DEF ProvisionFetch
    <3>3. Fields(j, "sink", TRUE, None, epoch, 0, head)
      BY Zenon, <3>1, DeviceTypes, SegmentFields DEF Steps
    <3>4. head <= head
      BY DeviceTypes
    <3>5. Respected => Cautious(p, job'[p], lease, tail, head)
      BY Zenon, <2>1, <3>2, <3>3, <3>4 DEF QuietInv, Cautious, Fields, Fetched, Respected
    <3> QED BY Zenon, <2>1, <3>2, <3>5, <1>QuietJob DEF QuietInv
  <2> QED BY Zenon, <2>2, <2>3
<1> SUFFICES ASSUME KeepInv, QuietInv, [Next]_vars PROVE QuietInv'
  OBVIOUS
<1>1. CASE UNCHANGED vars
  BY Zenon, <1>1 DEF vars, device, files, QuietInv, Respected
<1>2. CASE Operate \/ Overflow \/ Reset
  BY Zenon, <1>2, <1>QuietDevice
<1>3. ASSUME NEW p \in Procs, Cycle(p) \/ ProvisionLoad(p) \/ Fail(p) \/ Restart(p)
      PROVE  QuietInv'
  <2>1. CASE Cycle(p)
    BY Zenon, <2>1, <1>QuietAcquire, <1>QuietLoad, <1>QuietFetch, <1>QuietAppend, <1>QuietTail, <1>QuietConsume,
       <1>QuietEnd, <1>QuietProvisionFetch DEF Cycle
  <2> QED BY Zenon, <1>3, <2>1, <1>QuietProvisionLoad, <1>QuietFail, <1>QuietEnd
<1> QED BY Zenon, <1>1, <1>2, <1>3 DEF Next

-----------------------------------------------------------------------------
(* One chain in the file.                                                  *)

\* Process p writes alone, and no write of its was reported failed.
Single(p) == conf.procs = {p} /\ ~unflushed

\* A position l of the file is at or past entry t of epoch e, or past any entry
\* that would contradict it.
Reached(l, e, t) ==
    IF l = None THEN t = 0 ELSE IF l[1] = e THEN t <= l[2] ELSE t < l[2]

\* The file of a process at position l.
FileOf(l) == IF l = None THEN <<>> ELSE [i \in 1 .. l[2] |-> <<l[1], i>>]

Follows(l, j) ==
    /\ j.tail # None => Reached(l, j.tail[1], j.tail[2])
    /\ j.at = "sink" => Reached(l, j.ep, j.from)
    /\ j.at \in {"append", "save", "tail", "consume"} => Reached(l, j.ep, j.to)

ChainInv ==
    /\ \A q \in Procs : q \in conf.procs \/ job[q].at = "idle"
    /\ \A p \in Procs : Single(p) => /\ file = FileOf(last[p])
                                     /\ tail # None => Reached(last[p], tail[1], tail[2])
                                     /\ Follows(last[p], job[p])

\* Of such a process: its position l is an entry that the device has logged, and
\* if the tail t is of another epoch, or there is none, the position was written by
\* a provisioning that failed and is no further than the ring.
Young(l, t, e, h) ==
    l # None => /\ l[1] <= e /\ (l[1] = e => l[2] <= h)
                /\ l[2] <= Ring \/ (t # None /\ t[1] = l[1])

\* Its job j is about the epoch of the tail, which nobody else moves.
Steady(l, t, j) ==
    /\ j.at = "fetch" => IF j.prov THEN t = None ELSE j.tail = t
    /\ j.at = "sink" /\ l # None /\ l[1] = j.ep => l[2] <= j.to
    /\ j.at \in {"sink", "append"} =>
          IF j.prov THEN t = None /\ j.to <= Ring ELSE t # None /\ t[1] = j.ep
    /\ j.at = "save" => t = None
    /\ j.at = "tail" => t # None /\ t[1] = j.ep

LoneInv ==
    \A p \in Procs : Single(p) => /\ Young(last[p], tail, epoch, head)
                                  /\ Steady(last[p], tail, job[p])

\* The file of position <<ep, k>>, continued up to entry to.
LEMMA FileIs ==
    ASSUME NEW ep \in 1 .. MaxEpoch, NEW k \in 1 .. MaxHead
    PROVE  /\ FileOf(<<ep, k>>) \in Seq(Lines) /\ Len(FileOf(<<ep, k>>)) = k
           /\ \A i \in 1 .. k : FileOf(<<ep, k>>)[i] = <<ep, i>>
           /\ FileOf(<<ep, k>>) = [i \in 1 .. k |-> <<ep, i>>]
<1>1. FileOf(<<ep, k>>) = [i \in 1 .. k |-> <<ep, i>>]
  BY DEF FileOf, None
<1>2. \A i \in 1 .. k : i \in 1 .. MaxHead
  BY HsmAuditConstants
<1>3. [i \in 1 .. k |-> <<ep, i>>] \in [1 .. k -> Entries]
  BY Zenon, <1>2 DEF Entries
<1>4. k \in Nat
  BY HsmAuditConstants
<1> DEFINE S == [i \in 1 .. k |-> <<ep, i>>]
<1>5. S \in Seq(Lines) /\ Len(S) = k /\ \A i \in 1 .. k : S[i] = <<ep, i>>
  <2>1. S \in [1 .. k -> Lines]
    BY Zenon, <1>3 DEF Lines
  <2> QED BY <1>4, <2>1
<1> QED BY Zenon, <1>1, <1>5

\* It has no torn line, so that what is written next follows it.
LEMMA PlainWrite ==
    ASSUME NEW l \in Entries \union {None}, file = FileOf(l)
    PROVE  Whole(file) /\ \A recs : Appended(recs) = file \o recs
<1>1. CASE l = None
  <2>1. file = <<>>
    BY Zenon, <1>1 DEF FileOf
  <2>2. DOMAIN file = {} /\ ~(Len(file) > 0)
    BY <2>1
  <2> QED BY Zenon, <2>2 DEF Whole, Appended
<1>2. CASE l # None
  <2>1. PICK e \in 1 .. MaxEpoch, k \in 1 .. MaxHead : l = <<e, k>>
    BY Zenon, <1>2, EntryTypes
  <2>2. file \in Seq(Lines) /\ Len(file) = k /\ \A i \in 1 .. k : file[i] = <<e, i>>
    BY Zenon, <2>1, FileIs
  <2>3. DOMAIN file = 1 .. k /\ k \in 1 .. k /\ \A i \in 1 .. k : i \in 1 .. MaxHead
    BY <2>1, <2>2, HsmAuditConstants
  <2>4. \A i \in 1 .. k : file[i] \in Entries
    <3>1. \A i \in 1 .. MaxHead : <<e, i>> \in Entries
      BY DEF Entries
    <3> QED BY Zenon, <2>2, <2>3, <3>1
  <2>5. Whole(file)
    BY Zenon, <2>3, <2>4, EntryTypes DEF Whole
  <2>6. file[Len(file)] # Torn
    BY Zenon, <2>2, <2>3, <2>4, EntryTypes
  <2> QED BY Zenon, <2>5, <2>6 DEF Appended
<1> QED BY Zenon, <1>1, <1>2

LEMMA EmptyFront == ASSUME NEW X, NEW s \in Seq(X) PROVE <<>> \o s = s /\ s \o <<>> = s
OBVIOUS

LEMMA Joined ==
    ASSUME NEW ep \in 1 .. MaxEpoch, NEW k \in 1 .. MaxHead, NEW to \in 1 .. MaxHead, k < to
    PROVE  FileOf(<<ep, k>>) \o Records(<<ep, k>>, ep, k, to) = FileOf(<<ep, to>>)
<1> DEFINE n == to - k
           S == [i \in 1 .. n |-> <<ep, k + i>>]
           X == Lines
           A == FileOf(<<ep, k>>)
           C == FileOf(<<ep, to>>)
<1>1. n \in Nat /\ k + n = to /\ k \in Nat /\ k > 0 /\ to \in Nat
  BY HsmAuditConstants
<1>2. \A i \in 1 .. n : k + i \in 1 .. MaxHead
  BY <1>1, HsmAuditConstants
<1> HIDE DEF n
<1>3. S \in [1 .. n -> Entries]
  BY Zenon, <1>2 DEF Entries
<1>4. S \in Seq(X) /\ Len(S) = n /\ \A i \in 1 .. n : S[i] = <<ep, k + i>>
  <2>1. S \in [1 .. n -> X]
    BY Zenon, <1>3 DEF Lines
  <2> HIDE DEF X
  <2> QED BY <1>1, <2>1
<1>5. <<ep, k>> # None
  BY DEF None
<1>6. Records(<<ep, k>>, ep, k, to) = <<>> \o S
  BY Zenon, <1>1, <1>5, NumberNext DEF Records, n
<1>7. A \in Seq(X) /\ Len(A) = k /\ \A i \in 1 .. k : A[i] = <<ep, i>>
  BY Zenon, FileIs
<1>8. C \in Seq(X) /\ Len(C) = to /\ \A i \in 1 .. to : C[i] = <<ep, i>>
  BY Zenon, FileIs
<1> HIDE DEF S, A, C
<1>9. <<>> \o S = S
  BY <1>4, EmptyFront
<1>10. PICK J : J = A \o S
  BY Zenon
<1>11. J \in Seq(X) /\ Len(J) = to
       /\ (\A i \in 1 .. k : J[i] = A[i]) /\ \A i \in 1 .. n : J[k + i] = S[i]
  <2>1. A \in Seq(X) /\ S \in Seq(X)
    BY Zenon, <1>4, <1>7
  <2> HIDE DEF X
  <2>2. /\ A \o S \in Seq(X) /\ Len(A \o S) = Len(A) + Len(S)
        /\ \A i \in 1 .. Len(A) : (A \o S)[i] = A[i]
        /\ \A i \in 1 .. Len(S) : (A \o S)[Len(A) + i] = S[i]
    BY <2>1, Concat
  <2> QED BY Zenon, <1>1, <1>4, <1>7, <1>10, <2>2
<1>12. ASSUME NEW i \in 1 .. to PROVE J[i] = C[i]
  <2>1. CASE i <= k
    <3>1. i \in 1 .. k
      BY <1>1, <2>1
    <3> QED BY Zenon, <1>7, <1>8, <1>11, <3>1
  <2>2. CASE i > k
    <3>1. PICK x : x = i - k
      BY Zenon
    <3>2. x \in 1 .. n /\ k + x = i
      BY <1>1, <2>2, <3>1
    <3> QED BY Zenon, <1>4, <1>8, <1>11, <3>2
  <2> QED BY <1>1, <2>1, <2>2
<1>13. J = C
  BY <1>8, <1>11, <1>12
<1> QED BY Zenon, <1>6, <1>9, <1>10, <1>13 DEF A, C

LEMMA FirstRecords ==
    ASSUME NEW ep \in 1 .. MaxEpoch, NEW to \in 1 .. MaxHead
    PROVE  FileOf(None) \o Records(None, ep, 0, to) = FileOf(<<ep, to>>)
<1>1. to - 0 = to /\ \A i \in 1 .. to : 0 + i = i
  BY HsmAuditConstants
<1>2. Records(None, ep, 0, to) = <<>> \o [i \in 1 .. to |-> <<ep, 0 + i>>]
  BY Zenon, <1>1 DEF Records
<1>3. [i \in 1 .. to |-> <<ep, 0 + i>>] = [i \in 1 .. to |-> <<ep, i>>]
  BY Zenon, <1>1
<1>4. FileOf(<<ep, to>>) = [i \in 1 .. to |-> <<ep, i>>] /\ FileOf(<<ep, to>>) \in Seq(Lines)
  BY Zenon, FileIs
<1>5. FileOf(None) = <<>>
  BY Zenon DEF FileOf
<1>6. <<>> \o FileOf(<<ep, to>>) = FileOf(<<ep, to>>)
  BY Zenon, <1>4, EmptyFront
<1> QED BY Zenon, <1>2, <1>3, <1>4, <1>5, <1>6

LEMMA ChainIdle == ASSUME NEW l PROVE Follows(l, Idle)
BY Zenon, IdleFields DEF Follows, Fields

\* A segment that continues the tail, which is the entry it begins after.
LEMMA Fetches ==
    ASSUME KeepInv, NEW p \in Procs, FetchLog(p), ~Goto(p, "release")
    PROVE  \E f, at, j :
              /\ f \in 0 .. MaxHead /\ at \in {"sink", "consume"} /\ (at = "consume" => f = head)
              /\ job[p].tail = <<epoch, f>>
              /\ Fields(j, at, FALSE, None, epoch, f, head)
              /\ job'[p] = j /\ \A q \in Procs : q = p \/ job'[q] = job[q]
<1>1. PICK f \in Trim(job[p].tail, epoch, consumed, head) :
         /\ consumed # head
         /\ job' = [job EXCEPT ![p] = [Idle EXCEPT !.at = IF f < head THEN "sink" ELSE "consume",
                                                   !.ep = epoch, !.from = f, !.to = head]]
         /\ \E g \in Trim(job[p].tail, epoch, consumed, head) :
               VerifySegment(job[p].tail, epoch, g, head)
  BY Zenon DEF FetchLog, trimToTail
<1>2. VerifySegment(job[p].tail, epoch, f, head)
  BY <1>1, DeviceTypes, TrimOne
<1>3. job[p].tail \in Entries
  BY Zenon, RestTypes DEF FetchLog, Relies, Jobs
<1>4. f \in consumed .. head /\ job[p].tail = <<epoch, f>>
  BY Zenon, <1>1, <1>2, <1>3, Continues
<1>5. PICK at : at = IF f < head THEN "sink" ELSE "consume"
  BY Zenon
<1>6. PICK j : j = [Idle EXCEPT !.at = at, !.ep = epoch, !.from = f, !.to = head]
  BY Zenon
<1>7. f \in 0 .. MaxHead /\ (~(f < head) => f = head)
  BY <1>4, DeviceTypes, HsmAuditConstants
<1>8. Fields(j, at, FALSE, None, epoch, f, head)
  BY Zenon, <1>5, <1>6, <1>7, DeviceTypes, SegmentFields DEF Steps
<1>9. job'[p] = j /\ \A q \in Procs : q = p \/ job'[q] = job[q]
  BY Zenon, <1>1, <1>5, <1>6, NewJob
<1> QED BY Zenon, <1>4, <1>5, <1>7, <1>8, <1>9

\* The process that opens the file again finds the position of the one before it.
LEMMA Reopened ==
    ASSUME KeepInv, ChainInv, NEW p \in Procs, Restart(p), Single(p)
    PROVE  last'[p] = last[p] /\ file = FileOf(last[p])
<1>1. last'[p] = ReadTail /\ last[p] \in Entries \union {None}
  BY Zenon DEF Restart, KeepInv, TypeOK
<1>2. file = FileOf(last[p]) /\ ReadTail = (IF file = <<>> THEN None ELSE file[Len(file)])
  BY Zenon, <1>1, LastOfFile, PlainWrite DEF ChainInv
<1>3. CASE last[p] = None
  BY Zenon, <1>1, <1>2, <1>3 DEF FileOf
<1>4. CASE last[p] # None
  <2>1. PICK e \in 1 .. MaxEpoch, k \in 1 .. MaxHead : last[p] = <<e, k>>
    BY Zenon, <1>1, <1>4, EntryTypes
  <2>2. Len(file) = k /\ \A i \in 1 .. k : file[i] = <<e, i>>
    BY Zenon, <1>2, <2>1, FileIs
  <2>3. k \in 1 .. k /\ k # 0
    BY <2>1
  <2>4. file # <<>>
    BY <2>2, <2>3
  <2> QED BY Zenon, <1>1, <1>2, <2>1, <2>2, <2>3, <2>4
<1> QED BY Zenon, <1>3, <1>4

LEMMA ChainInit == Init => ChainInv
<1> SUFFICES ASSUME Init PROVE ChainInv
  OBVIOUS
<1>1. /\ tail = None /\ file = <<>> /\ \A p \in Procs : last[p] = None /\ job[p] = Idle
      /\ FileOf(None) = <<>>
  BY Zenon DEF Init, FileOf
<1> QED BY Zenon, <1>1, ChainIdle, IdleFields DEF ChainInv, Fields

LEMMA ChainStep == KeepInv /\ ChainInv /\ LoneInv /\ [Next]_vars => ChainInv'
\* What a step has to show.
<1>ChainKeeps.
      ASSUME ChainInv, NEW p \in Procs, p \in conf.procs, conf' = conf, ~unflushed' => ~unflushed,
             \A q \in Procs : q = p \/ job'[q] = job[q],
             Single(p) /\ ~unflushed' => /\ file' = FileOf(last'[p])
                                         /\ tail' # None => Reached(last'[p], tail'[1], tail'[2])
                                         /\ Follows(last'[p], job'[p])
      PROVE  ChainInv'
  <2> USE <1>ChainKeeps
  <2>1. \A q \in Procs : q \in conf'.procs \/ job'[q].at = "idle"
    BY Zenon DEF ChainInv
  <2>2. ASSUME NEW r \in Procs, Single(r)' PROVE r = p /\ Single(p) /\ ~unflushed'
    BY Zenon, <2>2 DEF Single
  <2> QED BY Zenon, <2>1, <2>2 DEF ChainInv
\* A step of p that changes its job and leaves the file and the tail alone.
<1>ChainJob.
      ASSUME ChainInv, NEW p \in Procs, p \in conf.procs, UNCHANGED <<conf, unflushed, file, last, tail>>,
             \A q \in Procs : q = p \/ job'[q] = job[q],
             Single(p) => Follows(last[p], job'[p])
      PROVE  ChainInv'
  <2> USE <1>ChainJob
  <2>1. Single(p) => /\ file' = FileOf(last'[p])
                     /\ tail' # None => Reached(last'[p], tail'[1], tail'[2])
                     /\ Follows(last'[p], job'[p])
    BY Zenon DEF ChainInv
  <2> QED BY Zenon, <2>1, <1>ChainKeeps
<1>ChainRelease.
      ASSUME KeepInv, ChainInv, NEW p \in Procs, Goto(p, "release"), job[p].at # "idle"
      PROVE  /\ \A q \in Procs : q = p \/ job'[q] = job[q]
             /\ Single(p) => Follows(last[p], job'[p])
             /\ p \in conf.procs
  <2> USE <1>ChainRelease
  <2>1. /\ \A q \in Procs : q = p \/ job'[q] = job[q]
        /\ Fields(job'[p], "release", job[p].prov, job[p].tail, job[p].ep, job[p].from, job[p].to)
    BY Zenon, Moves DEF Steps
  <2> QED BY Zenon, <2>1 DEF Fields, ChainInv, Follows
\* The steps that begin or end a job.
<1>ChainEnds.
      ASSUME KeepInv, ChainInv, NEW p \in Procs,
             Acquire(p) \/ ProvisionLoad(p) \/ Release(p) \/ Fail(p)
      PROVE  ChainInv'
  <2> USE <1>ChainEnds
  <2>1. UNCHANGED <<conf, unflushed, file, last, tail>> /\ (p \in conf.procs \/ job[p].at # "idle")
    BY Zenon DEF Acquire, ProvisionLoad, Release, Fail, files
  <2>2. p \in conf.procs
    BY Zenon, <2>1 DEF ChainInv
  <2>3. CASE Goto(p, "release") /\ job[p].at # "idle"
    BY Zenon, <2>1, <2>2, <2>3, <1>ChainRelease, <1>ChainJob
  <2>4. ASSUME NEW j, job' = [job EXCEPT ![p] = j], \A l : Follows(l, j) PROVE ChainInv'
    <3>1. job'[p] = j /\ \A q \in Procs : q = p \/ job'[q] = job[q]
      BY Zenon, <2>4, NewJob
    <3>2. Follows(last[p], job'[p])
      BY Zenon, <2>4, <3>1
    <3> QED BY Zenon, <2>1, <2>2, <3>1, <3>2, <1>ChainJob
  <2>5. CASE Acquire(p)
    <3>1. PICK j : j = [Idle EXCEPT !.at = "load"]
      BY Zenon
    <3>2. \A l : Follows(l, j)
      BY Zenon, <3>1, LoadFields DEF Follows, Fields
    <3> QED BY Zenon, <2>4, <2>5, <3>1, <3>2 DEF Acquire
  <2>6. CASE ProvisionLoad(p)
    <3>1. PICK j : j = [Idle EXCEPT !.at = "fetch", !.prov = TRUE]
      BY Zenon
    <3>2. \A l : Follows(l, j)
      BY Zenon, <3>1, FetchFields DEF Follows, Fields
    <3> QED BY Zenon, <2>4, <2>6, <3>1, <3>2 DEF ProvisionLoad
  <2>7. CASE job' = [job EXCEPT ![p] = Idle]
    BY Zenon, <2>4, <2>7, ChainIdle
  <2> QED BY Zenon, <2>3, <2>5, <2>6, <2>7 DEF Release, Fail
<1>ChainLoad.
      ASSUME KeepInv, ChainInv, NEW p \in Procs, LoadAuditState(p)
      PROVE  ChainInv'
  <2> USE <1>ChainLoad
  <2>1. UNCHANGED <<conf, unflushed, file, last, tail>> /\ job[p].at = "load" /\ job[p].at # "idle"
    BY Zenon DEF LoadAuditState, files
  <2>2. p \in conf.procs
    BY Zenon, <2>1 DEF ChainInv
  <2>3. CASE Goto(p, "release")
    BY Zenon, <2>1, <2>3, <1>ChainRelease, <1>ChainJob
  <2>4. CASE ~Goto(p, "release")
    <3>1. PICK j : j = [Idle EXCEPT !.at = "fetch", !.tail = tail]
      BY Zenon
    <3>2. job'[p] = j /\ \A q \in Procs : q = p \/ job'[q] = job[q]
      BY Zenon, <2>4, <3>1, NewJob DEF LoadAuditState
    <3>3. Fields(j, "fetch", FALSE, tail, 0, 0, 0)
      BY Zenon, <3>1, RestTypes, FetchFields
    <3>4. Single(p) => Follows(last[p], job'[p])
      BY Zenon, <3>2, <3>3 DEF ChainInv, Follows, Fields
    <3> QED BY Zenon, <2>1, <2>2, <3>2, <3>4, <1>ChainJob
  <2> QED BY Zenon, <2>3, <2>4
<1>ChainFetch.
      ASSUME KeepInv, ChainInv, NEW p \in Procs, FetchLog(p)
      PROVE  ChainInv'
  <2> USE <1>ChainFetch
  <2>1. UNCHANGED <<conf, unflushed, file, last, tail>> /\ job[p].at = "fetch" /\ job[p].at # "idle"
    BY Zenon DEF FetchLog, files
  <2>2. p \in conf.procs
    BY Zenon, <2>1 DEF ChainInv
  <2>3. CASE Goto(p, "release")
    BY Zenon, <2>1, <2>3, <1>ChainRelease, <1>ChainJob
  <2>4. CASE ~Goto(p, "release")
    <3>1. PICK f, at, j :
             /\ f \in 0 .. MaxHead /\ at \in {"sink", "consume"} /\ (at = "consume" => f = head)
             /\ job[p].tail = <<epoch, f>>
             /\ Fields(j, at, FALSE, None, epoch, f, head)
             /\ job'[p] = j /\ \A q \in Procs : q = p \/ job'[q] = job[q]
      BY Zenon, <2>4, Fetches
    <3>2. Single(p) => Reached(last[p], epoch, f)
      <4>1. job[p].tail # None /\ job[p].tail[1] = epoch /\ job[p].tail[2] = f
        BY <3>1 DEF None
      <4> QED BY Zenon, <4>1 DEF ChainInv, Follows
    <3>3. Single(p) => Follows(last[p], job'[p])
      BY Zenon, <3>1, <3>2 DEF Follows, Fields
    <3> QED BY Zenon, <2>1, <2>2, <3>1, <3>3, <1>ChainJob
  <2> QED BY Zenon, <2>3, <2>4
<1>ChainProvisionFetch.
      ASSUME KeepInv, ChainInv, NEW p \in Procs, ProvisionFetch(p)
      PROVE  ChainInv'
  <2> USE <1>ChainProvisionFetch
  <2>1. UNCHANGED <<conf, unflushed, file, last, tail>> /\ job[p].at = "fetch" /\ job[p].at # "idle"
    BY Zenon DEF ProvisionFetch, files
  <2>2. p \in conf.procs
    BY Zenon, <2>1 DEF ChainInv
  <2>3. CASE Goto(p, "release")
    BY Zenon, <2>1, <2>3, <1>ChainRelease, <1>ChainJob
  <2>4. CASE ~Goto(p, "release")
    <3>1. PICK j : j = [Idle EXCEPT !.at = "sink", !.prov = TRUE, !.ep = epoch, !.to = head]
      BY Zenon
    <3>2. job'[p] = j /\ \A q \in Procs : q = p \/ job'[q] = job[q]
      BY Zenon, <2>4, <3>1, NewJob DEF ProvisionFetch
    <3>3. Fields(j, "sink", TRUE, None, epoch, 0, head)
      BY Zenon, <3>1, DeviceTypes, SegmentFields DEF Steps
    <3>4. Reached(last[p], epoch, 0)
      <4>1. last[p] \in Entries \union {None}
        BY Zenon DEF KeepInv, TypeOK
      <4> QED BY <4>1, EntryTypes, HsmAuditConstants DEF Reached
    <3>5. Follows(last[p], job'[p])
      BY Zenon, <3>2, <3>3, <3>4 DEF Follows, Fields
    <3> QED BY Zenon, <2>1, <2>2, <3>2, <3>5, <1>ChainJob
  <2> QED BY Zenon, <2>3, <2>4
\* What a process that writes alone adds to its file.
<1>WritesOn.
      ASSUME KeepInv, NEW p \in Procs, job[p].at = "sink",
             Young(last[p], tail, epoch, head), Steady(last[p], tail, job[p]),
             Reached(last[p], job[p].ep, job[p].from), file = FileOf(last[p]),
             ~Contradicts(last[p], job[p].ep, job[p].from, job[p].to)
      PROVE  LET new == trimWritten(last[p], job[p].ep, job[p].from, job[p].to) IN
             /\ (\E f \in new : f < job[p].to)
                   => /\ file \o Records(last[p], job[p].ep, Min(new), job[p].to)
                            = FileOf(<<job[p].ep, job[p].to>>)
                      /\ last[p] = None \/ (last[p][1] = job[p].ep /\ last[p][2] < job[p].to)
             /\ ~(\E f \in new : f < job[p].to) => Reached(last[p], job[p].ep, job[p].to)
  <2> USE <1>WritesOn
  <2> DEFINE ep == job[p].ep
             from == job[p].from
             to == job[p].to
             new == trimWritten(last[p], ep, from, to)
  <2>1. /\ ep \in 1 .. MaxEpoch /\ to \in 1 .. MaxHead /\ from \in 0 .. MaxHead /\ to \in 0 .. MaxHead
        /\ from < to /\ to - from <= Ring
    <3>1. Relies(stored, file, job[p])
      BY Zenon DEF KeepInv
    <3> QED BY Zenon, <3>1, Segment DEF Fetched, Relies
  <2> HIDE DEF ep, from, to
  <2>2. CASE last[p] = None
    <3>1. from = 0
      BY Zenon, <2>2 DEF Reached, from, ep
    <3>2. new = {0} /\ Min(new) = 0
      BY Zenon, <2>2, <3>1, MinOfOne, 0 \in Nat DEF trimWritten, Trim
    <3>3. 0 < to
      BY <2>1, HsmAuditConstants
    <3>4. FileOf(None) \o Records(None, ep, 0, to) = FileOf(<<ep, to>>)
      BY Zenon, <2>1, FirstRecords
    <3> QED BY Zenon, <2>2, <3>2, <3>3, <3>4 DEF ep, from, to
  <2>3. CASE last[p] # None
    <3>1. last[p] \in Entries
      BY Zenon, <2>3 DEF KeepInv, TypeOK
    <3>2. PICK e \in 1 .. MaxEpoch, k \in 1 .. MaxHead :
             last[p] = <<e, k>> /\ last[p][1] = e /\ last[p][2] = k
      BY Zenon, <3>1, EntryTypes
    <3>3. IF e = ep THEN from <= k ELSE from < k
      BY Zenon, <2>3, <3>2 DEF Reached, from, ep
    <3>4. CASE e # ep
      <4>1. k <= Ring
        BY Zenon, <2>3, <3>2, <3>4 DEF Young, Steady, ep
      <4>2. CASE k <= to
        <5>1. from < k
          BY ZenonT(60), <3>3, <3>4
        <5>2. Contradicts(<<e, k>>, ep, from, to)
          BY SMTT(30), <2>1, <3>2, <3>4, <4>1, <4>2, <5>1, TrimOther
        <5> QED BY Zenon, <3>2, <5>2 DEF ep, from, to
      <4>3. CASE k > to
        <5>1. Trim(<<e, k>>, ep, from, to) = {}
          BY SMTT(30), <2>1, <3>2, <3>4, <4>1, <4>3, TrimOther
        <5>2. to < k
          BY <2>1, <3>2, <4>3
        <5>3. Reached(last[p], ep, to)
          BY ZenonT(60), <2>3, <3>2, <3>4, <5>2 DEF Reached
        <5> QED BY ZenonT(60), <3>2, <5>1, <5>3 DEF ep, from, to, trimWritten
      <4>4. k <= to \/ k > to
        BY <2>1, <3>2
      <4> QED BY Zenon, <4>2, <4>3, <4>4
    <3>5. CASE e = ep
      <4>1. from <= k /\ k <= to
        BY ZenonT(60), <2>3, <3>2, <3>3, <3>5 DEF Steady, ep, to
      <4>2. Trim(<<e, k>>, ep, from, to) = {k}
        BY SMTT(30), <2>1, <3>2, <3>5, <4>1, TrimToTail
      <4>3. k \in Nat
        BY <3>2, HsmAuditConstants
      <4>4. new = {k} /\ Min(new) = k
        BY Zenon, <3>2, <4>2, <4>3, MinOfOne DEF trimWritten
      <4>5. CASE k < to
        <5>1. FileOf(<<ep, k>>) \o Records(<<ep, k>>, ep, k, to) = FileOf(<<ep, to>>)
          BY Zenon, <2>1, <3>2, <4>5, Joined
        <5> QED BY Zenon, <3>2, <3>5, <4>4, <4>5, <5>1 DEF ep, from, to
      <4>6. CASE ~(k < to)
        <5>1. to <= k
          BY <2>1, <3>2, <4>6
        <5>2. Reached(last[p], ep, to)
          BY Zenon, <2>3, <3>2, <3>5, <5>1 DEF Reached
        <5> QED BY ZenonT(60), <4>4, <4>6, <5>2 DEF ep, from, to
      <4> QED BY Zenon, <4>5, <4>6
    <3> QED BY Zenon, <3>4, <3>5
  <2> QED BY Zenon, <2>2, <2>3
<1>ChainAppendEntries.
      ASSUME KeepInv, ChainInv, LoneInv, NEW p \in Procs, AppendEntries(p)
      PROVE  ChainInv'
  <2> USE <1>ChainAppendEntries
  <2> DEFINE ep == job[p].ep
             from == job[p].from
             to == job[p].to
             new == trimWritten(last[p], ep, from, to)
  <2>1. UNCHANGED <<conf, tail>> /\ job[p].at = "sink" /\ job[p].at # "idle" /\ job[p].at \in Fetched
    BY Zenon DEF AppendEntries, Fetched
  <2>2. p \in conf.procs
    BY Zenon, <2>1 DEF ChainInv
  <2>3. CASE Contradicts(last[p], ep, from, to)
    <3>1. Goto(p, "release") /\ UNCHANGED <<file, last, unflushed>>
      BY Zenon, <2>3 DEF AppendEntries, files
    <3> QED BY Zenon, <2>1, <3>1, <1>ChainRelease, <1>ChainJob
  <2>4. CASE ~Contradicts(last[p], ep, from, to) /\ unflushed' = TRUE
    <3>1. \A q \in Procs : q = p \/ job'[q] = job[q]
      BY Zenon, <2>4, Moves DEF AppendEntries, Steps
    <3> QED BY Zenon, <2>1, <2>2, <2>4, <3>1, <1>ChainKeeps
  <2>5. CASE ~Contradicts(last[p], ep, from, to) /\ ~unflushed'
    <3>1. /\ file' = IF \E f \in new : f < to THEN Appended(Records(last[p], ep, Min(new), to)) ELSE file
          /\ last' = IF \E f \in new : f < to THEN [last EXCEPT ![p] = <<ep, to>>] ELSE last
          /\ Goto(p, "append") /\ unflushed' = unflushed
      BY Zenon, <2>5 DEF AppendEntries, files
    <3>2. /\ \A q \in Procs : q = p \/ job'[q] = job[q]
          /\ Fields(job'[p], "append", job[p].prov, job[p].tail, ep, from, to)
      BY Zenon, <3>1, Moves DEF Steps
    <3>3. ASSUME Single(p)
          PROVE  /\ file' = FileOf(last'[p]) /\ Reached(last'[p], ep, to)
                 /\ \A e : \A t \in 0 .. MaxHead : Reached(last[p], e, t) => Reached(last'[p], e, t)
      <4>1. /\ file = FileOf(last[p]) /\ Reached(last[p], ep, from)
            /\ Young(last[p], tail, epoch, head) /\ Steady(last[p], tail, job[p])
        BY Zenon, <2>1, <3>3 DEF ChainInv, LoneInv, Follows
      <4>2. /\ (\E f \in new : f < to)
                  => /\ file \o Records(last[p], ep, Min(new), to) = FileOf(<<ep, to>>)
                     /\ last[p] = None \/ (last[p][1] = ep /\ last[p][2] < to)
            /\ ~(\E f \in new : f < to) => Reached(last[p], ep, to)
        BY Zenon, <2>1, <2>5, <4>1, <1>WritesOn
      <4>3. CASE \E f \in new : f < to
        <5>0. last[p] \in Entries \union {None}
          BY Zenon DEF KeepInv, TypeOK
        <5>1. last'[p] = <<ep, to>> /\ file' = FileOf(<<ep, to>>)
          BY Zenon, <3>1, <4>1, <4>2, <4>3, <5>0, PlainWrite DEF KeepInv, TypeOK
        <5>2. ep \in 1 .. MaxEpoch /\ to \in 1 .. MaxHead /\ last[p] \in Entries \union {None}
          BY ZenonT(60), <2>1, Segment DEF KeepInv, TypeOK
        <5>3. <<ep, to>> # None /\ <<ep, to>>[1] = ep /\ <<ep, to>>[2] = to /\ to <= to
          BY <5>2 DEF None
        <5>4. Reached(<<ep, to>>, ep, to)
          BY Zenon, <5>3 DEF Reached
        <5>5. last[p] # None => last[p][2] \in 1 .. MaxHead
          BY Zenon, <5>2, EntryTypes
        <5> HIDE DEF ep, to, new
        <5>6. ASSUME NEW e, NEW t \in 0 .. MaxHead, Reached(last[p], e, t) PROVE Reached(<<ep, to>>, e, t)
          <6>1. IF e = ep THEN t <= to ELSE t < to
            <7>1. CASE last[p] = None
              BY SMTT(30), <5>2, <5>6, <7>1 DEF Reached
            <7>2. CASE last[p] # None
              BY SMTT(30), <4>2, <4>3, <5>2, <5>5, <5>6, <7>2 DEF Reached
            <7> QED BY Zenon, <7>1, <7>2
          <6> QED BY Zenon, <5>3, <6>1 DEF Reached
        <5> QED BY Zenon, <5>1, <5>4, <5>6
      <4>4. CASE ~ \E f \in new : f < to
        BY Zenon, <3>1, <4>1, <4>2, <4>4
      <4> QED BY Zenon, <4>3, <4>4
    <3>4. Single(p) => /\ tail' # None => Reached(last'[p], tail'[1], tail'[2])
                       /\ Follows(last'[p], job'[p])
      <4>1. \A x \in Entries \union {None} : x # None => x[2] \in 0 .. MaxHead
        BY EntryTypes, HsmAuditConstants
      <4>2. tail \in Entries \union {None} /\ job[p].tail \in Entries \union {None}
        BY Zenon, RestTypes DEF Jobs
      <4> QED BY Zenon, <2>1, <3>2, <3>3, <4>1, <4>2 DEF ChainInv, Follows, Fields
    <3> QED BY Zenon, <2>1, <2>2, <3>1, <3>2, <3>3, <3>4, <1>ChainKeeps
  <2>6. unflushed' \in BOOLEAN
    BY Zenon, RestTypes DEF AppendEntries, files
  <2> QED BY Zenon, <2>3, <2>4, <2>5, <2>6
\* The steps after the file: the job keeps its segment.
<1>ChainAfter.
      ASSUME KeepInv, ChainInv, NEW p \in Procs,
             AppendLogEntries(p) \/ UpdateTail(p) \/ SaveAuditState(p) \/ ConsumeLog(p)
      PROVE  ChainInv'
  <2> USE <1>ChainAfter
  <2>1. /\ UNCHANGED <<conf, unflushed, file, last>>
        /\ job[p].at \in {"append", "save", "tail", "consume"} /\ job[p].at # "idle"
    BY Zenon DEF AppendLogEntries, UpdateTail, SaveAuditState, ConsumeLog, files
  <2>2. p \in conf.procs
    BY Zenon, <2>1 DEF ChainInv
  <2>3. tail' = tail \/ tail' = <<job[p].ep, job[p].to>>
    BY Zenon DEF AppendLogEntries, UpdateTail, SaveAuditState, ConsumeLog
  <2>4. PICK at \in {"save", "tail", "consume", "release"} : Goto(p, at)
    BY Zenon DEF AppendLogEntries, UpdateTail, SaveAuditState, ConsumeLog
  <2>5. /\ \A q \in Procs : q = p \/ job'[q] = job[q]
        /\ Fields(job'[p], at, job[p].prov, job[p].tail, job[p].ep, job[p].from, job[p].to)
    BY Zenon, <2>4, Moves DEF Steps
  <2>6. Single(p) => Reached(last[p], job[p].ep, job[p].to) /\ file = FileOf(last[p])
    BY Zenon, <2>1 DEF ChainInv, Follows
  <2>7. Single(p) => Follows(last'[p], job'[p])
    BY Zenon, <2>1, <2>5, <2>6 DEF ChainInv, Follows, Fields
  <2>8. Single(p) => (tail' # None => Reached(last'[p], tail'[1], tail'[2]))
    <3>1. tail' = <<job[p].ep, job[p].to>> => tail'[1] = job[p].ep /\ tail'[2] = job[p].to
      OBVIOUS
    <3> QED BY Zenon, <2>1, <2>3, <2>6, <3>1 DEF ChainInv
  <2> QED BY Zenon, <2>1, <2>2, <2>5, <2>6, <2>7, <2>8, <1>ChainKeeps
<1>ChainRestart.
      ASSUME KeepInv, ChainInv, NEW p \in Procs, Restart(p)
      PROVE  ChainInv'
  <2> USE <1>ChainRestart
  <2>1. /\ UNCHANGED <<conf, unflushed, file, tail>> /\ p \in conf.procs /\ job' = [job EXCEPT ![p] = Idle]
    BY Zenon DEF Restart
  <2>2. job'[p] = Idle /\ \A q \in Procs : q = p \/ job'[q] = job[q]
    BY Zenon, <2>1, NewJob
  <2>3. Single(p) => /\ file' = FileOf(last'[p])
                     /\ tail' # None => Reached(last'[p], tail'[1], tail'[2])
                     /\ Follows(last'[p], job'[p])
    BY Zenon, <2>1, <2>2, Reopened, ChainIdle DEF ChainInv
  <2> QED BY Zenon, <2>1, <2>2, <2>3, <1>ChainKeeps
<1> SUFFICES ASSUME KeepInv, ChainInv, LoneInv, [Next]_vars PROVE ChainInv'
  OBVIOUS
<1>1. CASE UNCHANGED vars \/ Operate \/ Overflow \/ Reset
  <2>1. UNCHANGED <<conf, unflushed, file, last, tail, job>>
    BY Zenon, <1>1 DEF vars, device, files, Operate, Overflow, Reset
  <2> QED BY Zenon, <2>1 DEF ChainInv, Single
<1>2. ASSUME NEW p \in Procs, Cycle(p) \/ ProvisionLoad(p) \/ Fail(p) \/ Restart(p)
      PROVE  ChainInv'
  <2>1. CASE Cycle(p)
    BY Zenon, <2>1, <1>ChainEnds, <1>ChainLoad, <1>ChainFetch, <1>ChainAppendEntries, <1>ChainAfter,
       <1>ChainProvisionFetch DEF Cycle
  <2> QED BY Zenon, <1>2, <2>1, <1>ChainEnds, <1>ChainRestart
<1> QED BY Zenon, <1>1, <1>2 DEF Next

-----------------------------------------------------------------------------
(* The process that writes alone keeps close to the tail.                  *)

\* At these steps a job relies on nothing.
LEMMA LoneRests ==
    \A l, t, j : j.at = "idle" \/ j.at = "load" \/ j.at = "consume" \/ j.at = "release"
                 => Steady(l, t, j)
BY ZenonT(60) DEF Steady

LEMMA LoneInit == Init => LoneInv
<1> SUFFICES ASSUME Init PROVE LoneInv
  OBVIOUS
<1>1. \A p \in Procs : last[p] = None /\ job[p] = Idle
  BY Zenon DEF Init
<1>2. Idle.at = "idle"
  BY Zenon, IdleFields DEF Fields
<1>3. \A p \in Procs : Steady(last[p], tail, job[p])
  BY Zenon, <1>1, <1>2, LoneRests
<1> QED BY Zenon, <1>1, <1>3 DEF LoneInv, Young

LEMMA LoneStep == KeepInv /\ ChainInv /\ LoneInv /\ [Next]_vars => LoneInv'
<1>LoneKeeps.
      ASSUME NEW p \in Procs, p \in conf.procs, conf' = conf, ~unflushed' => ~unflushed,
             Single(p) /\ ~unflushed' => /\ Young(last'[p], tail', epoch', head')
                                         /\ Steady(last'[p], tail', job'[p])
      PROVE  LoneInv'
  <2> USE <1>LoneKeeps
  <2>1. ASSUME NEW r \in Procs, Single(r)' PROVE r = p /\ Single(p) /\ ~unflushed'
    BY Zenon, <2>1 DEF Single
  <2> QED BY Zenon, <2>1 DEF LoneInv
\* A step of p that changes its job only.
<1>LoneJob.
      ASSUME LoneInv, NEW p \in Procs, p \in conf.procs,
             UNCHANGED <<conf, unflushed, last, tail, epoch, head>>,
             Single(p) => Steady(last[p], tail, job'[p])
      PROVE  LoneInv'
  <2> USE <1>LoneJob
  <2>1. Single(p) => /\ Young(last'[p], tail', epoch', head')
                     /\ Steady(last'[p], tail', job'[p])
    BY Zenon DEF LoneInv
  <2> QED BY Zenon, <2>1, <1>LoneKeeps
<1>LoneRelease.
      ASSUME KeepInv, NEW p \in Procs, Goto(p, "release")
      PROVE  \A l, t : Steady(l, t, job'[p])
  <2> USE <1>LoneRelease
  <2>1. job'[p].at = "release"
    BY Zenon, Moves DEF Fields, Steps
  <2> QED BY Zenon, <2>1, LoneRests
<1>LoneEnds.
      ASSUME KeepInv, ChainInv, LoneInv, NEW p \in Procs,
             Acquire(p) \/ ProvisionLoad(p) \/ Release(p) \/ Fail(p)
      PROVE  LoneInv'
  <2> USE <1>LoneEnds
  <2>1. /\ UNCHANGED <<conf, unflushed, last, tail, epoch, head>>
        /\ p \in conf.procs \/ job[p].at # "idle"
    BY Zenon DEF Acquire, ProvisionLoad, Release, Fail, files, device
  <2>2. p \in conf.procs
    BY Zenon, <2>1 DEF ChainInv
  <2>3. CASE Goto(p, "release")
    BY Zenon, <2>1, <2>2, <2>3, <1>LoneRelease, <1>LoneJob
  <2>4. ASSUME NEW j, job' = [job EXCEPT ![p] = j], j.at = "idle" \/ j.at = "load" PROVE LoneInv'
    <3>1. job'[p] = j
      BY Zenon, <2>4, NewJob
    <3>2. Steady(last[p], tail, job'[p])
      BY Zenon, <2>4, <3>1, LoneRests
    <3> QED BY Zenon, <2>1, <2>2, <3>2, <1>LoneJob
  <2>5. CASE Acquire(p)
    <3>1. [Idle EXCEPT !.at = "load"].at = "load"
      BY Zenon, LoadFields DEF Fields
    <3> QED BY Zenon, <2>4, <2>5, <3>1 DEF Acquire
  <2>6. CASE ProvisionLoad(p)
    <3>1. PICK j : j = [Idle EXCEPT !.at = "fetch", !.prov = TRUE]
      BY Zenon
    <3>2. job'[p] = j /\ tail = None
      BY Zenon, <2>6, <3>1, NewJob DEF ProvisionLoad
    <3>3. Fields(j, "fetch", TRUE, None, 0, 0, 0)
      BY Zenon, <3>1, FetchFields
    <3>4. Steady(last[p], tail, job'[p])
      BY Zenon, <3>2, <3>3 DEF Steady, Fields
    <3> QED BY Zenon, <2>1, <2>2, <3>4, <1>LoneJob
  <2>7. CASE job' = [job EXCEPT ![p] = Idle]
    <3>1. Idle.at = "idle"
      BY Zenon, IdleFields DEF Fields
    <3> QED BY Zenon, <2>4, <2>7, <3>1
  <2> QED BY Zenon, <2>3, <2>5, <2>6, <2>7 DEF Release, Fail
<1>LoneLoad.
      ASSUME KeepInv, ChainInv, LoneInv, NEW p \in Procs, LoadAuditState(p)
      PROVE  LoneInv'
  <2> USE <1>LoneLoad
  <2>1. UNCHANGED <<conf, unflushed, last, tail, epoch, head>> /\ job[p].at # "idle"
    BY Zenon DEF LoadAuditState, files, device
  <2>2. p \in conf.procs
    BY Zenon, <2>1 DEF ChainInv
  <2>3. CASE Goto(p, "release")
    BY Zenon, <2>1, <2>2, <2>3, <1>LoneRelease, <1>LoneJob
  <2>4. CASE ~Goto(p, "release")
    <3>1. PICK j : j = [Idle EXCEPT !.at = "fetch", !.tail = tail]
      BY Zenon
    <3>2. job'[p] = j
      BY Zenon, <2>4, <3>1, NewJob DEF LoadAuditState
    <3>3. Fields(j, "fetch", FALSE, tail, 0, 0, 0)
      BY Zenon, <3>1, RestTypes, FetchFields
    <3>4. Steady(last[p], tail, job'[p])
      BY Zenon, <3>2, <3>3 DEF Steady, Fields
    <3> QED BY Zenon, <2>1, <2>2, <3>4, <1>LoneJob
  <2> QED BY Zenon, <2>3, <2>4
\* What the device is asked for begins at the tail, and ends at or past the
\* position of the file.
<1>LoneFetch.
      ASSUME KeepInv, ChainInv, LoneInv, NEW p \in Procs, FetchLog(p)
      PROVE  LoneInv'
  <2> USE <1>LoneFetch
  <2>1. /\ UNCHANGED <<conf, unflushed, last, tail, epoch, head>>
        /\ job[p].at = "fetch" /\ job[p].at # "idle" /\ ~job[p].prov
    BY Zenon DEF FetchLog, files, device
  <2>2. p \in conf.procs
    BY Zenon, <2>1 DEF ChainInv
  <2>3. CASE Goto(p, "release")
    BY Zenon, <2>1, <2>2, <2>3, <1>LoneRelease, <1>LoneJob
  <2>4. CASE ~Goto(p, "release")
    <3>1. PICK f, at, j :
             /\ f \in 0 .. MaxHead /\ at \in {"sink", "consume"} /\ job[p].tail = <<epoch, f>>
             /\ Fields(j, at, FALSE, None, epoch, f, head) /\ job'[p] = j
      BY Zenon, <2>4, Fetches
    <3>2. job[p].tail # None /\ job[p].tail[1] = epoch
      BY <3>1 DEF None
    <3>3. Single(p) => Steady(last[p], tail, job'[p])
      BY Zenon, <2>1, <3>1, <3>2 DEF LoneInv, Young, Steady, Fields
    <3> QED BY Zenon, <2>1, <2>2, <3>3, <1>LoneJob
  <2> QED BY Zenon, <2>3, <2>4
<1>LoneProvisionFetch.
      ASSUME KeepInv, ChainInv, LoneInv, NEW p \in Procs, ProvisionFetch(p)
      PROVE  LoneInv'
  <2> USE <1>LoneProvisionFetch
  <2>1. /\ UNCHANGED <<conf, unflushed, last, tail, epoch, head>>
        /\ job[p].at = "fetch" /\ job[p].at # "idle" /\ job[p].prov
    BY Zenon DEF ProvisionFetch, files, device
  <2>2. p \in conf.procs
    BY Zenon, <2>1 DEF ChainInv
  <2>3. CASE Goto(p, "release")
    BY Zenon, <2>1, <2>2, <2>3, <1>LoneRelease, <1>LoneJob
  <2>4. CASE ~Goto(p, "release")
    <3>1. PICK j : j = [Idle EXCEPT !.at = "sink", !.prov = TRUE, !.ep = epoch, !.to = head]
      BY Zenon
    <3>2. job'[p] = j /\ consumed = 0
      BY Zenon, <2>4, <3>1, NewJob DEF ProvisionFetch
    <3>3. Fields(j, "sink", TRUE, None, epoch, 0, head)
      BY Zenon, <3>1, DeviceTypes, SegmentFields DEF Steps
    <3>4. head <= Ring
      BY <3>2, DeviceTypes
    <3>5. Single(p) => Steady(last[p], tail, job'[p])
      BY Zenon, <2>1, <3>2, <3>3, <3>4 DEF LoneInv, Young, Steady, Fields
    <3> QED BY Zenon, <2>1, <2>2, <3>5, <1>LoneJob
  <2> QED BY Zenon, <2>3, <2>4
<1>LoneAppendEntries.
      ASSUME KeepInv, ChainInv, LoneInv, NEW p \in Procs, AppendEntries(p)
      PROVE  LoneInv'
  <2> USE <1>LoneAppendEntries
  <2>1. /\ UNCHANGED <<conf, tail, epoch, head>> /\ job[p].at = "sink" /\ job[p].at # "idle"
        /\ job[p].at \in Fetched
    BY Zenon DEF AppendEntries, Fetched, device
  <2>2. p \in conf.procs
    BY Zenon, <2>1 DEF ChainInv
  <2>3. CASE Goto(p, "release") /\ UNCHANGED <<last, unflushed>>
    BY Zenon, <2>1, <2>2, <2>3, <1>LoneRelease, <1>LoneJob
  <2>4. CASE unflushed' = TRUE
    BY Zenon, <2>1, <2>2, <2>4, <1>LoneKeeps
  <2>5. CASE /\ Goto(p, "append") /\ unflushed' = unflushed
             /\ last' = last \/ last' = [last EXCEPT ![p] = <<job[p].ep, job[p].to>>]
    <3>1. Fields(job'[p], "append", job[p].prov, job[p].tail, job[p].ep, job[p].from, job[p].to)
      BY Zenon, <2>5, Moves DEF Steps
    <3>2. last'[p] = last[p] \/ last'[p] = <<job[p].ep, job[p].to>>
      BY Zenon, <2>5 DEF KeepInv, TypeOK
    <3>3. ASSUME Single(p)
          PROVE  Young(<<job[p].ep, job[p].to>>, tail, epoch, head) /\ Young(last[p], tail, epoch, head)
      <4>1. PICK e, t : e = job[p].ep /\ t = job[p].to
        BY Zenon
      <4>2. e <= epoch /\ (e = epoch => t <= head)
        BY Zenon, <2>1, <4>1 DEF KeepInv, Current
      <4>3. t <= Ring \/ (tail # None /\ tail[1] = e)
        BY Zenon, <2>1, <3>3, <4>1 DEF LoneInv, Steady
      <4>4. <<e, t>>[1] = e /\ <<e, t>>[2] = t
        OBVIOUS
      <4> QED BY Zenon, <3>3, <4>1, <4>2, <4>3, <4>4 DEF Young, LoneInv
    <3>4. Single(p) => Steady(last'[p], tail, job'[p])
      BY Zenon, <2>1, <3>1 DEF LoneInv, Steady, Fields
    <3> QED BY Zenon, <2>1, <2>2, <2>5, <3>2, <3>3, <3>4, <1>LoneKeeps
  <2> QED BY Zenon, <2>3, <2>4, <2>5 DEF AppendEntries, files
<1>LoneAfter.
      ASSUME KeepInv, ChainInv, LoneInv, NEW p \in Procs,
             AppendLogEntries(p) \/ UpdateTail(p) \/ SaveAuditState(p) \/ ConsumeLog(p)
      PROVE  LoneInv'
  <2> USE <1>LoneAfter
  <2>1. /\ UNCHANGED <<conf, unflushed, last, epoch, head>> /\ job[p].at # "idle"
        /\ job[p].at \in {"append", "save", "tail", "consume"}
    BY Zenon DEF AppendLogEntries, UpdateTail, SaveAuditState, ConsumeLog, files, device
  <2>2. p \in conf.procs
    BY Zenon, <2>1 DEF ChainInv
  <2>3. CASE Goto(p, "release") /\ tail' = tail
    BY Zenon, <2>1, <2>2, <2>3, <1>LoneRelease, <1>LoneJob
  <2>4. CASE AppendLogEntries(p) /\ Goto(p, IF job[p].prov THEN "save" ELSE "tail")
    <3>1. PICK at \in {"save", "tail"} : Goto(p, at) /\ (at = IF job[p].prov THEN "save" ELSE "tail")
      BY Zenon, <2>4
    <3>2. Fields(job'[p], at, job[p].prov, job[p].tail, job[p].ep, job[p].from, job[p].to)
      BY Zenon, <3>1, Moves DEF Steps
    <3>3. tail' = tail /\ job[p].at = "append"
      BY Zenon, <2>4 DEF AppendLogEntries
    <3>4. Single(p) => Steady(last[p], tail, job'[p])
      BY Zenon, <3>1, <3>2, <3>3 DEF LoneInv, Steady, Fields
    <3> QED BY Zenon, <2>1, <2>2, <3>3, <3>4, <1>LoneJob
  <2>5. CASE /\ job[p].at \in {"tail", "save"} /\ tail' = <<job[p].ep, job[p].to>>
             /\ Goto(p, "consume")
    <3>1. \A l, t : Steady(l, t, job'[p])
      <4>1. job'[p].at = "consume"
        BY Zenon, <2>5, Moves DEF Fields, Steps
      <4> QED BY Zenon, <4>1, LoneRests
    <3>2. tail' # None /\ tail'[1] = job[p].ep
      BY <2>5 DEF None
    <3>3. Single(p) => Young(last[p], tail', epoch, head)
      BY Zenon, <2>5, <3>2 DEF LoneInv, Young, Steady
    <3> QED BY Zenon, <2>1, <2>2, <3>1, <3>3, <1>LoneKeeps
  <2> QED BY Zenon, <2>3, <2>4, <2>5 DEF AppendLogEntries, UpdateTail, SaveAuditState, ConsumeLog
<1>LoneRestart.
      ASSUME KeepInv, ChainInv, LoneInv, NEW p \in Procs, Restart(p)
      PROVE  LoneInv'
  <2> USE <1>LoneRestart
  <2>1. UNCHANGED <<conf, unflushed, tail, epoch, head>> /\ p \in conf.procs /\ job' = [job EXCEPT ![p] = Idle]
    BY Zenon DEF Restart, device
  <2>2. job'[p].at = "idle"
    BY Zenon, <2>1, NewJob, IdleFields DEF Fields
  <2>3. Single(p) => Young(last'[p], tail', epoch', head') /\ Steady(last'[p], tail', job'[p])
    <3>1. Steady(last'[p], tail', job'[p])
      BY Zenon, <2>2, LoneRests
    <3>2. Single(p) => last'[p] = last[p]
      BY Zenon, Reopened
    <3> QED BY Zenon, <2>1, <3>1, <3>2 DEF LoneInv
  <2> QED BY Zenon, <2>1, <2>3, <1>LoneKeeps
<1> SUFFICES ASSUME KeepInv, ChainInv, LoneInv, [Next]_vars PROVE LoneInv'
  OBVIOUS
<1>1. CASE UNCHANGED vars \/ Operate \/ Overflow \/ Reset
  <2>1. UNCHANGED <<conf, unflushed, last, tail, job>>
    BY Zenon, <1>1 DEF vars, files, Operate, Overflow, Reset
  <2>2. \/ epoch' = epoch /\ head' = head
        \/ epoch' = epoch /\ head' = head + 1
        \/ epoch' = epoch + 1
    BY Zenon, <1>1 DEF vars, device, Operate, Overflow, Reset
  <2>3. \A p \in Procs : Young(last[p], tail, epoch, head) => Young(last[p], tail, epoch', head')
    <3> SUFFICES ASSUME NEW l \in Entries, NEW t, Young(l, t, epoch, head) PROVE Young(l, t, epoch', head')
      BY Zenon DEF KeepInv, TypeOK, Young
    <3>1. l[1] \in 1 .. MaxEpoch /\ l[2] \in 1 .. MaxHead /\ l # None
      BY Zenon, EntryTypes
    <3>2. l[1] <= epoch /\ (l[1] = epoch => l[2] <= head) /\ (l[2] <= Ring \/ (t # None /\ t[1] = l[1]))
      BY Zenon, <3>1 DEF Young
    <3>3. l[1] <= epoch' /\ (l[1] = epoch' => l[2] <= head')
      BY <2>2, <3>1, <3>2, DeviceTypes
    <3> QED BY Zenon, <3>2, <3>3 DEF Young
  <2> QED BY Zenon, <2>1, <2>3 DEF LoneInv, Single
<1>2. ASSUME NEW p \in Procs, Cycle(p) \/ ProvisionLoad(p) \/ Fail(p) \/ Restart(p)
      PROVE  LoneInv'
  <2>1. CASE Cycle(p)
    BY Zenon, <2>1, <1>LoneEnds, <1>LoneLoad, <1>LoneFetch, <1>LoneAppendEntries, <1>LoneAfter,
       <1>LoneProvisionFetch DEF Cycle
  <2> QED BY Zenon, <1>2, <2>1, <1>LoneEnds, <1>LoneRestart
<1> QED BY Zenon, <1>1, <1>2 DEF Next

-----------------------------------------------------------------------------
(* The theorems.                                                           *)

LEMMA AlwaysQuietInv == Spec => [](KeepInv /\ QuietInv)
BY KeepInit, QuietInit, KeepStep, QuietStep, PTL DEF Spec

LEMMA AlwaysChainInv == Spec => [](KeepInv /\ ChainInv)
<1>1. KeepInv /\ ChainInv /\ LoneInv /\ [Next]_vars => (KeepInv /\ ChainInv /\ LoneInv)'
  BY Zenon, KeepStep, ChainStep, LoneStep
<1> QED BY <1>1, KeepInit, ChainInit, LoneInit, PTL DEF Spec

\* The device, the tables and every process's job keep their types.
THEOREM HsmAuditTypes == Spec => []TypeOK
<1>1. KeepInv => TypeOK
  BY Zenon DEF KeepInv
<1> QED BY <1>1, AlwaysKeepInv, PTL

\* The device forgets an entry that is not in the store only when it was reset
\* between FetchLog and ConsumeLog, and the acknowledgement, which names an entry by
\* its number alone, falls on another (collectLocked and Provision store first),
\* wherever the entry counter stands.
THEOREM AcknowledgedIsStored ==
    Spec => [](\A i \in (1 .. consumed) \ astray : stored[Number(<<epoch, i>>)] = <<epoch, i>>)
<1>1. KeepInv => \A i \in (1 .. consumed) \ astray : stored[Number(<<epoch, i>>)] = <<epoch, i>>
  BY Zenon DEF KeepInv, Backed
<1> QED BY <1>1, AlwaysKeepInv, PTL

\* With that exception it forgets none that is not in an append-only file of its own
\* without a torn line either, as long as the counter has not gone half round: a
\* process whose LogFile is further behind takes new entries for old ones
\* (trimWritten).
THEOREM AcknowledgedEntriesAreKept ==
    ASSUME HalfRange
    PROVE  Spec => []AcknowledgedIsKept
<1>1. KeepInv => AcknowledgedIsKept
  <2> SUFFICES ASSUME KeepInv PROVE AcknowledgedIsKept
    OBVIOUS
  <2>1. epoch # 0
    BY DeviceTypes
  <2>2. (\A k \in DOMAIN file : file[k] = Resume \/ file[k][1] = epoch) => Whole(file) /\ Pure(file, epoch)
    <3>1. Torn[1] = 0 /\ Malformed[1] = 0 /\ Resume[1] = 0 /\ Resume # Torn /\ Resume # Malformed
      BY DEF Torn, Malformed, Resume
    <3> QED BY Zenon, <2>1, <3>1 DEF Whole, Pure
  <2> QED BY Zenon, <2>2 DEF KeepInv, Backed, AcknowledgedIsKept
<1> QED BY <1>1, AlwaysKeepInv, PTL

\* A device that nothing disturbs, drained by processes that respect the lease,
\* never fails trimToTail and VerifySegment, wherever the entry counter stands.
THEOREM RespectedLeaseRaisesNoAlarm == Spec => []NoFalseAlarm
<1>1. KeepInv /\ QuietInv => NoFalseAlarm
  <2>1. KeepInv => epoch = 1 \/ epoch > 1
    BY SMTT(30), DeviceTypes
  <2> QED BY Zenon, <2>1 DEF QuietInv, Respected, NoFalseAlarm, Disturbed
<1> QED BY <1>1, AlwaysQuietInv, PTL

F == INSTANCE FiniteSetTheorems

\* The file of a process that writes alone, and of the one that replaces it, is a
\* single chain (AppendEntries, readTail), wherever the entry counter stands.
THEOREM SoleWriterKeepsOneChain == Spec => []FileIsOneChain
<1>1. KeepInv /\ ChainInv => FileIsOneChain
  <2> SUFFICES ASSUME KeepInv, ChainInv, Cardinality(conf.procs) = 1, ~unflushed,
                      NEW k \in 2 .. Len(file)
               PROVE  file[k] = <<file[k - 1][1], file[k - 1][2] + 1>>
    BY Zenon DEF FileIsOneChain
  <2>1. conf \in Scenarios /\ IsFiniteSet(conf.procs)
    BY Zenon, HsmAuditConstants DEF KeepInv, TypeOK
  <2>2. \A S : (F!IsFiniteSet(S) <=> IsFiniteSet(S)) /\ F!Cardinality(S) = Cardinality(S)
    BY DEF F!IsFiniteSet, IsFiniteSet, F!Cardinality, Cardinality
  <2>3. PICK p : conf.procs = {p}
    BY Zenon, <2>1, <2>2, F!FS_Singleton
  <2>4. p \in Procs
    BY Zenon, <2>1, <2>3 DEF Procs
  <2>5. file = FileOf(last[p]) /\ last[p] \in Entries \union {None}
    BY Zenon, <2>3, <2>4 DEF ChainInv, Single, KeepInv, TypeOK
  <2>6. last[p] # None
    <3>1. last[p] = None => Len(file) = 0
      BY <2>5 DEF FileOf
    <3>2. Len(file) # 0
      OBVIOUS
    <3> QED BY Zenon, <3>1, <3>2
  <2>7. PICK e \in 1 .. MaxEpoch, n \in 1 .. MaxHead : last[p] = <<e, n>>
    BY Zenon, <2>5, <2>6, EntryTypes
  <2>8. Len(file) = n /\ \A i \in 1 .. n : file[i] = <<e, i>>
    BY ZenonT(60), <2>5, <2>7, FileIs
  <2>9. k \in 1 .. n /\ k - 1 \in 1 .. n /\ (k - 1) + 1 = k
    BY <2>7, <2>8
  <2>10. file[k] = <<e, k>> /\ file[k - 1] = <<e, k - 1>>
    BY Zenon, <2>8, <2>9
  <2> QED BY <2>9, <2>10
<1> QED BY <1>1, AlwaysChainInv, PTL
=============================================================================
