-------------------------------- MODULE Crl ---------------------------------
(***************************************************************************)
(* Base and delta CRLs of one scope (the complete CRL or one partition) of *)
(* a CA, generated on demand from the revocation records while operators   *)
(* change them.  Any number of requests, on any replica, may generate at   *)
(* the same time: nothing but the CRL-number counter orders them.          *)
(*                                                                         *)
(* Whether a stored CRL is still fresh is a matter of the clock, so a      *)
(* request may always find it stale.                                       *)
(***************************************************************************)
EXTENDS Revocation

CONSTANTS Generators,
          MaxNumber     \* bound on the CRL numbers given out

VARIABLES counter,  \* next_number of the scope
          base,     \* the stored base CRL
          delta,    \* the stored delta CRL
          gpc,      \* where each generator is
          asked,    \* the CRL it was asked for, "base" or "delta"
          gen       \* the CRL it is making

crls == <<counter, base, delta>>
generators == <<gpc, asked, gen>>
vars == <<now, store, op, crls, generators>>

\* A CRL.  cut: the generated_at of a base, for a delta that of its base.
\* listed, removed: the serials of its entries, revoked or removeFromCRL.  The
\* rest is history: the serials revoked when each of the two listings was read,
\* and those with an operation stamped before the cut and not committed when
\* the base was listed; for a delta also the serials whose release was lost.
NoCRL == [number |-> 0, baseNumber |-> 0, cut |-> 0, listed |-> {}, removed |-> {},
          revoked |-> {}, stillRevoked |-> {}, inFlight |-> {}, lost |-> {}]

Init ==
    /\ StoreInit
    /\ counter = 1
    /\ base = NoCRL /\ delta = NoCRL
    /\ gpc = [g \in Generators |-> "idle"]
    /\ asked = [g \in Generators |-> "base"]
    /\ gen = [g \in Generators |-> NoCRL]

InFlight(t) == UNION {op[p].todo : p \in {q \in Operators : op[q].when < t}}

Made(g, crl) == gen' = [gen EXCEPT ![g] = crl]
Goto(g, place) == gpc' = [gpc EXCEPT ![g] = place]
Return(g) ==
    /\ Goto(g, "idle") /\ Made(g, NoCRL)
    /\ asked' = [asked EXCEPT ![g] = "base"]

-----------------------------------------------------------------------------
(* regenerateBaseCRL: for GetBaseCRL when the stored base is missing or    *)
(* stale; for GetDeltaCRL when it is missing and for the regeneration that *)
(* follows a bulk revocation, which go on to a delta.                      *)

\* The time of the new CRL is read first.
BeginBase(g) ==
    /\ gpc[g] = "idle"
    /\ \E what \in {"base", "delta"} : asked' = [asked EXCEPT ![g] = what]
    /\ ReadClock
    /\ Made(g, [NoCRL EXCEPT !.cut = now + 1])
    /\ Goto(g, "list base")
    /\ UNCHANGED <<store, op, crls>>

ListBase(g) ==
    /\ gpc[g] = "list base"
    /\ Made(g, [gen[g] EXCEPT !.listed = Revoked, !.inFlight = InFlight(gen[g].cut)])
    /\ Goto(g, "number base")
    /\ UNCHANGED <<now, store, op, crls, asked>>

\* Mutant: the time of the CRL is read after its entries.
NumberBaseReadsClock(g) ==
    /\ gpc[g] = "number base"
    /\ ReadClock
    /\ counter <= MaxNumber /\ counter' = counter + 1
    /\ Made(g, [gen[g] EXCEPT !.number = counter, !.baseNumber = counter, !.cut = now + 1])
    /\ Goto(g, "store base")
    /\ UNCHANGED <<store, op, base, delta, asked>>

NumberBase(g) ==
    /\ gpc[g] = "number base"
    /\ counter <= MaxNumber /\ counter' = counter + 1
    /\ Made(g, [gen[g] EXCEPT !.number = counter, !.baseNumber = counter])
    /\ Goto(g, "store base")
    /\ UNCHANGED <<now, store, op, base, delta, asked>>

\* A delta of b.
DeltaOf(b) == [NoCRL EXCEPT !.baseNumber = b.number, !.cut = b.cut]

\* Signed and stored over whatever is stored; the delta that was asked for is
\* made from this base.
StoreBase(g) ==
    /\ gpc[g] = "store base"
    /\ base' = gen[g]
    /\ \/ asked[g] = "base" /\ Return(g)
       \/ asked[g] = "delta" /\ Goto(g, "list delta") /\ Made(g, DeltaOf(gen[g]))
          /\ UNCHANGED asked
    /\ UNCHANGED <<now, store, op, counter, delta>>

-----------------------------------------------------------------------------
(* GetDeltaCRL: regenerateDeltaCRL                                         *)

\* The base is loaded, and the stored delta belongs to another base or is out
\* of date.  The time of the delta itself is not used again.
LoadBase(g) ==
    /\ gpc[g] = "idle" /\ base # NoCRL
    /\ Made(g, DeltaOf(base))
    /\ asked' = [asked EXCEPT ![g] = "delta"]
    /\ Goto(g, "list delta")
    /\ UNCHANGED <<now, store, op, crls>>

ListDelta(g) ==
    /\ gpc[g] = "list delta"
    /\ Made(g, [gen[g] EXCEPT !.listed = {s \in Revoked : revokedAt[s] > gen[g].cut},
                              !.revoked = Revoked])
    /\ Goto(g, "list released")
    /\ UNCHANGED <<now, store, op, crls, asked>>

ListReleased(g) ==
    /\ gpc[g] = "list released"
    /\ Made(g, [gen[g] EXCEPT !.removed = {s \in Serials : releasedAt[s] > gen[g].cut},
                              !.stillRevoked = Revoked, !.lost = lost])
    /\ Goto(g, "number delta")
    /\ UNCHANGED <<now, store, op, crls, asked>>

NumberDelta(g) ==
    /\ gpc[g] = "number delta"
    /\ counter <= MaxNumber /\ counter' = counter + 1
    /\ Made(g, [gen[g] EXCEPT !.number = counter])
    /\ Goto(g, "store delta")
    /\ UNCHANGED <<now, store, op, base, delta, asked>>

StoreDelta(g) ==
    /\ gpc[g] = "store delta"
    /\ delta' = gen[g]
    /\ Return(g)
    /\ UNCHANGED <<now, store, op, counter, base>>

-----------------------------------------------------------------------------
\* GenerateCRL, for the retirement of an intermediate: a CRL that is handed to
\* the caller and not stored, with a number of the same sequence.
GenerateCRL ==
    /\ counter <= MaxNumber /\ counter' = counter + 1
    /\ UNCHANGED <<now, store, op, base, delta, generators>>

\* A listing, the counter, the signer or the upsert fails; a number that was
\* taken stays taken.
GenerationFails(g) ==
    /\ gpc[g] # "idle"
    /\ Return(g)
    /\ UNCHANGED <<now, store, op, crls>>

Generate(g) ==
    \/ BeginBase(g) \/ ListBase(g) \/ NumberBase(g) \/ StoreBase(g)
    \/ LoadBase(g) \/ ListDelta(g) \/ ListReleased(g) \/ NumberDelta(g) \/ StoreDelta(g)
    \/ GenerationFails(g)

Operate(p) ==
    /\ Request(p) \/ Statement(p) \/ Fail(p) \/ \E some \in Batches(p) : Commit(p, some)
    /\ UNCHANGED <<crls, generators>>

Issue(s) == RecordIssued(s) /\ UNCHANGED <<now, op, crls, generators>>

Next ==
    \/ \E g \in Generators : Generate(g)
    \/ \E p \in Operators : Operate(p)
    \/ \E s \in Serials : Issue(s)
    \/ GenerateCRL

Spec == Init /\ [][Next]_vars

-----------------------------------------------------------------------------
CRLs == [number : Nat, baseNumber : Nat, cut : Times,
         listed : SUBSET Serials, removed : SUBSET Serials,
         revoked : SUBSET Serials, stillRevoked : SUBSET Serials, inFlight : SUBSET Serials,
         lost : SUBSET Serials]

\* The revocation records and the CRLs have the types of their columns.
TypeOK ==
    /\ StoreTypeOK
    /\ counter \in Nat \ {0}
    /\ base \in CRLs /\ delta \in CRLs
    /\ gpc \in [Generators -> {"idle", "list base", "number base", "store base", "list delta",
                               "list released", "number delta", "store delta"}]
    /\ asked \in [Generators -> {"base", "delta"}]
    /\ gen \in [Generators -> CRLs]

Paired == base # NoCRL /\ delta.baseNumber = base.number

\* The stored base and its delta, read together, miss a revocation (or a
\* release) only if it was in flight, stamped but not committed, while the base
\* was being listed (regenerateBaseCRL reads the clock before the records), or if
\* a revocation that found the record released deleted the release marker too.
PairMissesOnlyInFlight ==
    Paired =>
        /\ delta.revoked \ (base.listed \union delta.listed) \subseteq base.inFlight
        /\ base.listed \ (delta.stillRevoked \union delta.removed)
              \subseteq base.inFlight \union delta.lost

\* The base and its delta, which a relying party unions, miss no revocation that
\* was recorded when the delta was made.
PairCoversRevocations == Paired => delta.revoked \subseteq base.listed \union delta.listed

\* A serial that is revoked has no release marker, which a delta CRL would
\* turn into a removeFromCRL entry beside the entry that revokes it.
RevokedHasNoMarker == \A s \in Revoked : releasedAt[s] = 0

\* A certificate revoked for good stays revoked.
PermanentIsFinal ==
    [][\A s \in Serials : reason[s] = "permanent" => reason'[s] = "permanent"]_vars

\* The stored base CRL is only replaced by one with a higher number.
PublishedNumberGrows == [][base'.number >= base.number]_vars
=============================================================================
