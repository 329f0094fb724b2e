--------------------------- MODULE StoredSecrets ---------------------------
(***************************************************************************)
(* Stored secrets under a rotating KEK: internal/secret/rotation.go over   *)
(* database/secret.go, driven by handlers/secret_rotation.go and           *)
(* handlers/secret_lifecycle.go.  One KEK family and one tenant-scoped     *)
(* secret name, so the registry holds at most one row, next to the value   *)
(* history of that row.                                                    *)
(*                                                                         *)
(* A request or a command is a process that runs statement by statement;   *)
(* a transaction is one statement.  An envelope is what it decrypts to     *)
(* and the KEK version that wraps it: label and version name the same key  *)
(* (VersionLabel).  A process may die between any two statements.          *)
(***************************************************************************)
EXTENDS Naturals, FiniteSets

CONSTANTS Requests,      \* requests and commands in progress at once
          Values,        \* plaintexts
          MaxKek,        \* bound on the KEK versions of the family
          MaxVersion,    \* bound on the versions of one secret
          MaxIds,        \* bound on the secrets created under the name
          HistoryDepth   \* secret.history_depth, 0 to keep every version

ASSUME SecretConstants ==
    /\ MaxKek \in Nat \ {0} /\ MaxVersion \in Nat \ {0} /\ MaxIds \in Nat
    /\ HistoryDepth \in Nat

Keks == 1 .. MaxKek
Versions == 1 .. MaxVersion
Envelopes == [value : Values, kek : Keks]

VARIABLES lineage,   \* kek_versions: status by version, "none" without a row
          hsmKeys,   \* versions whose key exists in the HSM
          id,        \* stored_secrets: the row's id, 0 without a row
          current,   \* its current_version
          env,       \* its envelope, as a set of at most one
          history,   \* stored_secret_versions of that id, sets of at most one
          nextId,    \* uuid.New
          req,       \* what each process runs, with what it has read
          written,   \* the value each version of the row was accepted with
          puts,      \* puts and rollbacks of the row that reported success
          stale,     \* some envelope was stored under a version then inactive
          forced     \* versions retired with force

registry == <<id, current, env, history>>
ghosts == <<written, puts, stale, forced>>
secretsVars == <<lineage, hsmKeys, registry, nextId, req, ghosts>>

-----------------------------------------------------------------------------
(* The lineage as a request reads it.                                      *)

\* LoadRing: an empty lineage stands for the implicit version 1, active.
Listed(l) ==
    IF \A k \in Keks : l[k] = "none" THEN [l EXCEPT ![1] = "active"] ELSE l

ActiveIn(l) == {k \in Keks : l[k] = "active"}

\* The version the ring of a lineage seals under.
ActiveVersion(l) == CHOOSE k \in ActiveIn(l) : TRUE

\* serviceFor: an unknown or a retired version is refused.
Opens(l, k) == l[k] \in {"active", "retiring"}

Free == [at |-> "idle"]

SecretsInit ==
    /\ lineage = [k \in Keks |-> "none"]
    /\ hsmKeys = {1}
    /\ id = 0 /\ current = 0 /\ env = {}
    /\ history = [v \in Versions |-> {}]
    /\ nextId = 1
    /\ req = [p \in Requests |-> Free]
    /\ written = [v \in Versions |-> {}]
    /\ puts = 0
    /\ stale = FALSE
    /\ forced = {}

Proceed(p, j) == req' = [req EXCEPT ![p] = j]
Finish(p) == Proceed(p, Free)

\* What the properties remember of a stored envelope.
Stored(e) == stale' = (stale \/ e.kek # ActiveVersion(Listed(lineage)))

-----------------------------------------------------------------------------
(* StoreSecret, and DeleteStoredSecret.                                    *)

\* GetStoredSecretByName finds none.
StoreFind(p) ==
    /\ req[p].at = "idle"
    /\ id = 0
    /\ \E val \in Values : Proceed(p, [at |-> "seal", value |-> val])
    /\ UNCHANGED <<lineage, hsmKeys, registry, nextId, ghosts>>

\* secretRing reads the lineage; the value is sealed under its active version.
StoreRing(p) ==
    /\ req[p].at = "seal"
    /\ Proceed(p, [at |-> "store",
                   e |-> [value |-> req[p].value, kek |-> ActiveVersion(Listed(lineage))]])
    /\ UNCHANGED <<lineage, hsmKeys, registry, nextId, ghosts>>

\* CreateStoredSecret: a taken name fails on its UNIQUE constraint.
CreateStoredSecret(p) ==
    /\ req[p].at = "store"
    /\ \/ /\ id # 0
          /\ UNCHANGED <<registry, nextId, written, puts, stale>>
       \/ /\ id = 0 /\ nextId <= MaxIds
          /\ id' = nextId /\ nextId' = nextId + 1
          /\ current' = 1
          /\ env' = {req[p].e}
          /\ history' = [v \in Versions |-> IF v = 1 THEN {req[p].e} ELSE {}]
          /\ written' = [v \in Versions |-> IF v = 1 THEN {req[p].e.value} ELSE {}]
          /\ puts' = 0
          /\ Stored(req[p].e)
    /\ Finish(p)
    /\ UNCHANGED <<lineage, hsmKeys, forced>>

\* DeleteStoredSecret removes the row and its history in one transaction.
DeleteStoredSecret ==
    /\ id # 0
    /\ id' = 0 /\ current' = 0 /\ env' = {}
    /\ history' = [v \in Versions |-> {}]
    /\ written' = [v \in Versions |-> {}]
    /\ puts' = 0
    /\ UNCHANGED <<lineage, hsmKeys, nextId, req, stale, forced>>

-----------------------------------------------------------------------------
(* PutStoredSecret and RollbackStoredSecret.                               *)

\* Both read the row first.  The put then reads the lineage and seals.
ReadRow(p) ==
    /\ req[p].at = "idle"
    /\ id # 0 /\ current < MaxVersion
    /\ \/ \E val \in Values : Proceed(p, [at |-> "ring", id |-> id, expect |-> current, value |-> val])
       \/ \E v \in 1 .. current - 1 :
             Proceed(p, [at |-> "target", id |-> id, expect |-> current, version |-> v])
    /\ UNCHANGED <<lineage, hsmKeys, registry, nextId, ghosts>>

PutRing(p) ==
    /\ req[p].at = "ring"
    /\ Proceed(p, [at |-> "put", id |-> req[p].id, expect |-> req[p].expect,
                   e |-> [value |-> req[p].value, kek |-> ActiveVersion(Listed(lineage))]])
    /\ UNCHANGED <<lineage, hsmKeys, registry, nextId, ghosts>>

\* The rollback copies the envelope of an older version ...
RollbackGetVersion(p) ==
    /\ req[p].at = "target"
    /\ IF id = req[p].id /\ history[req[p].version] # {}
       THEN \E e \in history[req[p].version] :
               Proceed(p, [at |-> "check", id |-> id, expect |-> req[p].expect, e |-> e])
       ELSE Finish(p)
    /\ UNCHANGED <<lineage, hsmKeys, registry, nextId, ghosts>>

\* ... after checkKEKNotRetired: a version outside the lineage is allowed.
CheckKEKNotRetired(p) ==
    /\ req[p].at = "check"
    /\ IF lineage[req[p].e.kek] = "retired"
       THEN Finish(p)
       ELSE Proceed(p, [req[p] EXCEPT !.at = "put"])
    /\ UNCHANGED <<lineage, hsmKeys, registry, nextId, ghosts>>

\* The history a put leaves: the new version, and no more than HistoryDepth.
Pruned(new, e) ==
    [v \in Versions |->
        IF v = new THEN {e}
        ELSE IF HistoryDepth > 0 /\ v + HistoryDepth <= new THEN {}
        ELSE history[v]]

\* Mutant of PutStoredSecretVersion: UPDATE ... WHERE id = ? alone.
PutUnconditionally(p) ==
    /\ req[p].at = "put"
    /\ IF id = req[p].id
       THEN LET new == req[p].expect + 1
            IN /\ current' = new
               /\ env' = {req[p].e}
               /\ history' = Pruned(new, req[p].e)
               /\ written' = [written EXCEPT ![new] = {req[p].e.value}]
               /\ puts' = puts + 1
               /\ Stored(req[p].e)
       ELSE UNCHANGED <<current, env, history, written, puts, stale>>
    /\ Finish(p)
    /\ UNCHANGED <<lineage, hsmKeys, id, nextId, forced>>

\* PutStoredSecretVersion: UPDATE ... WHERE id = ? AND current_version = ?,
\* or ErrSecretVersionConflict.
PutStoredSecretVersion(p) ==
    /\ req[p].at = "put"
    /\ IF id = req[p].id /\ current = req[p].expect
       THEN LET new == req[p].expect + 1
            IN /\ current' = new
               /\ env' = {req[p].e}
               /\ history' = Pruned(new, req[p].e)
               /\ written' = [written EXCEPT ![new] = {req[p].e.value}]
               /\ puts' = puts + 1
               /\ Stored(req[p].e)
       ELSE UNCHANGED <<current, env, history, written, puts, stale>>
    /\ Finish(p)
    /\ UNCHANGED <<lineage, hsmKeys, id, nextId, forced>>

-----------------------------------------------------------------------------
(* RewrapSecrets: a fleet batch, or one over explicit ids.  An item of the *)
(* batch is an id and a version, with 0 for the registry row itself.       *)

\* secretRing, once for the batch.
RewrapRing(p) ==
    /\ req[p].at = "idle"
    /\ id # 0
    /\ Proceed(p, [at |-> "ids", ring |-> Listed(lineage)])
    /\ UNCHANGED <<lineage, hsmKeys, registry, nextId, ghosts>>

\* ListStoredSecretIDsForRewrap, unless the request names the ids.
ListIds(p) ==
    /\ req[p].at = "ids"
    /\ \/ Proceed(p, [at |-> "refs", ring |-> req[p].ring,
                      items |-> {<<id, 0>> : e \in {e \in env : e.kek # ActiveVersion(req[p].ring)}}])
       \/ id # 0 /\ Proceed(p, [at |-> "refs", ring |-> req[p].ring, items |-> {<<id, 0>>}])
    /\ UNCHANGED <<lineage, hsmKeys, registry, nextId, ghosts>>

\* ListStoredSecretVersionRefsForRewrap: every version but the current one.
ListRefs(p) ==
    /\ req[p].at = "refs"
    /\ LET refs == {v \in Versions \ {current} :
                       \E e \in history[v] : e.kek # ActiveVersion(req[p].ring)}
       IN Proceed(p, [req[p] EXCEPT !.at = "item", !.items = @ \union ({id} \X refs)])
    /\ UNCHANGED <<lineage, hsmKeys, registry, nextId, ghosts>>

\* GetStoredSecret and GetStoredSecretVersion, empty when there is no such row.
Get(item) ==
    IF id # item[1] THEN {} ELSE IF item[2] = 0 THEN env ELSE history[item[2]]

\* Rewrap changes an envelope that is not on the active version and that the
\* ring opens; the others are skipped or fail.
Rewrap(ring, es) ==
    {e \in es : e.kek # ActiveVersion(ring) /\ Opens(ring, e.kek)}

\* The registry rows come before the history.
RewrapGet(p) ==
    /\ req[p].at = "item"
    /\ \E item \in req[p].items :
          /\ \A other \in req[p].items : item[2] <= other[2]
          /\ LET rest == [req[p] EXCEPT !.items = @ \ {item}]
             IN IF Rewrap(req[p].ring, Get(item)) = {}
                THEN Proceed(p, rest)
                ELSE \E e \in Get(item) :
                        Proceed(p, [at |-> "update", item |-> item, e |-> e, rest |-> rest])
    /\ UNCHANGED <<lineage, hsmKeys, registry, nextId, ghosts>>

\* The end of the batch.
RewrapDone(p) ==
    /\ req[p].at = "item" /\ req[p].items = {}
    /\ Finish(p)
    /\ UNCHANGED <<lineage, hsmKeys, registry, nextId, ghosts>>

\* Mutant of UpdateEnvelope: the history row of the current version stays.
UpdateRegistryOnly(p) ==
    /\ req[p].at = "update"
    /\ LET item == req[p].item
           new == [value |-> req[p].e.value, kek |-> ActiveVersion(req[p].rest.ring)]
       IN IF \E e \in Get(item) : e.kek = req[p].e.kek
          THEN /\ env' = IF item[2] = 0 THEN {new} ELSE env
               /\ history' = IF item[2] = 0 THEN history ELSE [history EXCEPT ![item[2]] = {new}]
               /\ Stored(new)
          ELSE UNCHANGED <<env, history, stale>>
    /\ Proceed(p, req[p].rest)
    /\ UNCHANGED <<lineage, hsmKeys, id, current, nextId, written, puts, forced>>

\* UpdateStoredSecretEnvelope and UpdateStoredSecretVersionEnvelope: both apply
\* WHERE kek_label is the one that was read.  The first writes the registry row
\* and the history row of its current version.
UpdateEnvelope(p) ==
    /\ req[p].at = "update"
    /\ LET item == req[p].item
           new == [value |-> req[p].e.value, kek |-> ActiveVersion(req[p].rest.ring)]
           version == IF item[2] = 0 THEN current ELSE item[2]
       IN IF \E e \in Get(item) : e.kek = req[p].e.kek
          THEN /\ env' = IF item[2] = 0 THEN {new} ELSE env
               /\ history' = [history EXCEPT ![version] = {new}]
               /\ Stored(new)
          ELSE UNCHANGED <<env, history, stale>>
    /\ Proceed(p, req[p].rest)
    /\ UNCHANGED <<lineage, hsmKeys, id, current, nextId, written, puts, forced>>

-----------------------------------------------------------------------------
(* RotateKEK and RetireKEK.                                                *)

\* The highest of a set of versions.
Newest(ks) == CHOOSE k \in ks : \A j \in ks : k >= j

\* ListKEKVersions: the next version is past every recorded one.
RotateList(p) ==
    /\ req[p].at = "idle"
    /\ LET l == Listed(lineage)
           next == 1 + Newest({k \in Keks : l[k] # "none"})
       IN /\ next \in Keks
          /\ Proceed(p, [at |-> "key", next |-> next])
    /\ UNCHANGED <<lineage, hsmKeys, registry, nextId, ghosts>>

\* FindKey: a key that is there already is adopted.  A lookup that finds none,
\* or that fails, goes on to generate one.
RotateFindKey(p) ==
    /\ req[p].at = "key"
    /\ \/ /\ req[p].next \in hsmKeys
          /\ Proceed(p, [req[p] EXCEPT !.at = "record"])
       \/ Proceed(p, [req[p] EXCEPT !.at = "generate"])
    /\ UNCHANGED <<lineage, hsmKeys, registry, nextId, ghosts>>

\* GenerateKey refuses a label that is taken (the contract of a Provider).  The
\* new key is self-tested before the lineage advances.
RotateGenerateKey(p) ==
    /\ req[p].at = "generate"
    /\ IF req[p].next \in hsmKeys
       THEN UNCHANGED hsmKeys /\ Finish(p)
       ELSE /\ hsmKeys' = hsmKeys \union {req[p].next}
            /\ Proceed(p, [req[p] EXCEPT !.at = "record"])
    /\ UNCHANGED <<lineage, registry, nextId, ghosts>>

\* Mutant of RotateKEKVersion: a version that is recorded is recorded again.
RotateOnConflictUpdate(p) ==
    /\ req[p].at = "record"
    /\ lineage' = [k \in Keks |->
                      IF k = req[p].next THEN "active"
                      ELSE IF Listed(lineage)[k] = "active" THEN "retiring"
                      ELSE lineage[k]]
    /\ Finish(p)
    /\ UNCHANGED <<hsmKeys, registry, nextId, ghosts>>

\* RotateKEKVersion: backfill version 1, move the active version to retiring and
\* insert the next one, which collides when it is recorded already.
RotateKEKVersion(p) ==
    /\ req[p].at = "record"
    /\ IF lineage[req[p].next] # "none"
       THEN UNCHANGED lineage
       ELSE lineage' = [k \in Keks |->
                           IF k = req[p].next THEN "active"
                           ELSE IF Listed(lineage)[k] = "active" THEN "retiring"
                           ELSE lineage[k]]
    /\ Finish(p)
    /\ UNCHANGED <<hsmKeys, registry, nextId, ghosts>>

\* ListKEKVersions: only a retiring version may be retired.
RetireList(p) ==
    /\ req[p].at = "idle"
    /\ \E k \in Keks, force \in BOOLEAN :
          /\ lineage[k] = "retiring"
          /\ Proceed(p, [at |-> IF force THEN "retire" ELSE "count", kek |-> k, force |-> force])
    /\ UNCHANGED <<lineage, hsmKeys, registry, nextId, ghosts>>

\* Mutant of OnKEK: the history is not counted.
RowOnKEK(k) == {v \in {current} : \E e \in env : e.kek = k}

\* CountStoredSecretsOnKEK: the registry row and the other history rows.
OnKEK(k) ==
    {v \in Versions : \E e \in (IF v = current THEN env ELSE history[v]) : e.kek = k}

RetireCount(p) ==
    /\ req[p].at = "count"
    /\ IF OnKEK(req[p].kek) = {}
       THEN Proceed(p, [req[p] EXCEPT !.at = "retire"])
       ELSE Finish(p)
    /\ UNCHANGED <<lineage, hsmKeys, registry, nextId, ghosts>>

\* SetKEKVersionStatus.
RetireSet(p) ==
    /\ req[p].at = "retire"
    /\ lineage' = [lineage EXCEPT ![req[p].kek] = "retired"]
    /\ forced' = IF req[p].force THEN forced \union {req[p].kek} ELSE forced
    /\ Finish(p)
    /\ UNCHANGED <<hsmKeys, registry, nextId, written, puts, stale>>

\* The request is cut off, or its replica dies.
Abort(p) ==
    /\ req[p].at # "idle"
    /\ Finish(p)
    /\ UNCHANGED <<lineage, hsmKeys, registry, nextId, ghosts>>

Step(p) ==
    \/ StoreFind(p) \/ StoreRing(p) \/ CreateStoredSecret(p)
    \/ ReadRow(p) \/ PutRing(p) \/ RollbackGetVersion(p) \/ CheckKEKNotRetired(p)
    \/ PutStoredSecretVersion(p)
    \/ RewrapRing(p) \/ ListIds(p) \/ ListRefs(p) \/ RewrapGet(p) \/ UpdateEnvelope(p)
    \/ RewrapDone(p)
    \/ RotateList(p) \/ RotateFindKey(p) \/ RotateGenerateKey(p) \/ RotateKEKVersion(p)
    \/ RetireList(p) \/ RetireCount(p) \/ RetireSet(p)
    \/ Abort(p)

SecretsNext == DeleteStoredSecret \/ \E p \in Requests : Step(p)

SecretsSpec == SecretsInit /\ [][SecretsNext]_secretsVars

-----------------------------------------------------------------------------

\* The types of the tables and of the processes' positions.
SecretsTypeOK ==
    /\ lineage \in [Keks -> {"none", "active", "retiring", "retired"}]
    /\ hsmKeys \subseteq Keks
    /\ id \in 0 .. MaxIds /\ nextId \in 1 .. MaxIds + 1
    /\ current \in 0 .. MaxVersion
    /\ env \in SUBSET Envelopes /\ Cardinality(env) = (IF id = 0 THEN 0 ELSE 1)
    /\ history \in [Versions -> SUBSET Envelopes]
    /\ written \in [Versions -> SUBSET Values]
    /\ puts \in Nat /\ stale \in BOOLEAN /\ forced \subseteq Keks
    /\ \A p \in Requests : req[p].at \in
          {"idle", "seal", "store", "ring", "target", "check", "put", "ids", "refs", "item", "update",
           "key", "generate", "record", "count", "retire"}

\* However rotations and retirements race and die, the recorded lineage has
\* exactly one active version, it is the newest, no version is missing before
\* it, and every version has its key (RotateKEK, RotateKEKVersion).
OneActiveVersion ==
    LET l == Listed(lineage)
        recorded == {k \in Keks : l[k] # "none"}
    IN /\ ActiveIn(l) = {Newest(recorded)}
       /\ recorded = 1 .. Newest(recorded)
       /\ recorded \subseteq hsmKeys

\* The history entry of the current version always equals the registry row,
\* whatever re-wraps and puts race (UpdateStoredSecretEnvelope), and the history
\* holds the newest HistoryDepth versions and no other (PutStoredSecretVersion).
HistoryMirrorsRow ==
    id # 0 =>
        /\ history[current] = env
        /\ {v \in Versions : history[v] # {}} =
              {v \in 1 .. current : HistoryDepth = 0 \/ v + HistoryDepth > current}

\* Every put and rollback that reported success is a version of its own: none
\* of two that raced overwrote the other (ErrSecretVersionConflict).
NoPutLost == id # 0 => current = 1 + puts

\* Every version of the secret decrypts to the value it was stored with: "a
\* re-wrap racing another writer (a concurrent re-wrap or a put) never clobbers
\* newer ciphertext" (UpdateStoredSecretEnvelope).
ValuesKept ==
    \A v \in Versions : \A e \in history[v] : {e.value} = written[v]

\* No envelope is wrapped under a version that was retired without force
\* (RetireKEK: "the fail-closed guard against stranding ciphertext").
NothingStranded ==
    \A v \in Versions : \A e \in history[v] : lineage[e.kek] = "retired" => e.kek \in forced

\* What the two guards rest on.  As long as every writer stores its envelope
\* under the version that is active when it commits, a re-wrap loses no value to
\* its comparison of KEK labels and a retirement strands nothing between its
\* count and its update.
FreshWritesAreSafe == ~stale => ValuesKept /\ NothingStranded
=============================================================================
