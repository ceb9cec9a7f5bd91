---------------------------- MODULE ModelRegistry ----------------------------
(***************************************************************************)
(* The registry of selectable models: the document of one model in         *)
(* MongoDB, the admin calls and the import script that change it, and the  *)
(* read-through cache (model_registry.py) through which the API process    *)
(* reads the list of enabled models.                                       *)
(*                                                                         *)
(* Every write of the document gives the registry a new version, which     *)
(* names the lists read of it and the _id of a document inserted with it.  *)
(* Of the settings that a PATCH may send, `enabled` stands for all but the *)
(* credential.                                                             *)
(***************************************************************************)
EXTENDS Naturals, FiniteSets

CONSTANTS Admins,    \* calls that change the registry
          Readers,   \* calls of get_all_available_models
          TTL,       \* _CACHE_TTL_SECONDS
          MaxClock,  \* a bound on time
          NoModel

ASSUME RegistryAssumption ==
    /\ IsFiniteSet(Admins)
    /\ TTL \in Nat \ {0} /\ MaxClock \in Nat

VARIABLES
    model,     \* the document, NoModel when there is none
    registry,  \* what every read-through copy is of: the version of the
               \* collection and, for each version, when it was superseded
    clock,     \* time.monotonic()
    cache,     \* _cache and _cache_at
    lastGood,  \* _last_good
    admins,    \* each admin call: where it is, what it asks for, what it will save
    lookups    \* each reader: where it is, its `now`, the version it read or serves

registryVars == <<model, registry, clock, cache, lastGood, admins, lookups>>

MaxVersion == Cardinality(Admins)
Versions == 0..MaxVersion
Clock == 0..MaxClock
Keys == {"none", "first", "second"}
Model == [id: Versions, enabled: BOOLEAN, key: Keys]
\* A PATCH that leaves a field out, asks to clear the credential or sends another.
Patch == [enabled: {"kept", "on", "off"}, key: {"kept", "cleared", "second"}]
KeepAll == [enabled |-> "kept", key |-> "kept"]
Cache == [filled: BOOLEAN, version: Versions, at: Clock]
Empty == [filled |-> FALSE, version |-> 0, at |-> 0]

RegistryOp == {"create", "import", "update", "delete"}
AdminPC == {"idle", "insert", "find", "save", "remove", "invalidate", "closed"}
ReaderPC == {"idle", "list", "store", "served", "stale", "none"}

RegistryTypeOK ==
    /\ model \in Model \cup {NoModel}
    /\ registry \in [version: Versions, ended: [Versions -> Clock]]
    /\ clock \in Clock
    /\ cache \in Cache
    /\ lastGood \in [known: BOOLEAN, version: Versions]
    /\ admins \in [Admins -> [pc: AdminPC, op: RegistryOp, patch: Patch,
                              hold: Model \cup {NoModel}]]
    /\ lookups \in [Readers -> [pc: ReaderPC, now: Clock, version: Versions]]

NewAdmin == [pc |-> "idle", op |-> "create", patch |-> KeepAll, hold |-> NoModel]

RegistryInit ==
    /\ model \in {NoModel} \cup [id: {0}, enabled: {TRUE}, key: {"none", "first"}]
    /\ registry = [version |-> 0, ended |-> [v \in Versions |-> 0]]
    /\ clock = 0
    /\ cache = Empty
    /\ lastGood = [known |-> FALSE, version |-> 0]
    /\ admins = [a \in Admins |-> NewAdmin]
    /\ lookups = [r \in Readers |-> [pc |-> "idle", now |-> 0, version |-> 0]]

-----------------------------------------------------------------------------
(* The admin API (model_config_routes.py) over the repository, whose every *)
(* operation is one or two commands to MongoDB.                            *)

AdminAt(a, pc) == admins' = [admins EXCEPT ![a].pc = pc]
AdminEnds(a) == admins' = [admins EXCEPT ![a] = [NewAdmin EXCEPT !.pc = "closed"]]

\* The document becomes m, and with it the collection a new version.
WriteModel(m) ==
    /\ model' = m
    /\ registry' = [version |-> registry.version + 1,
                    ended |-> [registry.ended EXCEPT ![registry.version] = clock]]

\* An id that is taken is refused (create_model) or skipped (import_models).
Finds(a, op) ==
    /\ admins[a].pc = "idle"
    /\ \/ model # NoModel /\ AdminEnds(a)
       \/ /\ model = NoModel
          /\ admins' = [admins EXCEPT ![a].pc = "insert", ![a].op = op]
    /\ UNCHANGED <<model, registry, clock, cache, lastGood, lookups>>
CreateFinds(a) == Finds(a, "create")
ImportFinds(a) == Finds(a, "import")

\* The unique index refuses the second of two. The script runs in a process of its
\* own, whose cache is nobody's.
InsertModel(a) ==
    /\ admins[a].pc = "insert"
    /\ \/ /\ model # NoModel /\ AdminEnds(a)
          /\ UNCHANGED <<model, registry>>
       \/ /\ model = NoModel
          /\ \E key \in {"none", "first"} :
                WriteModel([id |-> registry.version + 1, enabled |-> TRUE, key |-> key])
          /\ IF admins[a].op = "import" THEN AdminEnds(a) ELSE AdminAt(a, "invalidate")
    /\ UNCHANGED <<clock, cache, lastGood, lookups>>

Patched(m, patch) ==
    [m EXCEPT !.enabled = IF patch.enabled = "kept" THEN m.enabled ELSE patch.enabled = "on"]

\* update_model: the settings that are not sent are those of the document now.
UpdateReads(a) ==
    /\ admins[a].pc = "idle"
    /\ \/ model = NoModel /\ AdminEnds(a)
       \/ /\ model # NoModel
          /\ \E patch \in Patch :
                admins' = [admins EXCEPT
                    ![a] = [pc |-> "find", op |-> "update", patch |-> patch,
                            hold |-> Patched(model, patch)]]
    /\ UNCHANGED <<model, registry, clock, cache, lastGood, lookups>>

\* repo.update reads the document again, for the credential alone.
Credential(found, patch) ==
    CASE patch.key = "kept" -> found
      [] patch.key = "cleared" -> "none"
      [] OTHER -> patch.key

UpdateFinds(a) ==
    /\ admins[a].pc = "find"
    /\ \/ model = NoModel /\ AdminAt(a, "invalidate")
       \/ /\ model # NoModel
          /\ admins' = [admins EXCEPT
                ![a].pc = "save",
                ![a].hold = [id |-> model.id, enabled |-> admins[a].hold.enabled,
                             key |-> Credential(model.key, admins[a].patch)]]
    /\ UNCHANGED <<model, registry, clock, cache, lastGood, lookups>>

\* doc.save writes every field, and inserts a document that is gone: unless the id has
\* been registered anew, which the unique index refuses.
UpdateSaves(a) ==
    /\ admins[a].pc = "save"
    /\ IF model # NoModel /\ model.id # admins[a].hold.id
       THEN AdminEnds(a) /\ UNCHANGED <<model, registry>>
       ELSE AdminAt(a, "invalidate") /\ WriteModel(admins[a].hold)
    /\ UNCHANGED <<clock, cache, lastGood, lookups>>

DeleteFinds(a) ==
    /\ admins[a].pc = "idle"
    /\ \/ model = NoModel /\ AdminEnds(a)
       \/ /\ model # NoModel
          /\ admins' = [admins EXCEPT ![a].pc = "remove", ![a].op = "delete",
                                       ![a].hold = model]
    /\ UNCHANGED <<model, registry, clock, cache, lastGood, lookups>>

\* By _id: a document that is gone or was registered anew is left alone.
DeleteRemoves(a) ==
    /\ admins[a].pc = "remove"
    /\ IF model # NoModel /\ model.id = admins[a].hold.id THEN WriteModel(NoModel)
       ELSE UNCHANGED <<model, registry>>
    /\ AdminAt(a, "invalidate")
    /\ UNCHANGED <<clock, cache, lastGood, lookups>>

\* invalidate_registry_cache; _last_good survives.
Invalidate(a) ==
    /\ admins[a].pc = "invalidate"
    /\ cache' = Empty
    /\ AdminEnds(a)
    /\ UNCHANGED <<model, registry, clock, lastGood, lookups>>

AdminStep(a) ==
    \/ CreateFinds(a) \/ ImportFinds(a) \/ InsertModel(a)
    \/ UpdateReads(a) \/ UpdateFinds(a) \/ UpdateSaves(a)
    \/ DeleteFinds(a) \/ DeleteRemoves(a)
    \/ Invalidate(a)

-----------------------------------------------------------------------------
(* get_all_available_models.                                               *)

CacheIsFresh == cache.filled /\ clock < cache.at + TTL

\* The cached list is served at once, or the collection has to be read.
ResolveModels(r) ==
    /\ lookups[r].pc = "idle"
    /\ lookups' = [lookups EXCEPT
          ![r] = IF CacheIsFresh THEN [pc |-> "served", now |-> clock, version |-> cache.version]
                 ELSE [pc |-> "list", now |-> clock, version |-> 0]]
    /\ UNCHANGED <<model, registry, clock, cache, lastGood, admins>>

\* list_all(enabled_only=True)
ListAll(r) ==
    /\ lookups[r].pc = "list"
    /\ lookups' = [lookups EXCEPT ![r].pc = "store", ![r].version = registry.version]
    /\ UNCHANGED <<model, registry, clock, cache, lastGood, admins>>

\* The read fails: the last list that was read serves, or there are no models.
ListFails(r) ==
    /\ lookups[r].pc = "list"
    /\ lookups' = [lookups EXCEPT ![r].pc = IF lastGood.known THEN "stale" ELSE "none",
                                  ![r].version = lastGood.version]
    /\ UNCHANGED <<model, registry, clock, cache, lastGood, admins>>

\* A fault of FilledBy: the age of the copy counts from the end of the read.
FilledByLate(r) == [filled |-> TRUE, version |-> lookups[r].version, at |-> clock]

\* _cache_at is the `now` of before the read.
FilledBy(r) == [filled |-> TRUE, version |-> lookups[r].version, at |-> lookups[r].now]

StoreList(r) ==
    /\ lookups[r].pc = "store"
    /\ cache' = FilledBy(r)
    /\ lastGood' = [known |-> TRUE, version |-> lookups[r].version]
    /\ lookups' = [lookups EXCEPT ![r].pc = "served"]
    /\ UNCHANGED <<model, registry, clock, admins>>

ReaderStep(r) == ResolveModels(r) \/ ListAll(r) \/ ListFails(r) \/ StoreList(r)

ClockTicks ==
    /\ clock < MaxClock
    /\ clock' = clock + 1
    /\ UNCHANGED <<model, registry, cache, lastGood, admins, lookups>>

RegistryNext ==
    \/ ClockTicks
    \/ \E a \in Admins : AdminStep(a)
    \/ \E r \in Readers : ReaderStep(r)

RegistrySpec == RegistryInit /\ [][RegistryNext]_registryVars

-----------------------------------------------------------------------------
\* No call of get_all_available_models gets a list, read or cached, that had been out
\* of date for the TTL or longer when the call began, whatever edits, invalidations
\* and slow reads overlap; a fallback after a failed read apart (model_registry.py:
\* "a few seconds of staleness is a good trade").
StaleBounded ==
    \A r \in Readers :
        lookups[r].pc = "served" =>
            \/ lookups[r].version = registry.version
            \/ lookups[r].now < registry.ended[lookups[r].version] + TTL

\* What UpdateModelConfigRequest says of a PATCH: "an edit to an unrelated field can
\* never silently drop a key". A saved PATCH without a credential leaves the stored
\* one as it is.
KeyKept ==
    [][\A a \in Admins :
          UpdateSaves(a) /\ admins[a].patch.key = "kept" /\ model # NoModel
              => model'.key = model.key]_registryVars

\* What model_registry.py says of admin edits: they invalidate the cache and "take effect
\* immediately rather than after the TTL". When no call is under way and the last write
\* was a PATCH or a DELETE, the cached list is one that was read after it. (A write whose
\* version is the _id of the document was an insertion, which the import script makes
\* too.)
EditsImmediate ==
    /\ \A a \in Admins : admins[a].pc \in {"idle", "closed"}
    /\ model # NoModel => model.id # registry.version
    /\ CacheIsFresh
    => cache.version = registry.version
=============================================================================
