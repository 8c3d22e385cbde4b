----------------------------- MODULE Duplicates -----------------------------
(***************************************************************************)
(* Entity identity and the maintenance of duplicates: upserts and their    *)
(* derived ids (engine.go, id.go), identity resolution, the redirects a    *)
(* read follows (history.go), the near-duplicate guard of `fact assert',   *)
(* `entity merge' (fact_cmd.go) and `admin compact' (merge.go,             *)
(* admin_cmd.go).                                                          *)
(*                                                                         *)
(* A CLI command holds writable ownership of the database from its first   *)
(* read to its last write (module Ownership), so a command that commits    *)
(* once is one step.  Compaction commits once per candidate and may stop   *)
(* between two commits.                                                    *)
(*                                                                         *)
(* What is abstracted: of an entity's metadata only stable_key,            *)
(* duplicate_of and the presence of _history are kept; drift summaries and *)
(* marks' timestamps are dropped; a fact's identity is its subject and one *)
(* value for everything else factIdentityOf compares.  All ids are entity  *)
(* or fact ids (Engine checks that kinds never share one).                 *)
(***************************************************************************)
EXTENDS Naturals, FiniteSets

CONSTANTS
    IDs,             \* entity ids; their order is the order of the id texts
    Words,           \* namespaces, types, display names and stable keys
    Blank,           \* the word that is empty once trimmed
    None,            \* an absent id, key or metadata entry
    Fold,            \* [Words -> Words]: trimmed and lower-cased
    DerivedID,       \* [Words \X Words \X Words -> IDs]: EntityID, exact
    LegacyID,        \* the same for the slug of earlier releases, not exact
    DefaultSpace,    \* the space `fact assert' writes to
    Clienteles,      \* name -> what the callers of one database ask for (Clientele below)
    MaxHops          \* bound on a redirect chain (64 in the code)

EntityInput == [id : IDs \cup {None}, space : STRING, namespace : Words, type : Words,
                name : Words, aliases : SUBSET Words, key : Words,
                duplicateOf : IDs \cup {None, Blank}, carriesLog : BOOLEAN]
FactInput == [id : Nat, subject : IDs, content : STRING, confidence : Nat, observed : Nat]

(* What the callers of one database ask for: the entities and facts they    *)
(* write, the subjects and objects offered to --upsert-subject/-object,     *)
(* <<target, set of sources>> given to `entity merge', and whether `admin   *)
(* compact --apply' is run.                                                 *)
Clientele == [entities : SUBSET EntityInput, facts : SUBSET FactInput,
              automatic : SUBSET EntityInput, merges : SUBSET (IDs \X SUBSET IDs),
              compacts : BOOLEAN]

ASSUME InputAssumption ==
    /\ IDs \subseteq Nat
    /\ Blank \in Words /\ Blank \notin IDs /\ None \notin IDs /\ None \notin Words
    /\ Fold \in [Words -> Words]
    /\ \A w \in Words : Fold[w] = Blank <=> w = Blank
    /\ DerivedID \in [Words \X Words \X Words -> IDs]
    /\ \A s, t \in Words \X Words \X Words : DerivedID[s] = DerivedID[t] => s = t
    /\ LegacyID \in [Words \X Words \X Words -> IDs]
    /\ \A name \in DOMAIN Clienteles : LET c == Clienteles[name] IN
         /\ \A in \in c.entities : in \in EntityInput /\ ~in.carriesLog
         /\ \A in \in c.automatic :
              /\ in \in EntityInput /\ in.id = None /\ in.space = DefaultSpace
              /\ in.aliases = {} /\ in.duplicateOf = None /\ ~in.carriesLog
         /\ c.facts \subseteq FactInput
         /\ \A r \in c.merges : r[1] \in IDs /\ r[2] \subseteq IDs
         /\ c.compacts \in BOOLEAN
    /\ MaxHops \in Nat

VARIABLES
    clientele,  \* the name of those who use this database
    entities,   \* id -> record
    facts,      \* id -> record
    window,     \* the maintenance window of `admin compact --apply'
    writer      \* who made the last change, for the action properties only

vars == <<clientele, entities, facts, window, writer>>

Entity == [space : STRING, namespace : Words, type : Words, name : Words,
           aliases : SUBSET Words, key : Words,
           duplicateOf : IDs \cup {None, Blank},   \* None: no such metadata key
           logged : BOOLEAN]                       \* metadata holds _history
Callers == Clienteles[clientele]

Fact == [subject : IDs, content : STRING, confidence : Nat, observed : Nat,
         status : {"active", "retracted"}, retractedFor : Nat \cup {None}]

Put(map, id, record) ==
    [x \in DOMAIN map \cup {id} |-> IF x = id THEN record ELSE map[x]]
Lowest(S) == CHOOSE x \in S : \A y \in S : x <= y

Marked(e) == e.duplicateOf \notin {None, Blank}

-----------------------------------------------------------------------------
(* Identity (id.go, engine.go).                                            *)

IdentityWord(in) == IF in.key # Blank THEN in.key ELSE in.name
Derived(in) == DerivedID[<<in.namespace, in.type, IdentityWord(in)>>]
Legacy(in)  == LegacyID[<<in.namespace, in.type, IdentityWord(in)>>]

(* entityIdentityMatches: the strong key decides as soon as one side has   *)
(* one.                                                                    *)
IdentityMatches(e, in) ==
    /\ e.namespace = in.namespace /\ e.type = in.type
    /\ IF in.key # Blank \/ e.key # Blank THEN in.key = e.key ELSE e.name = in.name

(* legacyEntityIdentityMatches.                                            *)
LegacyMatches(e, in) ==
    /\ e.namespace = in.namespace /\ e.type = in.type
    /\ IF in.key # Blank THEN in.key = e.key ELSE e.key = Blank /\ e.name = in.name

(* The record an upsert writes to: the id it names, or the derived one,    *)
(* unless only the legacy form of the same identity is stored.             *)
UpsertID(es, in) ==
    CASE in.id # None -> in.id
      [] /\ in.id = None
         /\ Derived(in) \notin DOMAIN es
         /\ Legacy(in) \in DOMAIN es
         /\ LegacyMatches(es[Legacy(in)], in) -> Legacy(in)
      [] OTHER -> Derived(in)

Compatible(a, b) == a = Blank \/ b = Blank \/ a = b

(* upsertEntityLocked refuses metadata that carries the engine's own log,  *)
(* and a record of another identity, space, namespace or type.             *)
UpsertAccepted(es, in) ==
    LET id == UpsertID(es, in)
    IN  /\ ~in.carriesLog
        /\ id \in DOMAIN es =>
             /\ in.id = None => IdentityMatches(es[id], in)
             /\ es[id].space = in.space
             /\ Compatible(es[id].namespace, in.namespace)
             /\ Compatible(es[id].type, in.type)

Created(in) ==
    [space |-> in.space, namespace |-> in.namespace, type |-> in.type, name |-> in.name,
     aliases |-> in.aliases, key |-> in.key, duplicateOf |-> in.duplicateOf, logged |-> FALSE]
(* An update logs the version it replaces in the metadata; metadata is     *)
(* merged and no entry ever leaves it.                                     *)
Updated(e, in) ==
    [e EXCEPT !.namespace = IF @ # Blank THEN @ ELSE in.namespace,
              !.type = IF @ # Blank THEN @ ELSE in.type,
              !.name = in.name,
              !.aliases = @ \cup in.aliases,
              !.key = IF in.key # Blank THEN in.key ELSE @,
              !.duplicateOf = IF in.duplicateOf # None THEN in.duplicateOf ELSE @,
              !.logged = TRUE]
Upserted(es, in) ==
    LET id == UpsertID(es, in)
    IN  Put(es, id, IF id \in DOMAIN es THEN Updated(es[id], in) ELSE Created(in))

DisplayNames(e) == {Fold[w] : w \in e.aliases \cup {e.name}}

(* entityMatchesResolveRequest: what still refers to the same conceptual   *)
(* entity; keyDrift lets a key on one side only be overlooked.             *)
Resolves(e, in, keyDrift) ==
    /\ Fold[e.type] = Fold[in.type]
    /\ Blank \in {e.namespace, in.namespace} \/ Fold[e.namespace] = Fold[in.namespace]
    /\ \/ /\ e.key # Blank /\ in.key # Blank
          /\ e.key = in.key
       \/ /\ (e.key = Blank) # (in.key = Blank)
          /\ keyDrift /\ Fold[in.name] \in DisplayNames(e)
       \/ /\ e.key = Blank /\ in.key = Blank
          /\ Fold[in.name] \in DisplayNames(e)

(* The match is reported as drift unless it is the exact tuple.            *)
Drifts(e, in) ==
    \/ e.type # in.type \/ e.namespace # in.namespace
    \/ (e.key = Blank) # (in.key = Blank)
    \/ e.key = Blank /\ e.name # in.name

(* ResolveEntity: the matches of a space, merged duplicates on demand.     *)
ResolveEntity(es, space, in, keyDrift, includeMarked) ==
    {id \in DOMAIN es : /\ es[id].space = space
                        /\ includeMarked \/ ~Marked(es[id])
                        /\ Resolves(es[id], in, keyDrift)}

-----------------------------------------------------------------------------
(* The redirect a read follows (history.go): es holds the versions visible *)
(* at the instant asked for.                                               *)

(* Mutant of Redirect: the space of the target is not looked at.           *)
RedirectAnywhere(es, id) ==
    IF id \in DOMAIN es /\ Marked(es[id]) /\ es[id].duplicateOf # id
       /\ es[id].duplicateOf \in DOMAIN es
    THEN es[id].duplicateOf
    ELSE None

(* One hop, when it may be trusted.                                        *)
Redirect(es, id) ==
    IF id \in DOMAIN es /\ Marked(es[id]) /\ es[id].duplicateOf # id
       /\ es[id].duplicateOf \in DOMAIN es
       /\ es[es[id].duplicateOf].space = es[id].space
    THEN es[id].duplicateOf
    ELSE None

(* canonicalEntityIDAtLocked: the record looked at in each turn of the     *)
(* loop, None once a hop could not be trusted.  At most MaxHops records    *)
(* are looked at, so a loop of marks needs no other guard.                 *)
Hops(es, id) ==
    LET current[hop \in 0..MaxHops] == IF hop = 0 THEN id ELSE Redirect(es, current[hop - 1])
    IN  current

(* A record without a mark ends the chain; an entry that is present but    *)
(* blank is no end.                                                        *)
IsEnd(es, id) == id \in DOMAIN es /\ es[id].duplicateOf = None
EndHops(es, id) == {hop \in 0..(MaxHops - 1) : IsEnd(es, Hops(es, id)[hop])}

(* Any other chain answers with the id it started from.                    *)
CanonicalID(es, id) ==
    IF EndHops(es, id) = {} THEN id ELSE Hops(es, id)[CHOOSE hop \in EndHops(es, id) : TRUE]

(* LookupFacts: anchor and endpoint are both compared in canonical form.   *)
FactsOf(es, fs, anchor) ==
    {f \in DOMAIN fs : /\ fs[f].status = "active"
                       /\ CanonicalID(es, fs[f].subject) = CanonicalID(es, anchor)}

-----------------------------------------------------------------------------
NoWindow == [phase |-> "closed", groups |-> {}, retractions |-> {}]

Init ==
    /\ clientele \in DOMAIN Clienteles
    /\ entities = [x \in {} |-> None]
    /\ facts = [x \in {} |-> None]
    /\ window = NoWindow
    /\ writer = "none"

(* One entity of UpsertEntity or IngestBatch.                              *)
UpsertEntity ==
    /\ window = NoWindow
    /\ \E in \in Callers.entities :
        /\ UpsertAccepted(entities, in)
        /\ entities' = Upserted(entities, in)
    /\ writer' = "caller"
    /\ UNCHANGED <<clientele, facts, window>>

NewFact(subject, in) ==
    [subject |-> subject, content |-> in.content, confidence |-> in.confidence,
     observed |-> in.observed, status |-> "active", retractedFor |-> None]

(* A fact is accepted on the raw id of its subject, merged or not.         *)
AssertFact ==
    /\ window = NoWindow
    /\ \E in \in Callers.facts :
        /\ in.id \notin DOMAIN facts /\ in.subject \in DOMAIN entities
        /\ facts' = Put(facts, in.id, NewFact(in.subject, in))
    /\ writer' = "caller"
    /\ UNCHANGED <<clientele, entities, window>>

RetractFact ==
    /\ window = NoWindow
    /\ \E f \in DOMAIN facts :
        /\ facts[f].status = "active"
        /\ facts' = [facts EXCEPT ![f].status = "retracted"]
    /\ writer' = "caller"
    /\ UNCHANGED <<clientele, entities, window>>

-----------------------------------------------------------------------------
(* `fact assert --upsert-subject' and `--upsert-object' (fact_cmd.go).     *)

(* guardEntityNearDuplicate: a new derived id is refused when any entity,  *)
(* merged or not, already carries the identity, except the exact legacy    *)
(* form, which the upsert then reuses.                                     *)
GuardPasses(es, in) ==
    LET derived == Derived(in)
        matches == ResolveEntity(es, DefaultSpace, in, TRUE, TRUE)
    IN  \/ derived \in DOMAIN es /\ ~Marked(es[derived])
        \/ /\ derived \notin DOMAIN es
           /\ \/ matches = {}
              \/ /\ matches = {Legacy(in)}
                 /\ ~Marked(es[Legacy(in)]) /\ ~Drifts(es[Legacy(in)], in)

AsStored(in) == [Created(in) EXCEPT !.duplicateOf = None]

(* EntityInputsMatchIdentity: two entities the same command would create   *)
(* must not be one identity under two ids.                                 *)
PendingDistinct(subject, object) ==
    \/ Derived(subject) = Derived(object)
    \/ ~Resolves(AsStored(subject), object, TRUE) /\ ~Resolves(AsStored(object), subject, TRUE)

(* rewriteFactReference: a derived reference becomes the id the upsert of  *)
(* the same batch wrote to.                                                *)
Reference(es, in) == UpsertID(es, in)

(* Mutant of ReferencesAgree: the batch lets the second side rename it.    *)
LastReferenceWins(es, subject, object) == TRUE

(* IngestBatch: a derived reference that two sides of the batch share      *)
(* names one record, or the whole batch is refused.                        *)
ReferencesAgree(es, subject, object) ==
    Derived(subject) = Derived(object)
        => UpsertID(es, subject) = UpsertID(Upserted(es, subject), object)

(* The guards, then the entities and the fact in one IngestBatch, whose    *)
(* refusals leave nothing behind.                                          *)
AutomaticAssert ==
    /\ window = NoWindow
    /\ \E subject \in Callers.automatic, object \in Callers.automatic \cup {None},
          in \in Callers.facts :
        LET withSubject == Upserted(entities, subject)
        IN  /\ GuardPasses(entities, subject)
            /\ object # None => GuardPasses(entities, object) /\ PendingDistinct(subject, object)
            /\ UpsertAccepted(entities, subject)
            /\ object # None => /\ UpsertAccepted(withSubject, object)
                                /\ ReferencesAgree(entities, subject, object)
            /\ in.id \notin DOMAIN facts
            /\ entities' = IF object = None THEN withSubject ELSE Upserted(withSubject, object)
            /\ facts' = Put(facts, in.id, NewFact(Reference(entities, subject), in))
    /\ writer' = "automatic"
    /\ UNCHANGED <<clientele, window>>

-----------------------------------------------------------------------------
(* `entity merge' (mergeEntities).                                         *)

NamesOverlap(e, f) ==
    IF e.key # Blank /\ f.key # Blank THEN e.key = f.key
    ELSE DisplayNames(e) \cap DisplayNames(f) # {}

(* What one source must satisfy against the target.                        *)
Mergeable(es, target, source) ==
    LET t == es[target]
        s == es[source]
    IN  /\ source # target
        /\ ~Marked(s)
        /\ s.space = t.space
        /\ Compatible(s.key, t.key)
        /\ s.namespace # t.namespace =>
             /\ Blank \in {s.namespace, t.namespace} \/ Fold[s.namespace] = Fold[t.namespace]
             /\ NamesOverlap(t, s)
        /\ Fold[s.type] = Fold[t.type]

Unmarked(es) == {id \in DOMAIN es : ~Marked(es[id])}

(* buildEntityDriftCandidates, the wider view of `entity merge-preview':   *)
(* one display name per space and type.                                    *)
DriftGroup(es, id) ==
    {x \in Unmarked(es) : /\ es[x].space = es[id].space
                          /\ Fold[es[x].type] = Fold[es[id].type]
                          /\ Fold[es[x].name] = Fold[es[id].name]}

(* partitionEntityDriftGroups: a blank namespace joins the only populated  *)
(* one.                                                                    *)
ScopeSubgroup(es, id) ==
    LET scopes == {Fold[es[x].namespace] : x \in DriftGroup(es, id)} \ {Blank}
    IN  {x \in DriftGroup(es, id) :
            Cardinality(scopes) = 1 \/ Fold[es[x].namespace] = Fold[es[id].namespace]}

(* Mutant of KeyBucket: two distinct keys share a candidate.               *)
KeyBucketOfAnyKey(es, id) == ScopeSubgroup(es, id)

(* entityDriftCandidatesForSubgroup: the unkeyed entities join the only    *)
(* key.                                                                    *)
KeyBucket(es, id) ==
    LET keys == {es[x].key : x \in ScopeSubgroup(es, id)} \ {Blank}
    IN  {x \in ScopeSubgroup(es, id) : Cardinality(keys) = 1 \/ es[x].key = es[id].key}

PreviewGroups(es) == {g \in {KeyBucket(es, id) : id \in Unmarked(es)} : Cardinality(g) >= 2}

(* The batch writes each participant back with the metadata it was read    *)
(* with, so a participant that was ever updated carries the engine's log   *)
(* and the batch is refused as a whole.                                    *)
ReadBack(es, id) == [id |-> id, space |-> es[id].space, namespace |-> es[id].namespace,
                     type |-> es[id].type, name |-> es[id].name, aliases |-> es[id].aliases,
                     key |-> Blank, duplicateOf |-> es[id].duplicateOf,
                     carriesLog |-> es[id].logged]
MarkInput(es, source, target) == [ReadBack(es, source) EXCEPT !.duplicateOf = target]
MergedAliases(es, target, sources) ==
    es[target].aliases \cup UNION {es[s].aliases \cup {es[s].name} : s \in sources}

BatchAccepted(es, target, sources) ==
    \A id \in sources \cup {target} : UpsertAccepted(es, ReadBack(es, id))
MarkedBy(es, target, sources, aliases) ==
    [id \in DOMAIN es |->
        CASE id \in sources -> Updated(es[id], MarkInput(es, id, target))
          [] id = target -> Updated(es[id], [ReadBack(es, id) EXCEPT !.aliases = aliases])
          [] OTHER -> es[id]]

MergeEntities ==
    /\ window = NoWindow
    /\ \E request \in Callers.merges :
        LET target == request[1]
            sources == request[2]
        IN  /\ sources \cup {target} \subseteq DOMAIN entities
            /\ ~Marked(entities[target])
            /\ \A s \in sources : Mergeable(entities, target, s)
            /\ BatchAccepted(entities, target, sources)
            /\ entities' = MarkedBy(entities, target, sources, MergedAliases(entities, target, sources))
    /\ writer' = "merge"
    /\ UNCHANGED <<clientele, facts, window>>

-----------------------------------------------------------------------------
(* `admin compact --apply' (merge.go, admin_cmd.go).                       *)

(* Mutant of SameIdentity: the stable key is not compared.                 *)
SameNameAndScope(e, f) ==
    <<e.space, e.namespace, e.type, e.name>> = <<f.space, f.namespace, f.type, f.name>>

(* entityIdentityKey, compared exactly.                                    *)
SameIdentity(e, f) ==
    <<e.space, e.namespace, e.type, e.name, e.key>> = <<f.space, f.namespace, f.type, f.name, f.key>>

IdentityGroup(es, id) == {x \in Unmarked(es) : SameIdentity(es[x], es[id])}

(* Mutant of EntityGroups: only pairs are taken for duplicates.            *)
EntityPairs(es) == {g \in {IdentityGroup(es, id) : id \in Unmarked(es)} : Cardinality(g) = 2}

(* buildEntityMergeCandidates: the unmarked entities of one identity.      *)
EntityGroups(es) == {g \in {IdentityGroup(es, id) : id \in Unmarked(es)} : Cardinality(g) >= 2}

(* Mutant of SurvivesBefore: the oldest observation is kept.               *)
SurvivesBeforeIfOlder(fs, f, g) ==
    \/ fs[f].confidence > fs[g].confidence
    \/ /\ fs[f].confidence = fs[g].confidence
       /\ \/ fs[f].observed < fs[g].observed
          \/ fs[f].observed = fs[g].observed /\ f < g

(* factSurvivorBefore: confidence, then the latest observation, then id.   *)
SurvivesBefore(fs, f, g) ==
    \/ fs[f].confidence > fs[g].confidence
    \/ /\ fs[f].confidence = fs[g].confidence
       /\ \/ fs[f].observed > fs[g].observed
          \/ fs[f].observed = fs[g].observed /\ f < g

FactIdentity(f) == <<f.subject, f.content>>

(* buildFactDuplicateCandidates: each duplicate of an active fact with the *)
(* fact that survives it.                                                  *)
FactRetractions(fs) ==
    LET active == {f \in DOMAIN fs : fs[f].status = "active"}
        same(f) == {g \in active : FactIdentity(fs[g]) = FactIdentity(fs[f])}
        survivor(f) == CHOOSE g \in same(f) : \A h \in same(f) \ {g} : SurvivesBefore(fs, g, h)
    IN  {<<f, survivor(f)>> : f \in {g \in active : survivor(g) # g}}

(* The window opens with writable ownership; the plan is read inside it.   *)
BeginCompaction ==
    /\ Callers.compacts
    /\ window = NoWindow
    /\ window' = [phase |-> "entities", groups |-> EntityGroups(entities),
                  retractions |-> FactRetractions(facts)]
    /\ UNCHANGED <<clientele, entities, facts, writer>>

NextGroup == CHOOSE g \in window.groups : \A h \in window.groups : Lowest(g) <= Lowest(h)

(* applyEntityMergeCandidate: one commit per group, the lowest id absorbs  *)
(* the others.                                                             *)
CompactEntities ==
    /\ window.phase = "entities" /\ window.groups # {}
    /\ LET target == Lowest(NextGroup)
           sources == NextGroup \ {target}
       IN  /\ BatchAccepted(entities, target, sources)
           /\ entities' = MarkedBy(entities, target, sources, entities[target].aliases)
    /\ window' = [window EXCEPT !.groups = @ \ {NextGroup}]
    /\ writer' = "compaction"
    /\ UNCHANGED <<clientele, facts>>

(* The first refused batch ends the command; what was committed stays.     *)
CompactionRefused ==
    /\ window.phase = "entities" /\ window.groups # {}
    /\ ~BatchAccepted(entities, Lowest(NextGroup), NextGroup \ {Lowest(NextGroup)})
    /\ window' = NoWindow
    /\ UNCHANGED <<clientele, entities, facts, writer>>

(* The retractions follow, survivor by survivor, one commit each.          *)
NextRetraction ==
    CHOOSE r \in window.retractions : \A q \in window.retractions :
        r[2] < q[2] \/ (r[2] = q[2] /\ r[1] <= q[1])
CompactFact ==
    /\ window.phase = "entities" /\ window.groups = {} /\ window.retractions # {}
    /\ facts' = [facts EXCEPT ![NextRetraction[1]].status = "retracted",
                              ![NextRetraction[1]].retractedFor = NextRetraction[2]]
    /\ window' = [window EXCEPT !.retractions = @ \ {NextRetraction}]
    /\ writer' = "compaction"
    /\ UNCHANGED <<clientele, entities>>

EndCompaction ==
    /\ window.phase = "entities" /\ window.groups = {} /\ window.retractions = {}
    /\ window' = [window EXCEPT !.phase = "finished"]
    /\ UNCHANGED <<clientele, entities, facts, writer>>
Report ==
    /\ window.phase = "finished"
    /\ window' = NoWindow
    /\ UNCHANGED <<clientele, entities, facts, writer>>

(* The process dies, or a commit fails, between two commits.               *)
CompactionStops ==
    /\ window.phase = "entities"
    /\ window' = NoWindow
    /\ UNCHANGED <<clientele, entities, facts, writer>>

Next ==
    \/ UpsertEntity
    \/ AssertFact
    \/ RetractFact
    \/ AutomaticAssert
    \/ MergeEntities
    \/ BeginCompaction
    \/ CompactEntities
    \/ CompactionRefused
    \/ CompactFact
    \/ EndCompaction
    \/ Report
    \/ CompactionStops

Spec == Init /\ [][Next]_vars
-----------------------------------------------------------------------------
TypeOK ==
    /\ clientele \in DOMAIN Clienteles
    /\ DOMAIN entities \subseteq IDs /\ IsFiniteSet(DOMAIN entities)
    /\ entities \in [DOMAIN entities -> Entity]
    /\ DOMAIN facts \subseteq Nat /\ IsFiniteSet(DOMAIN facts)
    /\ facts \in [DOMAIN facts -> Fact]
    /\ DOMAIN window = {"phase", "groups", "retractions"}
    /\ window.phase \in {"closed", "entities", "finished"}
    /\ window.phase = "closed" => window = NoWindow

(***************************************************************************)
(* A redirect is safe to follow (canonicalEntityIDAtLocked), whatever      *)
(* marks callers wrote, loops, dangling and cross-space ones included: it  *)
(* ends in an entity of the same space that has no mark of its own and     *)
(* reads as itself, and every entity on the way ends there too; anything   *)
(* else reads as itself.                                                   *)
(***************************************************************************)
RedirectsEndInCanonicalEntities ==
    \A id \in DOMAIN entities :
        LET c == CanonicalID(entities, id)
        IN  c # id =>
              /\ c \in DOMAIN entities /\ entities[c].duplicateOf = None
              /\ entities[c].space = entities[id].space
              /\ CanonicalID(entities, c) = c
              /\ CanonicalID(entities, entities[id].duplicateOf) = c

(***************************************************************************)
(* What the preview proposes, the merge accepts (merge.go against          *)
(* fact_cmd.go): in every candidate of `entity merge-preview' each source  *)
(* passes the checks of `entity merge' into the target it names, and no    *)
(* two candidates claim one entity.                                        *)
(***************************************************************************)
PreviewIsMergeable ==
    \A g \in PreviewGroups(entities) :
        /\ \A s \in g \ {Lowest(g)} : Mergeable(entities, Lowest(g), s)
        /\ \A s, t \in g : Compatible(entities[s].key, entities[t].key)
        /\ \A h \in PreviewGroups(entities) : g # h => g \cap h = {}

(***************************************************************************)
(* `fact assert' with automatic upserts never splits one identity, and     *)
(* never writes behind a redirect: an entity it creates matches no other   *)
(* entity of the space, merged ones and the other side of the same fact    *)
(* included, and its fact is attached to an entity not merged away.  The   *)
(* guards of the command do not compare two sides that derive one id, the  *)
(* key of one being the name of the other, of which one may be stored      *)
(* under the id of an earlier release; IngestBatch refuses those.          *)
(***************************************************************************)
AsRequest(id, e) == [id |-> id, space |-> e.space, namespace |-> e.namespace, type |-> e.type,
                     name |-> e.name, aliases |-> e.aliases, key |-> e.key,
                     duplicateOf |-> None, carriesLog |-> FALSE]
AloneInItsIdentity(es, id) ==
    ResolveEntity(es, DefaultSpace, AsRequest(id, es[id]), TRUE, TRUE) = {id}

AutomaticAssertKeepsIdentities ==
    [][writer' = "automatic" =>
          /\ \A new \in DOMAIN entities' \ DOMAIN entities : AloneInItsIdentity(entities', new)
          /\ \A f \in DOMAIN facts' \ DOMAIN facts : ~Marked(entities'[facts'[f].subject])]_vars

(***************************************************************************)
(* Compaction never loses a statement, wherever it was interrupted and     *)
(* whatever was written between two windows: each fact it retracted names  *)
(* a fact of the same identity that the documented order prefers, so       *)
(* following those names ends in a fact only a caller may have retracted.  *)
(***************************************************************************)
Preferred(f, g) ==
    \/ facts[f].confidence > facts[g].confidence
    \/ /\ facts[f].confidence = facts[g].confidence
       /\ \/ facts[f].observed > facts[g].observed
          \/ facts[f].observed = facts[g].observed /\ f < g
CompactionKeepsASurvivor ==
    \A f \in DOMAIN facts :
        facts[f].retractedFor # None =>
            LET survivor == facts[f].retractedFor
            IN  /\ survivor \in DOMAIN facts /\ Preferred(survivor, f)
                /\ FactIdentity(facts[survivor]) = FactIdentity(facts[f])

(* A window that ran to its end leaves nothing to compact: no two unmarked *)
(* entities of one identity, no two active copies of one fact.             *)
FinishedCompactionLeavesNoDuplicates ==
    window.phase = "finished" =>
        /\ \A id, other \in DOMAIN entities :
              id # other /\ SameIdentity(entities[id], entities[other])
                => Marked(entities[id]) \/ Marked(entities[other])
        /\ \A f, g \in DOMAIN facts :
              f # g /\ facts[f].status = "active" /\ facts[g].status = "active"
                => FactIdentity(facts[f]) # FactIdentity(facts[g])

(***************************************************************************)
(* Merging gathers what belongs together and nothing else, whatever marks  *)
(* callers wrote.  No `entity merge' and no compaction commit makes a      *)
(* lookup by any entity lose a fact it answered before ("stored facts are  *)
(* not rewritten"), unless the chain that leads to one of them now fails   *)
(* closed: it got one hop too long, or meets a blank entry.  And a         *)
(* compaction makes two entities read as one only when what they read as   *)
(* before had one complete identity, stable key included.                  *)
(***************************************************************************)
FailsClosed(es, id) ==
    \E hop \in 0..MaxHops :
        LET current == Hops(es, id)[hop]
        IN  /\ current \in DOMAIN es
            /\ \/ es[current].duplicateOf = Blank
               \/ hop = MaxHops /\ IsEnd(es, current)

KeepsAnswers(old, new) ==
    \A id \in DOMAIN old :
        ~FailsClosed(new, id) =>
            \A f \in FactsOf(old, facts, id) :
                f \in FactsOf(new, facts, id) \/ FailsClosed(new, facts[f].subject)

Indistinguishable(e, f) == \A field \in {"space", "namespace", "type", "name", "key"} : e[field] = f[field]
JoinsIdentities(old, new) ==
    \A id, other \in DOMAIN old :
        CanonicalID(new, id) = CanonicalID(new, other) =>
            \/ Indistinguishable(old[CanonicalID(old, id)], old[CanonicalID(old, other)])
            \/ FailsClosed(old, id) \/ FailsClosed(old, other)

MergesGatherWhatBelongsTogether ==
    [][writer' \in {"merge", "compaction"} /\ facts' = facts =>
          /\ KeepsAnswers(entities, entities')
          /\ writer' = "compaction" => JoinsIdentities(entities, entities')]_vars

-----------------------------------------------------------------------------
(* What the proofs add to make these properties inductive.                 *)

(* The window keeps what is left to do, as if it had just been planned.    *)
PlanIsCurrent ==
    /\ window.phase # "closed" =>
          window.groups = EntityGroups(entities) /\ window.retractions = FactRetractions(facts)
    /\ window.phase = "finished" => window.groups = {} /\ window.retractions = {}

IInv == TypeOK /\ PlanIsCurrent /\ CompactionKeepsASurvivor

=============================================================================
