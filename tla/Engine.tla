------------------------------- MODULE Engine -------------------------------
(***************************************************************************)
(* The memory engine of pkg/yeoul/engine.go: the record maps guarded by    *)
(* one RWMutex, the mutations that change them, the append-only revision   *)
(* log kept beside them (temporal.go) and the as-of reads that rebuild an  *)
(* earlier state from that log (temporal_index.go).                        *)
(*                                                                         *)
(* What is kept: every map, the id sequence, the pinned transaction time,  *)
(* the rollback snapshot, every stamp, and every check that decides        *)
(* whether a write is accepted.                                            *)
(*                                                                         *)
(* What is abstracted: payloads (episode content, entity names, aliases    *)
(* and metadata are one value each; a fact's value text is dropped), the   *)
(* derivation of an entity id from its name (an input names the id it      *)
(* resolves to) and the reasons a write is refused before it changes       *)
(* anything: such a write is an Abort.                                     *)
(***************************************************************************)
EXTENDS Naturals, FiniteSets

CONSTANTS
    CallerIDs,      \* ids a caller may name, or derive, for its own records
    None,           \* no id: the engine generates one; no object; no link
    EpisodeInputs,  \* the episodes offered to IngestEpisode and IngestBatch
    EntityInputs,   \* the entities offered to UpsertEntity and IngestBatch
    FactInputs,     \* the facts offered to AssertFact, SupersedeFact and IngestBatch
    ClockMode,      \* how the wall clock behaves between two mutations
    Cuts,           \* the instants an as-of read may ask for
    MaxTime,        \* bound: the wall clock stays at or below it
    MaxSequence     \* bound: the id sequence stays at or below it

(***************************************************************************)
(* A generated id is the pair of its prefix and the sequence number it     *)
(* embeds ("factrev_000042" is <<"factrev", 42>>).  A caller may name an   *)
(* id of the same shape.                                                   *)
(***************************************************************************)
Prefixes == {"ep", "fact", "factrev", "entityrev"}
GeneratedID(prefix, n) == <<prefix, n>>
ID == CallerIDs \cup (Prefixes \X Nat)

EpisodeInput == [id : CallerIDs \cup {None}, space : STRING, content : STRING, source : CallerIDs,
                 observed : Nat]
EntityInput  == [id : CallerIDs, space : STRING, value : STRING]
FactInput    == [id : CallerIDs \cup {None}, space : STRING, predicate : STRING,
                 subject : ID, object : ID \cup {None}, support : SUBSET ID,
                 single : BOOLEAN, validFrom : Nat, validTo : Nat, observed : Nat]

(***************************************************************************)
(* "stalling":  the clock never goes back but may read the same instant    *)
(*              for several mutations (the coarse Windows clock).          *)
(* "stepping":  a wall clock adjustment may also move it back.             *)
(***************************************************************************)
ASSUME InputAssumption ==
    /\ None \notin ID
    /\ EpisodeInputs \subseteq EpisodeInput
    /\ EntityInputs \subseteq EntityInput
    /\ FactInputs \subseteq FactInput

ASSUME ClockAssumption ==
    /\ ClockMode \in {"stalling", "stepping"}
    /\ MaxTime \in Nat
    /\ MaxSequence \in Nat
    /\ Cuts \subseteq Nat

VARIABLES
    clock,      \* what time.Now() reads; 0 is the zero time and never read
    db,         \* the engine's maps and its sequence
    snapshot,   \* mutateLocked's rollback copy; what readers saw last
    txTime,     \* the pinned transaction time, 0 outside a mutation
    phase       \* where the running mutation is; "idle" when none holds the lock

vars == <<clock, db, snapshot, txTime, phase>>

-----------------------------------------------------------------------------
(* Records and the maps that hold them.                                    *)

Source  == [space : STRING, createdAt : Nat]
Episode == [space : STRING, content : STRING, source : ID, observedAt : Nat, ingestedAt : Nat]
Entity  == [space : STRING, value : STRING, createdAt : Nat, updatedAt : Nat]

(***************************************************************************)
(* `single' remembers that the fact was asserted under cardinality "one".  *)
(* The engine forgets it once the assertion is accepted; it is kept for    *)
(* the slot properties and read by no action.                              *)
(***************************************************************************)
Fact == [space : STRING, predicate : STRING, subject : ID, object : ID \cup {None},
         support : SUBSET ID, single : BOOLEAN,
         status : {"active", "superseded", "retracted"},
         validFrom : Nat, validTo : Nat, observedAt : Nat, createdAt : Nat, updatedAt : Nat,
         retractedAt : Nat, supersedes : ID \cup {None}, supersededBy : ID \cup {None}]

(* "No record" is not a record.                                            *)
ASSUME RecordAssumption == None \notin Fact /\ None \notin Entity

FactRevision   == [fact : ID, txTime : Nat, record : Fact]
EntityRevision == [entity : ID, txTime : Nat, record : Entity]

IsMap(map, S) == DOMAIN map \subseteq ID /\ map \in [DOMAIN map -> S]
Put(map, id, record) ==
    [x \in DOMAIN map \cup {id} |-> IF x = id THEN record ELSE map[x]]

EmptyDB == [sequence |-> 0, sources |-> [x \in {} |-> None], episodes |-> [x \in {} |-> None],
            entities |-> [x \in {} |-> None], facts |-> [x \in {} |-> None],
            factRevisions |-> [x \in {} |-> None], entityRevisions |-> [x \in {} |-> None]]

IsDB(d) ==
    /\ DOMAIN d = {"sequence", "sources", "episodes", "entities", "facts",
                   "factRevisions", "entityRevisions"}
    /\ d.sequence \in Nat
    /\ IsMap(d.sources, Source)
    /\ IsMap(d.episodes, Episode)
    /\ IsMap(d.entities, Entity)
    /\ IsMap(d.facts, Fact)
    /\ IsMap(d.factRevisions, FactRevision)
    /\ IsMap(d.entityRevisions, EntityRevision)

-----------------------------------------------------------------------------
(* Identifiers (id.go).                                                    *)

IDExists(d, id) ==
    \/ id \in DOMAIN d.sources
    \/ id \in DOMAIN d.episodes
    \/ id \in DOMAIN d.entities
    \/ id \in DOMAIN d.facts
    \/ id \in DOMAIN d.factRevisions
    \/ id \in DOMAIN d.entityRevisions

(* Mutant of IsNextID: the number after the last one, taken or not.        *)
IsNextIDUnchecked(d, prefix, n) == n = d.sequence + 1

(* The loop of newIDLocked stops at n: the first free number it reaches.   *)
IsNextID(d, prefix, n) ==
    /\ n > d.sequence
    /\ ~IDExists(d, GeneratedID(prefix, n))
    /\ \A m \in (d.sequence + 1)..(n - 1) : IDExists(d, GeneratedID(prefix, m))

(* No other kind of record owns id; a record of the same kind may.         *)
AvailableTo(d, id, ownKind) ==
    /\ ownKind # "source"  => id \notin DOMAIN d.sources
    /\ ownKind # "episode" => id \notin DOMAIN d.episodes
    /\ ownKind # "entity"  => id \notin DOMAIN d.entities
    /\ ownKind # "fact"    => id \notin DOMAIN d.facts
    /\ id \notin DOMAIN d.factRevisions
    /\ id \notin DOMAIN d.entityRevisions

NextNumbers(d, prefix) == {n \in 1..MaxSequence : IsNextID(d, prefix, n)}

(* A new record takes the id it was given, or a generated one; s is the    *)
(* sequence once the id is chosen.                                         *)
RecordID(given, prefix, s) == IF given = None THEN GeneratedID(prefix, s) ELSE given
RecordNumbers(d, given, prefix, kind) ==
    IF given = None THEN NextNumbers(d, prefix)
                    ELSE {s \in {d.sequence} : AvailableTo(d, given, kind)}

SetSequence(d, s) == [d EXCEPT !.sequence = s]

-----------------------------------------------------------------------------
(* Reading an earlier state (temporal.go, temporal_index.go).              *)

(* The versions of a record a cut may see, with the sequence number their  *)
(* generated revision id embeds.                                           *)
RevisionOrder(id) == id[2]
Version(r, revision) ==
    [order |-> RevisionOrder(r), txTime |-> revision.txTime, record |-> revision.record]

FactVersions(d, id, at) ==
    {Version(r, d.factRevisions[r]) :
        r \in {x \in DOMAIN d.factRevisions :
                d.factRevisions[x].fact = id /\ d.factRevisions[x].txTime <= at}}
EntityVersions(d, id, at) ==
    {Version(r, d.entityRevisions[r]) :
        r \in {x \in DOMAIN d.entityRevisions :
                d.entityRevisions[x].entity = id /\ d.entityRevisions[x].txTime <= at}}

(* Mutant of ComesAfter: the tie between two revisions of one instant      *)
(* broken the wrong way round.                                             *)
ComesAfterLowestSequence(v, w) ==
    v.txTime > w.txTime \/ (v.txTime = w.txTime /\ v.order < w.order)

(* revisionComesAfter: a later transaction time wins; supersession shares  *)
(* one between two revisions, and then the sequence decides.               *)
ComesAfter(v, w) ==
    v.txTime > w.txTime \/ (v.txTime = w.txTime /\ v.order > w.order)
Latest(versions) ==
    CHOOSE v \in versions : \A w \in versions \ {v} : ComesAfter(v, w)

(* factVersionAt and entityVersionAt, inactive versions included: the      *)
(* record an as-of read at `at' answers with, or None.                     *)
FactVersionAt(d, id, at) ==
    LET known == FactVersions(d, id, at)
        version == IF known # {} THEN Latest(known).record ELSE d.facts[id]
    IN  IF \/ known = {} /\ d.facts[id].updatedAt > at
           \/ version.createdAt > at
        THEN None
        ELSE version

(* The _history snapshots the code then tries are of entities older than   *)
(* the revision log: the first revision of one written here carries its    *)
(* creation instant, so that branch is never reached.                      *)
EntityVersionAt(d, id, at) ==
    LET known == EntityVersions(d, id, at)
        entity == d.entities[id]
    IN  IF known # {} THEN Latest(known).record
        ELSE IF entity.createdAt > at \/ entity.updatedAt > at THEN None ELSE entity

ActiveAt(d, id, at) ==
    FactVersionAt(d, id, at) # None /\ FactVersionAt(d, id, at).status = "active"

-----------------------------------------------------------------------------
(* Domain validity; 0 is the zero time, an open end.                       *)

ValidInterval(from, to) == from = 0 \/ to = 0 \/ from < to
ValidityOverlaps(aFrom, aTo, bFrom, bTo) ==
    /\ aTo = 0 \/ bFrom = 0 \/ aTo > bFrom
    /\ bTo = 0 \/ aFrom = 0 \/ bTo > aFrom

SameSlot(f, g) == f.space = g.space /\ f.subject = g.subject /\ f.predicate = g.predicate

(* Mutant of SlotOccupants: the guard does not see the facts its own batch *)
(* has already asserted.                                                   *)
SlotOccupantsBeforeBatch(d, in) ==
    {id \in DOMAIN snapshot.facts :
        /\ snapshot.facts[id].status = "active"
        /\ SameSlot(snapshot.facts[id], in)
        /\ ValidityOverlaps(snapshot.facts[id].validFrom, snapshot.facts[id].validTo,
                            in.validFrom, in.validTo)}

SlotOccupants(d, in) ==
    {id \in DOMAIN d.facts :
        /\ d.facts[id].status = "active"
        /\ SameSlot(d.facts[id], in)
        /\ ValidityOverlaps(d.facts[id].validFrom, d.facts[id].validTo, in.validFrom, in.validTo)}

-----------------------------------------------------------------------------
(* Storing a record and appending its revision.                            *)

StoreFact(d, id, fact) == [d EXCEPT !.facts = Put(@, id, fact)]

AppendFactRevision(d, id, n) ==
    [d EXCEPT !.sequence = n,
              !.factRevisions = Put(@, GeneratedID("factrev", n),
                    [fact |-> id, txTime |-> d.facts[id].updatedAt, record |-> d.facts[id]])]

StoreEntity(d, id, entity) == [d EXCEPT !.entities = Put(@, id, entity)]

(* Mutant of AppendEntityRevision: stamped with the clock, not with the    *)
(* pinned time the entity carries.                                         *)
AppendEntityRevisionAtClock(d, id, n) ==
    [d EXCEPT !.sequence = n,
              !.entityRevisions = Put(@, GeneratedID("entityrev", n),
                    [entity |-> id, txTime |-> clock, record |-> d.entities[id]])]

AppendEntityRevision(d, id, n) ==
    [d EXCEPT !.sequence = n,
              !.entityRevisions = Put(@, GeneratedID("entityrev", n),
                    [entity |-> id, txTime |-> d.entities[id].updatedAt, record |-> d.entities[id]])]

(* Mutant of StrictlyAfter: the pinned time as it is.                      *)
PinnedTime(now, after) == now

(* strictlyAfterTxTime: the pinned time, carried past `after'.             *)
StrictlyAfter(now, after) == IF now > after THEN now ELSE after + 1

-----------------------------------------------------------------------------
Init ==
    /\ clock \in 1..MaxTime
    /\ db = EmptyDB
    /\ snapshot = EmptyDB
    /\ txTime = 0
    /\ phase = "idle"

(* The wall clock moves, whether or not a mutation holds the lock.         *)
Tick ==
    /\ \E t \in 1..MaxTime :
        /\ t > clock \/ ClockMode = "stepping"
        /\ clock' = t
    /\ UNCHANGED <<db, snapshot, txTime, phase>>

(* mutateLocked takes the lock, pins one transaction time and copies the   *)
(* state it may have to restore.                                           *)
BeginMutation ==
    /\ phase = "idle"
    /\ txTime' = clock
    /\ snapshot' = db
    /\ phase' \in {"episodes", "lifecycle"}
    /\ UNCHANGED <<clock, db>>

(* The mutation body failed, its context was cancelled or the save was     *)
(* refused: restoreLocked.                                                 *)
Abort ==
    /\ phase # "idle"
    /\ db' = snapshot
    /\ txTime' = 0
    /\ phase' = "idle"
    /\ UNCHANGED <<clock, snapshot>>

(* The save succeeded and the lock is released: readers see the result.    *)
Commit ==
    /\ phase \notin {"idle", "lifecycle"}
    /\ snapshot' = db
    /\ txTime' = 0
    /\ phase' = "idle"
    /\ UNCHANGED <<clock, db>>

(* One episode of IngestBatch, or the only one of IngestEpisode.  The      *)
(* source is stored first; an identical replay of the episode is accepted  *)
(* and changes nothing.                                                    *)
IngestEpisode ==
    /\ phase = "episodes"
    /\ \E in \in EpisodeInputs :
        LET sources == IF in.source \in DOMAIN db.sources THEN db.sources
                       ELSE Put(db.sources, in.source, [space |-> in.space, createdAt |-> txTime])
            d == [db EXCEPT !.sources = sources]
            episode == [space |-> in.space, content |-> in.content, source |-> in.source,
                        observedAt |-> in.observed, ingestedAt |-> txTime]
        IN  /\ AvailableTo(db, in.source, "source")
            /\ sources[in.source].space = in.space
            /\ \E s \in RecordNumbers(d, in.id, "ep", "episode") :
                LET id == RecordID(in.id, "ep", s)
                IN  \/ /\ id \notin DOMAIN d.episodes
                       /\ db' = [SetSequence(d, s) EXCEPT !.episodes = Put(@, id, episode)]
                    \/ /\ id \in DOMAIN d.episodes
                       /\ episode = [d.episodes[id] EXCEPT !.observedAt = in.observed,
                                                             !.ingestedAt = txTime]
                       /\ db' = SetSequence(d, s)
    /\ UNCHANGED <<clock, snapshot, txTime, phase>>

(* One entity of IngestBatch, or the only one of UpsertEntity: created, or *)
(* its representation replaced.                                            *)
UpsertEntity ==
    /\ phase \in {"episodes", "entities"}
    /\ phase' = "entities"
    /\ \E in \in EntityInputs :
        LET known == in.id \in DOMAIN db.entities
            entity == [space |-> in.space, value |-> in.value, updatedAt |-> txTime,
                       createdAt |-> IF known THEN db.entities[in.id].createdAt ELSE txTime]
            d == StoreEntity(db, in.id, entity)
        IN  /\ AvailableTo(db, in.id, "entity")
            /\ known => db.entities[in.id].space = in.space
            /\ \E n \in NextNumbers(d, "entityrev") : db' = AppendEntityRevision(d, in.id, n)
    /\ UNCHANGED <<clock, snapshot, txTime>>

(* Mutant of EndpointKnown: an entity of another space is accepted.        *)
EndpointKnownAnywhere(d, id, space) == id \in DOMAIN d.entities

(* What assertFactLocked checks before it allocates an id.                 *)
EndpointKnown(d, id, space) == id \in DOMAIN d.entities /\ d.entities[id].space = space

FactAccepted(d, in, single) ==
    /\ EndpointKnown(d, in.subject, in.space)
    /\ in.object # None => EndpointKnown(d, in.object, in.space)
    /\ in.support # {}
    /\ \A ep \in in.support : ep \in DOMAIN d.episodes /\ d.episodes[ep].space = in.space
    /\ ValidInterval(in.validFrom, in.validTo)
    /\ single => SlotOccupants(d, in) = {}

NewFact(in, single, now) ==
    [space |-> in.space, predicate |-> in.predicate, subject |-> in.subject,
     object |-> in.object, support |-> in.support, single |-> single, status |-> "active",
     validFrom |-> in.validFrom, validTo |-> in.validTo, observedAt |-> in.observed,
     createdAt |-> now, updatedAt |-> now, retractedAt |-> 0,
     supersedes |-> None, supersededBy |-> None]

(* assertFactLocked, up to the revision: s is the sequence once the fact's *)
(* id is chosen.                                                           *)
FactNumbers(d, in) ==
    {s \in RecordNumbers(d, in.id, "fact", "fact") :
        RecordID(in.id, "fact", s) \notin DOMAIN d.facts}
WithNewFact(d, in, single, now, s) ==
    StoreFact(SetSequence(d, s), RecordID(in.id, "fact", s), NewFact(in, single, now))

(* One fact of IngestBatch, or the only one of AssertFact.                 *)
AssertFact ==
    /\ phase \in {"episodes", "entities", "facts"}
    /\ phase' = "facts"
    /\ \E in \in FactInputs :
        /\ FactAccepted(db, in, in.single)
        /\ \E s \in FactNumbers(db, in) :
            LET stored == WithNewFact(db, in, in.single, txTime, s)
            IN  \E n \in NextNumbers(stored, "factrev") :
                    db' = AppendFactRevision(stored, RecordID(in.id, "fact", s), n)
    /\ UNCHANGED <<clock, snapshot, txTime>>

(* Mutant of Retired: stamped apart from the successor.                    *)
RetiredAtClock(fact, in, now, successor) ==
    [fact EXCEPT !.status = "superseded", !.updatedAt = clock, !.supersededBy = successor]

(* The fact a supersession retires, and its successor linked back to it.   *)
Retired(fact, in, now, successor) ==
    [fact EXCEPT !.status = "superseded", !.updatedAt = now, !.supersededBy = successor,
                 !.validTo = IF /\ in.validFrom # 0
                                /\ fact.validFrom < in.validFrom
                                /\ fact.validTo = 0 \/ in.validFrom < fact.validTo
                             THEN in.validFrom ELSE @]
Succeeding(fact, old) == [fact EXCEPT !.supersedes = old]

(* Mutant of Supersedable: only a retracted fact is refused.               *)
SupersedableUnlessRetracted(fact) == fact.status # "retracted"

Supersedable(fact) == fact.status = "active"

(* supersedeFactLocked: the replacement is asserted as one of many values, *)
(* the named fact is retired at the replacement's creation instant, and    *)
(* the replacement is stored again with its lineage.                       *)
SupersedeFact ==
    /\ phase = "lifecycle"
    /\ phase' = "superseded"
    /\ \E old \in DOMAIN db.facts, in \in FactInputs :
        /\ Supersedable(db.facts[old])
        /\ SameSlot(db.facts[old], in)
        /\ FactAccepted(db, in, FALSE)
        /\ txTime' = StrictlyAfter(txTime, db.facts[old].updatedAt)
        /\ \E s \in FactNumbers(db, in) :
            LET new == RecordID(in.id, "fact", s)
                stored == WithNewFact(db, in, FALSE, txTime', s)
            IN \E n1 \in NextNumbers(stored, "factrev") :
                LET asserted == AppendFactRevision(stored, new, n1)
                    retired == StoreFact(asserted, old, Retired(db.facts[old], in, txTime', new))
                IN \E n2 \in NextNumbers(retired, "factrev") :
                    LET logged == AppendFactRevision(retired, old, n2)
                        linked == StoreFact(logged, new, Succeeding(logged.facts[new], old))
                    IN \E n3 \in NextNumbers(linked, "factrev") :
                        db' = AppendFactRevision(linked, new, n3)
    /\ UNCHANGED <<clock, snapshot>>

Retracted(fact, now) ==
    [fact EXCEPT !.status = "retracted", !.retractedAt = now, !.updatedAt = now]

(* Mutant of Retractable: a retraction may be repeated.                    *)
AlwaysRetractable(fact) == TRUE

Retractable(fact) == fact.status # "retracted"

(* RetractFact: a second retraction is answered and changes nothing; a     *)
(* superseded fact may still be retracted.                                 *)
RetractFact ==
    /\ phase = "lifecycle"
    /\ phase' = "retracted"
    /\ \E id \in DOMAIN db.facts :
        \/ /\ ~Retractable(db.facts[id])
           /\ UNCHANGED db
        \/ /\ Retractable(db.facts[id])
           /\ LET now == StrictlyAfter(txTime, db.facts[id].updatedAt)
                  retracted == StoreFact(db, id, Retracted(db.facts[id], now))
              IN  \E n \in NextNumbers(retracted, "factrev") :
                      db' = AppendFactRevision(retracted, id, n)
    /\ UNCHANGED <<clock, snapshot, txTime>>

Next ==
    \/ Tick
    \/ BeginMutation
    \/ Abort
    \/ Commit
    \/ IngestEpisode
    \/ UpsertEntity
    \/ AssertFact
    \/ SupersedeFact
    \/ RetractFact

Spec == Init /\ [][Next]_vars

-----------------------------------------------------------------------------
TypeOK ==
    /\ clock \in Nat \ {0}
    /\ txTime \in Nat
    /\ phase \in {"idle", "episodes", "entities", "facts", "lifecycle", "superseded", "retracted"}
    /\ IsDB(db)
    /\ IsDB(snapshot)

(***************************************************************************)
(* Global identity (ensureGlobalIDAvailableLocked, newIDLocked): one raw   *)
(* id names at most one record of one kind, whatever the order in which    *)
(* callers name ids, engine-shaped ones included, and the engine generates *)
(* its own.  Graph and provenance reads resolve nodes by raw id.           *)
(***************************************************************************)
GlobalIDsAreUnique ==
    LET maps == <<db.sources, db.episodes, db.entities, db.facts,
                  db.factRevisions, db.entityRevisions>>
    IN  \A i, j \in 1..6 : i # j => DOMAIN maps[i] \cap DOMAIN maps[j] = {}

(***************************************************************************)
(* The revision log answers for the present: at every cut from a fact's    *)
(* current stamp on, an as-of read rebuilds exactly the live fact, even    *)
(* when several of its revisions share that instant (supersedeFactLocked   *)
(* writes two for the replacement).                                        *)
(***************************************************************************)
LiveFactIsLatestVersion ==
    \A id \in DOMAIN db.facts : \A at \in Cuts :
        at >= db.facts[id].updatedAt => FactVersionAt(db, id, at) = db.facts[id]

(* The same of an entity (upsertEntityLocked stamps updates with the       *)
(* pinned time as it is): it needs a clock that never goes back.           *)
LiveEntityIsLatestVersion ==
    \A id \in DOMAIN db.entities : \A at \in Cuts :
        at >= db.entities[id].updatedAt => EntityVersionAt(db, id, at) = db.entities[id]

(***************************************************************************)
(* "Ordered transitions of one fact must not share an instant"             *)
(* (RetractFact, strictlyAfterTxTime): once a fact has a stamp, no later   *)
(* transition changes what a cut at or before that stamp answers for it,   *)
(* however coarse the clock is and even when it goes back.                 *)
(***************************************************************************)
SettledCutsAreImmutable ==
    [][snapshot' # snapshot =>
          \A id \in DOMAIN snapshot.facts : \A at \in Cuts :
              at <= snapshot.facts[id].updatedAt
                => FactVersionAt(snapshot', id, at) = FactVersionAt(snapshot, id, at)]_vars

Missing(map, id) == id \notin DOMAIN map
EntityReadAt(d, id, at) == IF Missing(d.entities, id) THEN None ELSE EntityVersionAt(d, id, at)
EpisodesAt(d, at) == {id \in DOMAIN d.episodes : d.episodes[id].ingestedAt <= at}

(***************************************************************************)
(* History is causal: wherever a fact can be read, its subject, object and *)
(* supporting episodes (and their source) can be read at the same cut, in  *)
(* the fact's own space, so provenance never points into the future.       *)
(***************************************************************************)
HistoryIsCausal ==
    \A id \in DOMAIN db.facts : \A at \in Cuts :
        LET f == FactVersionAt(db, id, at)
        IN  f # None =>
              /\ \A e \in {f.subject, f.object} \ {None} :
                    /\ EntityReadAt(db, e, at) # None
                    /\ EntityReadAt(db, e, at).space = f.space
              /\ f.support # {}
              /\ \A ep \in f.support :
                    /\ ep \in EpisodesAt(db, at)
                    /\ db.episodes[ep].space = f.space
                    /\ db.sources[db.episodes[ep].source].space = f.space
                    /\ db.sources[db.episodes[ep].source].createdAt <= at

(***************************************************************************)
(* Supersession chains are linear and acyclic ("supersession loops" are to *)
(* be rejected): links agree in both directions, a successor is created    *)
(* after its predecessor, and a fact has a successor exactly when it left  *)
(* the active state by supersession.                                       *)
(***************************************************************************)
LineageIsLinear ==
    \A id \in DOMAIN db.facts :
        LET f == db.facts[id]
        IN  /\ f.supersededBy # None =>
                 /\ f.status # "active"
                 /\ f.supersededBy \in DOMAIN db.facts
                 /\ db.facts[f.supersededBy].supersedes = id
                 /\ db.facts[f.supersededBy].createdAt > f.createdAt
                 /\ SameSlot(db.facts[f.supersededBy], f)
            /\ f.supersedes # None =>
                 /\ f.supersedes \in DOMAIN db.facts
                 /\ db.facts[f.supersedes].supersededBy = id
            /\ f.status = "superseded" => f.supersededBy # None
            /\ ValidInterval(f.validFrom, f.validTo)

(***************************************************************************)
(* A supersession is one event at every cut: the successor can be read     *)
(* exactly where the old fact reads as superseded, so no cut shows both    *)
(* as active and none loses both.                                          *)
(***************************************************************************)
SupersessionIsAtomicAtEveryCut ==
    \A id \in DOMAIN db.facts : \A at \in Cuts :
        LET f == FactVersionAt(db, id, at)
            next == db.facts[id].supersededBy
        IN  next # None /\ f # None =>
                (f.supersededBy = next <=> FactVersionAt(db, next, at) # None)

(***************************************************************************)
(* The lifecycle only moves forward and keeps provenance intact            *)
(* ("SupersedeFact and RetractFact must preserve historical state rather   *)
(* than overwrite or delete it"): nothing leaves a map, a retracted fact   *)
(* is final, and a transition keeps the statement, its support and its     *)
(* lineage.                                                                *)
(***************************************************************************)
Rank(status) == CASE status = "active" -> 0 [] status = "superseded" -> 1 [] OTHER -> 2
KeepsStatement(f, g) ==
    /\ <<f.space, f.predicate, f.subject, f.object, f.support, f.validFrom, f.observedAt, f.createdAt>>
         = <<g.space, g.predicate, g.subject, g.object, g.support, g.validFrom, g.observedAt, g.createdAt>>
    /\ f.supersedes = g.supersedes
    /\ f.supersededBy # None => f.supersededBy = g.supersededBy

LifecycleMovesForward ==
    [][/\ \A id \in DOMAIN snapshot.episodes :
            id \in DOMAIN snapshot'.episodes /\ snapshot'.episodes[id] = snapshot.episodes[id]
       /\ \A r \in DOMAIN snapshot.factRevisions :
            r \in DOMAIN snapshot'.factRevisions
              /\ snapshot'.factRevisions[r] = snapshot.factRevisions[r]
       /\ \A id \in DOMAIN snapshot.facts :
            LET f == snapshot.facts[id]
                g == snapshot'.facts[id]
            IN  /\ id \in DOMAIN snapshot'.facts
                /\ \/ g = f
                   \/ Rank(g.status) > Rank(f.status) /\ KeepsStatement(f, g)]_vars

(***************************************************************************)
(* A single-value slot is handed on and never shared ("when an active fact *)
(* with an overlapping validity interval already occupies the same slot,   *)
(* the assert fails").  Two facts asserted under cardinality "one" read as *)
(* active together with overlapping validity only where the clock lags:    *)
(* one of them had been retired before the other was asserted, as the log  *)
(* tells, but strictlyAfterTxTime carried that retirement past the cut, or *)
(* the clock was set back.  No two of them were ever active in the log.    *)
(***************************************************************************)
RetiredBefore(d, id, other, at) ==
    \E q \in DOMAIN d.factRevisions :
        /\ d.factRevisions[q].fact = id
        /\ d.factRevisions[q].record.status # "active"
        /\ d.factRevisions[q].txTime > at
        /\ \A r \in DOMAIN d.factRevisions :
              d.factRevisions[r].fact = other => RevisionOrder(q) < RevisionOrder(r)

SlotHoldsAtEveryCut ==
    \A id, other \in DOMAIN db.facts : \A at \in Cuts :
        LET f == FactVersionAt(db, id, at)
            g == FactVersionAt(db, other, at)
        IN  /\ id # other
            /\ db.facts[id].single /\ db.facts[other].single
            /\ ActiveAt(db, id, at) /\ ActiveAt(db, other, at)
            /\ SameSlot(f, g)
            /\ ValidityOverlaps(f.validFrom, f.validTo, g.validFrom, g.validTo)
            => RetiredBefore(db, id, other, at) \/ RetiredBefore(db, other, id, at)

-----------------------------------------------------------------------------
(* What the proofs add to make these properties inductive.                 *)

(* Every revision was generated, and is no younger than the live fact.     *)
RevisionsAreGrounded(d) ==
    \A r \in DOMAIN d.factRevisions :
        /\ \E n \in 1..d.sequence : r = GeneratedID("factrev", n)
        /\ d.factRevisions[r].fact \in DOMAIN d.facts
        /\ d.factRevisions[r].txTime <= d.facts[d.factRevisions[r].fact].updatedAt

(* r holds the live fact and comes after every other revision of it.       *)
IsLatestRevision(d, id, r) ==
    /\ d.factRevisions[r] = [fact |-> id, txTime |-> d.facts[id].updatedAt, record |-> d.facts[id]]
    /\ \A x \in DOMAIN d.factRevisions \ {r} :
          d.factRevisions[x].fact = id
            => ComesAfter(Version(r, d.factRevisions[r]), Version(x, d.factRevisions[x]))

FactsAreLogged(d) ==
    \A id \in DOMAIN d.facts :
        /\ d.facts[id].status = "active" => d.facts[id].supersededBy = None
        /\ d.facts[id].createdAt <= d.facts[id].updatedAt
        /\ \E r \in DOMAIN d.factRevisions : IsLatestRevision(d, id, r)

(* What a mutation may have done to the state it started from.             *)
Evolves(f, g) ==
    \/ g = f
    \/ /\ g.updatedAt > f.updatedAt
       /\ Rank(g.status) > Rank(f.status)
       /\ KeepsStatement(f, g)

Extends(old, new) ==
    /\ \A id \in DOMAIN old.episodes :
          id \in DOMAIN new.episodes /\ new.episodes[id] = old.episodes[id]
    /\ \A r \in DOMAIN old.factRevisions :
          r \in DOMAIN new.factRevisions /\ new.factRevisions[r] = old.factRevisions[r]
    /\ \A r \in DOMAIN new.factRevisions \ DOMAIN old.factRevisions :
          new.factRevisions[r].fact \in DOMAIN old.facts
            => new.factRevisions[r].txTime > old.facts[new.factRevisions[r].fact].updatedAt
    /\ \A id \in DOMAIN old.facts :
          id \in DOMAIN new.facts /\ Evolves(old.facts[id], new.facts[id])

IInv ==
    /\ TypeOK
    /\ RevisionsAreGrounded(db) /\ RevisionsAreGrounded(snapshot)
    /\ FactsAreLogged(db) /\ FactsAreLogged(snapshot)
    /\ Extends(snapshot, db)
    /\ phase \in {"idle", "lifecycle"} => db = snapshot

=============================================================================
