-------------------------------- MODULE Store --------------------------------
(***************************************************************************)
(* The Lattice store (store_lattice.go, internal/storage/lattice): how the *)
(* records the engine serves become nodes, edges and full-text documents   *)
(* of a property graph, how a save writes the difference only, how the two *)
(* derived structures (endpoint edges, search texts) are trusted when a    *)
(* database is older than they are, and how a writable open establishes    *)
(* what it is about to recover.                                            *)
(*                                                                         *)
(* What is abstracted.  A record is its search text and its links; the     *)
(* rest of its payload follows them.  A native transaction takes effect    *)
(* whole or not at all, and a writable handle excludes every other one     *)
(* (latticedb, external).  The engine's lock serialises mutations and      *)
(* reads, so reads are evaluated between saves.  A save that fails is      *)
(* rolled back in memory (module CommitPath has the paths that lead        *)
(* there).  No operation of the engine removes a record, so the branch of  *)
(* a save that deletes nodes has no step.                                  *)
(***************************************************************************)
EXTENDS Naturals, FiniteSets, Functions

CONSTANTS
    Batches,      \* what mutations write: partial functions from keys to records
    InitialDisks, \* what may be found at the path
    MaxFanout,    \* maxFactCandidateFanout
    Foreign,      \* whether a build of another state version shares the path
    None          \* no persisted version

Labels == {"Source", "Episode", "Entity", "Fact", "FactRevision", "EntityRevision",
           "YeoulMigration"}
Searchable == {"Fact", "Episode", "Entity"}
Linked == {"Fact", "Episode"}

Nothing == [k \in {} |-> {}]

VARIABLES
    disk,    \* the database: [exists, version, nodes, texts, edges, marker, index]
    foreign, \* the other build: "away", "holding", or "late" when it came last after an inspection
    phase,   \* closed, inspected, checked, opened, indexing, serving, saving
    asked,   \* how it was opened: [readOnly, create]
    memory,  \* the records the engine serves
    before,  \* the engine's copy of them from before the mutation being saved
    last,    \* lastState: the records the store believes to be on disk
    ready    \* factEndpointEdgesReady

engine == <<memory, before, last, ready>>
vars == <<disk, foreign, phase, asked, memory, before, last, ready>>

Label(k) == k[1]

\* The edges a record calls for; only episodes and facts have any.
EdgesOf(k, records) ==
    IF Label(k) \in Linked THEN {<<k, l[1], l[2]>> : l \in records[k].links} ELSE {}
AllEdges(records) == UNION {EdgesOf(k, records) : k \in DOMAIN records}

Overlay(new, old) ==
    [k \in DOMAIN new \cup DOMAIN old |-> IF k \in DOMAIN new THEN new[k] ELSE old[k]]

\* The search texts that go with records.
TextsOf(records) ==
    [k \in {r \in DOMAIN records : Label(r) \in Searchable} |-> records[k].text]

\* Every record a batch links to is in the batch or in memory.
Acceptable(batch) ==
    \A k \in DOMAIN batch : \A l \in batch[k].links : l[2] \in DOMAIN batch \cup DOMAIN memory

IsFcn(f) == f = [k \in DOMAIN f |-> f[k]]

\* What older builds left: edges may be missing unless marked, texts unless indexed.
Sound(d) ==
    /\ d = [exists |-> d.exists, version |-> d.version, nodes |-> d.nodes, texts |-> d.texts,
            edges |-> d.edges, marker |-> d.marker, index |-> d.index]
    /\ IsFcn(d.nodes) /\ IsFiniteSet(DOMAIN d.nodes)
    /\ ~d.exists => d.version = None /\ DOMAIN d.nodes = {}
    /\ \A e \in d.edges : e[1] \in DOMAIN d.nodes /\ Label(e[1]) \in Linked
    /\ d.marker => d.edges = AllEdges(d.nodes)
    /\ DOMAIN d.texts \subseteq DOMAIN TextsOf(d.nodes)
    /\ d.index => d.texts = TextsOf(d.nodes)

StoreAssumption ==
    /\ MaxFanout \in Nat /\ Foreign \in BOOLEAN /\ None \notin {"current", "other"}
    /\ \A b \in Batches : IsFiniteSet(DOMAIN b) /\ \A k \in DOMAIN b : Label(k) \in Labels
    /\ \A d \in InitialDisks : Sound(d)
ASSUME StoreAssumption

Fresh == [exists |-> FALSE, version |-> None, nodes |-> Nothing, texts |-> Nothing,
          edges |-> {}, marker |-> FALSE, index |-> FALSE]

Init ==
    /\ disk \in InitialDisks
    /\ foreign = "away" /\ phase = "closed"
    /\ asked = [readOnly |-> FALSE, create |-> FALSE]
    /\ memory = Nothing /\ before = Nothing /\ last = Nothing /\ ready = FALSE

Holding == phase \in {"opened", "indexing", "serving", "saving"}

-----------------------------------------------------------------------------
(* Opening.                                                                *)

\* validateStateVersion: this build's version, or a database nothing was written to.
Supported == disk.version = "current" \/ (disk.version = None /\ DOMAIN disk.nodes = {})

\* inspectStateVersionOnce, through a read-only handle of its own.
Passes(create) ==
    /\ foreign # "holding"
    /\ IF disk.exists THEN Supported ELSE create

Close ==
    /\ phase' = "closed"
    /\ memory' = Nothing /\ before' = Nothing /\ last' = Nothing /\ ready' = FALSE
    /\ UNCHANGED asked

Inspect ==
    /\ phase = "closed"
    /\ \E create \in BOOLEAN :
          /\ Passes(create)
          /\ asked' = [readOnly |-> FALSE, create |-> create]
    /\ phase' = "inspected"
    /\ foreign' = "away"
    /\ UNCHANGED <<disk, engine>>

InspectAgain ==
    /\ phase = "inspected" /\ Passes(asked.create)
    /\ phase' = "checked"
    /\ foreign' = "away"
    /\ UNCHANGED <<disk, asked, engine>>

\* An inspection that does not pass ends the open.
Refuse ==
    /\ phase = "inspected" /\ ~Passes(asked.create)
    /\ Close
    /\ UNCHANGED <<disk, foreign>>

\* The writable native open: it initialises an empty database and recovers an
\* interrupted one.
OpenWritable ==
    /\ phase = "checked" /\ foreign # "holding"
    /\ disk.exists \/ asked.create
    /\ disk' = [disk EXCEPT !.exists = TRUE]
    /\ phase' = "opened"
    /\ UNCHANGED <<foreign, asked, engine>>

OpenReadOnly ==
    /\ phase = "closed" /\ foreign # "holding" /\ disk.exists
    /\ asked' = [readOnly |-> TRUE, create |-> FALSE]
    /\ phase' = "opened"
    /\ UNCHANGED <<disk, foreign, engine>>

\* newLatticeStore validates again through the handle that will serve reads;
\* a native open that finds the path locked fails as well.
Reject ==
    /\ \/ phase = "opened" /\ ~Supported
       \/ phase = "checked" /\ foreign = "holding"
    /\ Close
    /\ UNCHANGED <<disk, foreign>>

\* A database without records has no edge to miss.
NoRecords(records) == \A k \in DOMAIN records : Label(k) = "YeoulMigration"

(* Mutant of Load: it does not ask for the version again through its own handle. *)
LoadUnvalidated ==
    /\ phase = "opened"
    /\ memory' = disk.nodes /\ last' = disk.nodes
    /\ ready' = (disk.marker \/ NoRecords(disk.nodes))
    /\ phase' = IF asked.readOnly \/ disk.index THEN "serving" ELSE "indexing"
    /\ UNCHANGED <<disk, foreign, asked, before>>

Load ==
    /\ phase = "opened" /\ Supported
    /\ memory' = disk.nodes /\ last' = disk.nodes
    /\ ready' = (disk.marker \/ NoRecords(disk.nodes))
    /\ phase' = IF asked.readOnly \/ disk.index THEN "serving" ELSE "indexing"
    /\ UNCHANGED <<disk, foreign, asked, before>>

\* EnsureSearchIndexes: the indexes, every text and the index version in one transaction.
Backfill ==
    /\ phase = "indexing"
    /\ disk' = [disk EXCEPT !.texts = Overlay(TextsOf(memory), @), !.index = TRUE]
    /\ phase' = "serving"
    /\ UNCHANGED <<foreign, asked, engine>>

BackfillFails ==
    /\ phase = "indexing"
    /\ Close
    /\ UNCHANGED <<disk, foreign>>

-----------------------------------------------------------------------------
(* Saving.                                                                 *)

\* The engine changes its maps under its lock and asks for a save.
Mutate ==
    /\ phase = "serving" /\ ~asked.readOnly
    /\ \E batch \in Batches :
          /\ Acceptable(batch)
          /\ memory' = Overlay(batch, memory)
    /\ before' = memory
    /\ phase' = "saving"
    /\ UNCHANGED <<disk, foreign, asked, last, ready>>

\* latticeRecordDelta: the records that are new or differ.
Delta == {k \in DOMAIN memory : k \notin DOMAIN last \/ last[k] # memory[k]}

(* Mutant of Reconciled: an existing node keeps its search text. *)
TextsOfNewNodes ==
    [disk EXCEPT !.nodes = Overlay(Restrict(memory, Delta), @),
                 !.texts = Overlay(@, TextsOf(Restrict(memory, Delta)))]

\* reconcileNodes: payload and search text of the changed records.
Reconciled ==
    [disk EXCEPT !.nodes = Overlay(Restrict(memory, Delta), @),
                 !.texts = Overlay(TextsOf(Restrict(memory, Delta)), @)]

\* replaceLatticeEdges: the outgoing edges of the changed records, anew.
Reconnected == {e \in disk.edges : e[1] \notin Delta} \cup UNION {EdgesOf(k, memory) : k \in Delta}

\* What the transaction of Save leaves on disk.
Written ==
    [Reconciled EXCEPT !.edges = Reconnected, !.version = "current", !.marker = @ \/ ready]

\* Every edge finds its target, or the transaction is abandoned.
Resolvable == \A e \in UNION {EdgesOf(k, memory) : k \in Delta} : e[3] \in DOMAIN Reconciled.nodes

SaveCommits ==
    /\ phase = "saving" /\ Resolvable
    /\ disk' = IF last = memory THEN disk ELSE Written
    /\ last' = memory
    /\ phase' = "serving"
    /\ before' = Nothing
    /\ UNCHANGED <<foreign, asked, memory, ready>>

(* Mutant of SaveFails: what the failed save would have written is remembered as saved. *)
FailureRemembered ==
    /\ phase = "saving" /\ last # memory
    /\ memory' = before /\ before' = Nothing
    /\ last' = memory
    /\ phase' = "serving"
    /\ UNCHANGED <<disk, foreign, asked, ready>>

\* The transaction fails: nothing of it stays, the engine restores its maps.
SaveFails ==
    /\ phase = "saving" /\ last # memory
    /\ memory' = before /\ before' = Nothing
    /\ phase' = "serving"
    /\ UNCHANGED <<disk, foreign, asked, last, ready>>

\* Closed in order, or stopped anywhere: what is on disk stays.
Stop ==
    /\ phase # "closed"
    /\ Close
    /\ UNCHANGED <<disk, foreign>>

-----------------------------------------------------------------------------
(* A build of another state version, which knows nothing of the lock of    *)
(* module Ownership; the native lock keeps it out while a handle is open.  *)

ForeignArrives ==
    /\ Foreign /\ foreign # "holding" /\ ~Holding
    /\ foreign' = "holding"
    /\ UNCHANGED <<disk, phase, asked, engine>>

ForeignWrites ==
    /\ foreign = "holding"
    /\ disk' = [disk EXCEPT !.exists = TRUE, !.version = "other"]
    /\ UNCHANGED <<foreign, phase, asked, engine>>

ForeignLeaves ==
    /\ foreign = "holding"
    /\ foreign' = IF phase = "checked" THEN "late" ELSE "away"
    /\ UNCHANGED <<disk, phase, asked, engine>>

-----------------------------------------------------------------------------
Next ==
    \/ Inspect \/ InspectAgain \/ Refuse \/ OpenWritable \/ OpenReadOnly \/ Reject
    \/ Load \/ Backfill \/ BackfillFails
    \/ Mutate \/ SaveCommits \/ SaveFails \/ Stop
    \/ ForeignArrives \/ ForeignWrites \/ ForeignLeaves

Spec == Init /\ [][Next]_vars

-----------------------------------------------------------------------------
(* Reads of the derived structures.                                        *)

Entities == {k \in DOMAIN memory : Label(k) = "Entity"}
Incoming(entity, type) == {e[1] : e \in {x \in disk.edges : x[2] = type /\ x[3] = entity}}

Overflows(subjects, objects) ==
    \/ \E s \in subjects : Cardinality(Incoming(s, "SUBJECT")) > MaxFanout
    \/ \E o \in objects : Cardinality(Incoming(o, "OBJECT_ENTITY")) > MaxFanout

Reached(subjects, objects) ==
    (UNION {Incoming(s, "SUBJECT") : s \in subjects})
        \cup (UNION {Incoming(o, "OBJECT_ENTITY") : o \in objects})

(* Mutant of CandidatesAvailable: an adjacency over the bound is used as far as it was read. *)
AvailableWhenMarked(subjects, objects) == ready

\* FactCandidates offers an answer; otherwise the lookup scans every fact.
CandidatesAvailable(subjects, objects) == ready /\ ~Overflows(subjects, objects)

\* GetIncomingEdgesByType returns at most MaxFanout + 1 edges, in any order.
Prefixed(facts, any) == \E cut \in SUBSET facts : Cardinality(cut) = MaxFanout + 1 /\ any \notin cut
MayMiss(fact, subjects, objects) ==
    \/ fact \notin Reached(subjects, objects)
    \/ /\ \A s \in subjects : fact \in Incoming(s, "SUBJECT") => Prefixed(Incoming(s, "SUBJECT"), fact)
       /\ \A o \in objects : fact \in Incoming(o, "OBJECT_ENTITY")
                                 => Prefixed(Incoming(o, "OBJECT_ENTITY"), fact)

\* What a full scan of the served facts finds.
Matches(fact, subjects, objects) ==
    /\ subjects # {} => \E s \in subjects : <<"SUBJECT", s>> \in memory[fact].links
    /\ objects # {} => \E o \in objects : <<"OBJECT_ENTITY", o>> \in memory[fact].links

\* SearchCandidates asks one label's index for as many hits as memory holds records
\* of the label.
Indexed(label, words) == {k \in DOMAIN disk.texts : Label(k) = label /\ disk.texts[k] = words}
Asked(label) == Cardinality({k \in DOMAIN memory : Label(k) = label})
SearchAvailable == disk.index
AllHits(label, words) == Cardinality(Indexed(label, words)) <= Asked(label)

-----------------------------------------------------------------------------
TypeOK ==
    /\ disk.exists \in BOOLEAN /\ disk.marker \in BOOLEAN /\ disk.index \in BOOLEAN
    /\ disk.version \in {None, "current", "other"}
    /\ DOMAIN disk.texts \subseteq {k \in DOMAIN disk.nodes : Label(k) \in Searchable}
    /\ foreign \in {"away", "holding", "late"} /\ ready \in BOOLEAN
    /\ phase \in {"closed", "inspected", "checked", "opened", "indexing", "serving", "saving"}

(* A save writes the difference to the state of the save before it         *)
(* (store_lattice.go Save): between saves the database holds exactly what  *)
(* the engine serves, whatever saves failed on the way.                    *)
DiskHoldsMemory == phase = "serving" => disk.nodes = memory

(* The marker of store_lattice.go Load and Save: a database that carries   *)
(* it has every edge its records call for, and no other, though older      *)
(* builds wrote records without edges.                                     *)
MarkerMeansComplete == disk.marker => disk.edges = AllEdges(disk.nodes)

(* FactCandidates (store_lattice.go, lattice.go): whenever it offers an    *)
(* answer, no fact a full scan would return is missing from it, whatever   *)
(* the adjacency bound cuts.                                               *)
LookupFindsEveryFact ==
    phase = "serving" =>
        \A subjects, objects \in SUBSET Entities :
            (subjects \cup objects # {} /\ CandidatesAvailable(subjects, objects)) =>
                \A fact \in {k \in DOMAIN memory : Label(k) = "Fact"} :
                    Matches(fact, subjects, objects) => ~MayMiss(fact, subjects, objects)

(* SearchCandidates (lattice.go): whenever the index may be asked, it      *)
(* finds exactly the served records that carry the words, including those  *)
(* of a database older than the index and those whose text changed.        *)
FullTextFindsEveryRecord ==
    phase = "serving" /\ SearchAvailable =>
        \A label \in Searchable : \A words \in {memory[k].text : k \in DOMAIN memory} :
            /\ Indexed(label, words) =
                   {k \in DOMAIN memory : Label(k) = label /\ memory[k].text = words}
            /\ AllHits(label, words)

(* newLatticeStore validates the version once more through the handle it   *)
(* serves from: no application write ever reaches a database another       *)
(* build's version marks, even one that appeared after both inspections.   *)
ForeignDataIsUntouched ==
    [][ disk' # disk /\ disk.version = "other" => foreign = "holding" ]_vars

(* inspectStateVersionBeforeWritableOpen: a database another build left in *)
(* the window before the second inspection is never handed to the writable *)
(* open and its recovery; only one that came after it can be.              *)
RecoveryIsInspected ==
    [][ (phase = "checked" /\ phase' = "opened") => Supported \/ foreign = "late" ]_vars
=============================================================================
