----------------------------- MODULE Ownership -----------------------------
(***************************************************************************)
(* Several processes open, restore, maintain and migrate databases that    *)
(* live at paths of one file system: openStateStoreWithOwnership over the  *)
(* ownership lock, the marker files and the two storage engines, and       *)
(* MigrateLatticeToRhiza.                                                  *)
(*                                                                         *)
(* A process may stop between any two steps: by an error return, by Close  *)
(* or because it is killed.  The file system keeps what was written, and   *)
(* the kernel drops the locks.                                             *)
(*                                                                         *)
(* What a database holds is the number of writes it has seen.  Spellings   *)
(* of a path, read-only directories, regular files at a path, foreign      *)
(* files, other application-state versions and platforms without Rhiza     *)
(* are left out.                                                           *)
(*                                                                         *)
(* External: flock; the two native engines, each of which admits one       *)
(* writer (Rhiza one owner) and initialises what is missing; the archive   *)
(* that a restore recovers from.                                           *)
(***************************************************************************)
EXTENDS Naturals

CONSTANTS
    Procs,        \* processes
    Paths,        \* database paths, resolved to one spelling each
    Archived,     \* contents a remote archive may hold
    Missing,      \* no native data
    Bare,         \* native data without any record of Yeoul
    Partial,      \* an incomplete copy: a restore or a migration under way
    Default,      \* no driver asked for
    None,         \* no process; no path
    MaxContents   \* bound: how many writes a database sees

ASSUME OwnershipAssumption ==
    /\ Missing # Bare /\ Bare # Partial /\ Partial # Missing
    /\ {Missing, Bare, Partial} \cap Nat = {}
    /\ Archived \subseteq Nat
    /\ None \notin Procs \cup Paths
    /\ Default \notin {"rhiza", "lattice"}
    /\ MaxContents \in Nat

Drivers == {"rhiza", "lattice"}

\* How a path is opened: ReadOnly, plainly, CreateIfMissing, RestoreIfMissing,
\* by OpenMaintenance, or as the target of a migration.
Modes == {"read", "write", "create", "restore", "maintain", "migrate"}
Exclusive == {"restore", "maintain", "migrate"}
Creating == {"create", "restore", "migrate"}

Steps == {"idle", "asking", "owner", "checked", "store", "directory", "inspected", "versioned",
          "marking", "marked", "native", "loaded", "open", "seeding", "seeded",
          "verified", "closed"}

VARIABLES
    root,       \* paths at which there is a directory
    marker,     \* the driver marker in it: "absent", "empty" (created, not yet written), "full"
    data,       \* what each engine finds at each path
    restoring,  \* paths with a restore-pending marker beside them
    migrating,  \* paths with a migration marker beside them
    shared,     \* the ownership locks: who shares each
    sole,       \* and who holds it alone
    at,         \* where each process is
    job         \* what it is opening: path, mode, driver, source, and what it loaded

files == <<root, marker, data>>
markers == <<restoring, migrating>>
locks == <<shared, sole>>
vars == <<files, markers, locks, at, job>>

Data == Nat \cup {Missing, Bare, Partial}

NoJob == [path |-> None, mode |-> "read", driver |-> Default, source |-> None, loaded |-> 0]

(* What Load makes of native data: without records it is an empty state.   *)
State(d) == IF d \in Nat THEN d ELSE 0

Nothing == [rhiza |-> Missing, lattice |-> Missing]
ALattice == [rhiza |-> Missing, lattice |-> 1]
ARhiza == [rhiza |-> 1, lattice |-> Missing]

Init ==
    /\ data \in [Paths -> {Nothing, ALattice, ARhiza}]
    /\ root = {p \in Paths : data[p] # Nothing}
    /\ marker = [p \in Paths |-> IF data[p] = ARhiza THEN "full" ELSE "absent"]
    /\ restoring = {} /\ migrating = {}
    /\ shared = [p \in Paths |-> {}]
    /\ sole = [p \in Paths |-> None]
    /\ at = [q \in Procs |-> "idle"]
    /\ job = [q \in Procs |-> NoJob]

-----------------------------------------------------------------------------
(* Detecting the driver.                                                   *)

\* latticeDatabaseHasEvidence, rhizaDatabaseHasEvidence
Evident(p) ==
    {d \in Drivers : data[p][d] # Missing \/ (d = "rhiza" /\ marker[p] # "absent")}

\* The one driver resolveStorageDriver settles on, or none.
Resolved(p, mode, driver) ==
    {d \in Drivers :
        /\ Evident(p) \subseteq {d}
        /\ driver \in {Default, d}
        /\ (driver = Default /\ Evident(p) = {}) =>
               d = "rhiza" /\ (p \notin root \/ mode \in {"create", "restore"})
        /\ mode = "restore" => d = "rhiza"}

-----------------------------------------------------------------------------
(* The ownership lock.                                                     *)

Advance(q, step) == at' = [at EXCEPT ![q] = step]

(* The checks before the lock: they only spare a path the lock file.       *)
Ask(q) ==
    /\ at[q] = "idle"
    /\ \E p \in Paths, mode \in Modes \ {"migrate"}, driver \in Drivers \cup {Default} :
        /\ mode = "maintain" => driver = Default
        /\ p \in restoring => mode = "restore"
        /\ \E d \in Resolved(p, mode, driver) :
            job' = [job EXCEPT ![q] = [NoJob EXCEPT !.path = p, !.mode = mode, !.driver = d]]
    /\ Advance(q, "asking")
    /\ UNCHANGED <<files, markers, locks>>

(* The same for a migration: its target must not exist.                    *)
AskMigration(q) ==
    /\ at[q] = "idle"
    /\ \E target \in Paths \ root, source \in Paths :
        /\ source # target
        /\ job' = [job EXCEPT ![q] = [NoJob EXCEPT !.path = target, !.mode = "migrate",
                                                   !.driver = "rhiza", !.source = source]]
    /\ Advance(q, "asking")
    /\ UNCHANGED <<files, markers, locks>>

\* May the lock of a path be taken alone, or shared?
Unowned(p) == sole[p] = None /\ shared[p] = {}

(* Mutant of Unclaimed: an ordinary open does not look at the lock.        *)
AlwaysUnclaimed(p) == p \in Paths

Unclaimed(p) == sole[p] = None

Acquire(q) ==
    LET p == job[q].path IN
    /\ at[q] = "asking"
    /\ IF job[q].mode \in Exclusive
       THEN Unowned(p) /\ sole' = [sole EXCEPT ![p] = q] /\ UNCHANGED shared
       ELSE Unclaimed(p) /\ shared' = [shared EXCEPT ![p] = @ \cup {q}] /\ UNCHANGED sole
    /\ Advance(q, "owner")
    /\ UNCHANGED <<files, markers, job>>

\* Whether a migration has its source open: the handle lives as long as the lock.
SourceOpen(q) == job[q].source # None /\ sole[job[q].source] = q

(* An error return (a lock that stays busy is one), Close, or the end of   *)
(* the process: the handles are closed and the locks dropped.              *)
LetGo(q) ==
    /\ shared' = [p \in Paths |-> shared[p] \ {q}]
    /\ sole' = [p \in Paths |-> IF sole[p] = q THEN None ELSE sole[p]]
    /\ at' = [at EXCEPT ![q] = "idle"]
    /\ job' = [job EXCEPT ![q] = NoJob]

Stop(q) ==
    /\ at[q] # "idle"
    /\ LetGo(q)
    /\ UNCHANGED <<files, markers>>

-----------------------------------------------------------------------------
(* Opening a path, once its lock is held.                                  *)

(* Mutant of Check: the markers are not looked at again under the lock.    *)
CheckSignaturesOnly(q) ==
    /\ at[q] = "owner" /\ job[q].mode # "migrate"
    /\ job[q].driver \in Resolved(job[q].path, job[q].mode, job[q].driver)
    /\ Advance(q, IF job[q].mode = "restore" THEN "checked" ELSE "store")
    /\ UNCHANGED <<files, markers, locks, job>>

\* The checks that are repeated under the lock.
Check(q) ==
    LET p == job[q].path IN
    /\ at[q] = "owner" /\ job[q].mode # "migrate"
    /\ p \notin migrating
    /\ p \in restoring => job[q].mode = "restore"
    /\ job[q].driver \in Resolved(p, job[q].mode, job[q].driver)
    /\ Advance(q, IF job[q].mode = "restore" THEN "checked" ELSE "store")
    /\ UNCHANGED <<files, markers, locks, job>>

\* ensureRhizaRestorePending
MarkRestore(q) ==
    /\ at[q] = "checked" /\ job[q].mode = "restore"
    /\ restoring' = restoring \cup {job[q].path}
    /\ Advance(q, "store")
    /\ UNCHANGED <<files, migrating, locks, job>>

(* A handle of the native engine: whose, and whether it writes.            *)
Handle(q, p, d) ==
    \/ /\ at[q] \in {"native", "loaded", "open", "seeding", "seeded"}
       /\ job[q].path = p /\ job[q].driver = d
    \/ SourceOpen(q) /\ job[q].source = p /\ d = "lattice"

Writing(q, p) == job[q].path = p /\ job[q].mode # "read"

NoHandle(q, p, d) == \A r \in Procs \ {q} : ~Handle(r, p, d)
NoWriter(q, p, d) == \A r \in Procs \ {q} : Handle(r, p, d) => ~Writing(r, p)

(* newRhizaStore, one step for each change to the files.                   *)
MakeDirectory(q) ==
    LET p == job[q].path IN
    /\ at[q] = "store" /\ job[q].driver = "rhiza"
    /\ p \in root \/ job[q].mode \in Creating
    /\ job[q].mode = "migrate" => p \notin root
    /\ root' = root \cup {p}
    /\ Advance(q, "directory")
    /\ UNCHANGED <<marker, data, markers, locks, job>>

InspectDirectory(q) ==
    LET p == job[q].path IN
    /\ at[q] = "directory"
    /\ marker[p] = "absent" => Evident(p) = {}
    /\ marker[p] # "absent" /\ data[p].rhiza = Missing =>
           data[p].lattice = Missing /\ job[q].mode \in Creating
    /\ Advance(q, "inspected")
    /\ UNCHANGED <<files, markers, locks, job>>

CreateMarker(q) ==
    LET p == job[q].path IN
    /\ at[q] = "inspected"
    /\ marker[p] = "absent" /\ job[q].mode \in Creating
    /\ marker' = [marker EXCEPT ![p] = "empty"]
    /\ Advance(q, "marking")
    /\ UNCHANGED <<root, data, markers, locks, job>>

WriteMarker(q) ==
    /\ at[q] = "marking"
    /\ marker' = [marker EXCEPT ![job[q].path] = "full"]
    /\ Advance(q, "marked")
    /\ UNCHANGED <<root, data, markers, locks, job>>

RecogniseMarker(q) ==
    /\ at[q] = "inspected" /\ marker[job[q].path] = "full"
    /\ Advance(q, "marked")
    /\ UNCHANGED <<files, markers, locks, job>>

\* What opening the native engine finds or makes.
Recovered(q) ==
    LET found == data[job[q].path].rhiza IN
    IF job[q].mode = "restore" /\ found \in {Missing, Partial} THEN Archived \cup {Bare}
    ELSE IF found = Missing THEN {Bare} ELSE {found}

OpenRhiza(q) ==
    LET p == job[q].path IN
    /\ at[q] = "marked"
    /\ NoHandle(q, p, "rhiza")
    /\ \E d \in Recovered(q) : data' = [data EXCEPT ![p].rhiza = d]
    /\ Advance(q, "native")
    /\ UNCHANGED <<root, marker, markers, locks, job>>

(* The process ends or the archive fails while a restore copies it.        *)
RestoreBreaksOff(q) ==
    LET p == job[q].path IN
    /\ at[q] = "marked" /\ job[q].mode = "restore"
    /\ NoHandle(q, p, "rhiza")
    /\ data[p].rhiza \in {Missing, Partial}
    /\ data' = [data EXCEPT ![p].rhiza = Partial]
    /\ LetGo(q)
    /\ UNCHANGED <<root, marker, markers>>

(* newLatticeStore.  The inspection, which is made twice in a row, reads   *)
(* through a handle of its own.                                            *)
InspectVersion(q) ==
    LET p == job[q].path IN
    /\ at[q] = "store" /\ job[q].driver = "lattice"
    /\ job[q].mode # "read" =>
           NoWriter(q, p, "lattice") /\ (data[p].lattice # Missing \/ job[q].mode = "create")
    /\ Advance(q, "versioned")
    /\ UNCHANGED <<files, markers, locks, job>>

OpenLattice(q) ==
    LET p == job[q].path IN
    /\ at[q] = "versioned"
    /\ data[p].lattice # Missing \/ job[q].mode = "create"
    /\ IF job[q].mode = "read" THEN NoWriter(q, p, "lattice") ELSE NoHandle(q, p, "lattice")
    /\ data' = [data EXCEPT ![p].lattice = IF @ = Missing THEN Bare ELSE @]
    /\ root' = root \cup {p}
    /\ Advance(q, "native")
    /\ UNCHANGED <<marker, markers, locks, job>>

(* Mutant of Load: a restore that brought nothing passes for an empty      *)
(* database.                                                               *)
LoadAnything(q) ==
    /\ at[q] = "native" /\ job[q].mode # "migrate"
    /\ job' = [job EXCEPT ![q].loaded = State(data[job[q].path][job[q].driver])]
    /\ Advance(q, IF job[q].mode = "restore" THEN "loaded" ELSE "open")
    /\ UNCHANGED <<files, markers, locks>>

(* Load, which refuses a restore that brought no metadata.                 *)
Load(q) ==
    LET found == data[job[q].path][job[q].driver] IN
    /\ at[q] = "native" /\ job[q].mode # "migrate"
    /\ job[q].mode = "restore" => found \in Nat
    /\ job' = [job EXCEPT ![q].loaded = State(found)]
    /\ Advance(q, IF job[q].mode = "restore" THEN "loaded" ELSE "open")
    /\ UNCHANGED <<files, markers, locks>>

CompleteRestore(q) ==
    /\ at[q] = "loaded"
    /\ restoring' = restoring \ {job[q].path}
    /\ Advance(q, "open")
    /\ UNCHANGED <<files, migrating, locks, job>>

Save(q) ==
    LET p == job[q].path IN
    /\ at[q] = "open" /\ job[q].mode # "read"
    /\ job[q].loaded < MaxContents
    /\ job' = [job EXCEPT ![q].loaded = @ + 1]
    /\ data' = [data EXCEPT ![p][job[q].driver] = job[q].loaded + 1]
    /\ UNCHANGED <<root, marker, markers, locks, at>>

-----------------------------------------------------------------------------
(* MigrateLatticeToRhiza; the target is opened by newRhizaStore, above.    *)

MarkMigration(q) ==
    LET p == job[q].path IN
    /\ at[q] = "owner" /\ job[q].mode = "migrate"
    /\ p \notin root /\ p \notin migrating
    /\ migrating' = migrating \cup {p}
    /\ Advance(q, "checked")
    /\ UNCHANGED <<files, restoring, locks, job>>

(* Mutant of OpenSource: closed again as soon as it is loaded.             *)
ReadSource(q) ==
    LET s == job[q].source IN
    /\ at[q] = "checked" /\ job[q].mode = "migrate"
    /\ Unowned(s) /\ s \notin restoring \cup migrating
    /\ Resolved(s, "read", "lattice") # {} /\ data[s].lattice # Missing
    /\ job' = [job EXCEPT ![q].loaded = State(data[s].lattice)]
    /\ Advance(q, "store")
    /\ UNCHANGED <<files, markers, locks>>

(* The source is opened read-only and alone, and loaded.                   *)
OpenSource(q) ==
    LET s == job[q].source IN
    /\ at[q] = "checked" /\ job[q].mode = "migrate"
    /\ Unowned(s) /\ s \notin restoring \cup migrating
    /\ Resolved(s, "read", "lattice") # {} /\ data[s].lattice # Missing
    /\ sole' = [sole EXCEPT ![s] = q]
    /\ job' = [job EXCEPT ![q].loaded = State(data[s].lattice)]
    /\ Advance(q, "store")
    /\ UNCHANGED <<files, markers, shared>>

(* Records go first, the metadata record last, in bounded deltas.          *)
SeedSome(q) ==
    /\ at[q] = "native" /\ job[q].mode = "migrate"
    /\ data' = [data EXCEPT ![job[q].path].rhiza = Partial]
    /\ Advance(q, "seeding")
    /\ UNCHANGED <<root, marker, markers, locks, job>>

SeedLast(q) ==
    /\ at[q] \in {"native", "seeding"} /\ job[q].mode = "migrate"
    /\ data' = [data EXCEPT ![job[q].path].rhiza = job[q].loaded]
    /\ Advance(q, "seeded")
    /\ UNCHANGED <<root, marker, markers, locks, job>>

Verify(q) ==
    /\ at[q] = "seeded"
    /\ data[job[q].path].rhiza = job[q].loaded
    /\ Advance(q, "verified")
    /\ UNCHANGED <<files, markers, locks, job>>

CloseSource(q) ==
    /\ at[q] = "verified"
    /\ sole' = [sole EXCEPT ![job[q].source] = None]
    /\ job' = [job EXCEPT ![q].source = None]
    /\ Advance(q, "closed")
    /\ UNCHANGED <<files, markers, shared>>

Publish(q) ==
    /\ at[q] = "closed"
    /\ migrating' = migrating \ {job[q].path}
    /\ LetGo(q)
    /\ UNCHANGED <<files, restoring>>

-----------------------------------------------------------------------------
RhizaStep(q) ==
    \/ MakeDirectory(q) \/ InspectDirectory(q)
    \/ CreateMarker(q) \/ WriteMarker(q) \/ RecogniseMarker(q)
    \/ OpenRhiza(q) \/ RestoreBreaksOff(q)

MigrationStep(q) ==
    \/ AskMigration(q) \/ MarkMigration(q) \/ OpenSource(q)
    \/ SeedSome(q) \/ SeedLast(q) \/ Verify(q) \/ CloseSource(q) \/ Publish(q)

OpenStep(q) ==
    \/ Ask(q) \/ Acquire(q) \/ Check(q) \/ MarkRestore(q)
    \/ InspectVersion(q) \/ OpenLattice(q)
    \/ Load(q) \/ CompleteRestore(q) \/ Save(q) \/ Stop(q)

Next == \E q \in Procs : OpenStep(q) \/ RhizaStep(q) \/ MigrationStep(q)

Spec == Init /\ [][Next]_vars

-----------------------------------------------------------------------------
(* Types.                                                                  *)

Jobs == [path : Paths \cup {None}, mode : Modes, driver : Drivers \cup {Default},
         source : Paths \cup {None}, loaded : Nat]

TypeOK ==
    /\ root \subseteq Paths
    /\ marker \in [Paths -> {"absent", "empty", "full"}]
    /\ data \in [Paths -> [rhiza : Data, lattice : Data]]
    /\ restoring \subseteq Paths /\ migrating \subseteq Paths
    /\ shared \in [Paths -> SUBSET Procs]
    /\ sole \in [Paths -> Procs \cup {None}]
    /\ at \in [Procs -> Steps]
    /\ job \in [Procs -> Jobs]

-----------------------------------------------------------------------------
(* Properties.                                                             *)

(* While an engine is in use, nothing at its path is an unfinished copy    *)
(* and no marker of one stands: an interrupted restore or migration is     *)
(* never served (the two checks of the markers, before the lock and under  *)
(* it).                                                                    *)
ServedIsWhole ==
    \A q \in Procs : at[q] = "open" =>
        /\ job[q].path \notin restoring \cup migrating
        /\ data[job[q].path][job[q].driver] \notin {Missing, Partial}

(* An incomplete copy never lies at a path without a marker that says so,  *)
(* wherever the process that was making it stopped.                        *)
HalfWorkIsMarked ==
    \A p \in Paths : data[p].rhiza = Partial => p \in restoring \cup migrating

(* A migration that has verified its target holds a copy of what the       *)
(* source holds at that moment, not of what it held when it was read: the  *)
(* source stays owned until then.                                          *)
CopyIsFaithful ==
    \A q \in Procs : at[q] = "verified" =>
        data[job[q].path].rhiza = State(data[job[q].source].lattice)

(* The last marker of a path comes down only on data with Yeoul's          *)
(* metadata: a restore of an absent archive, or a migration that seeded    *)
(* nothing, never ends as an empty database.                               *)
MarkersComeDownOnWholeData ==
    [][\A p \in restoring \cup migrating :
           p \notin restoring' \cup migrating' => data[p].rhiza \in Nat]_vars

(* What a process that owns a path alone finds there changes by its own    *)
(* steps only, from the moment it takes the lock.                          *)
OwnedPathIsUndisturbed ==
    [][\A p \in Paths : \A q \in Procs :
           sole[p] = q /\ at'[q] = at[q] /\ job'[q] = job[q] =>
               /\ data'[p] = data[p] /\ marker'[p] = marker[p]
               /\ p \in root' <=> p \in root
               /\ p \in restoring' <=> p \in restoring
               /\ p \in migrating' <=> p \in migrating]_vars

(* Two engines never claim one path (acquireOpenOwnership: "The exclusive  *)
(* lock makes the pair of steps a critical section").                      *)
SignaturesAgree == \A p \in Paths : Evident(p) # Drivers

(* A restore that was interrupted can be retried: the next attempt would   *)
(* accept the marker it finds.                                             *)
RestoreCanBeRetried ==
    \A p \in restoring : Unowned(p) => marker[p] # "empty"
=============================================================================
