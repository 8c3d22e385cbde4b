------------------------------ MODULE Artifacts ------------------------------
(***************************************************************************)
(* The files the command line derives from a database: the projection      *)
(* index (cmd/yeoul/index_commands.go: build, rebuild, verify) and the     *)
(* logical export (cmd/yeoul/admin_cmd.go), written by commands that run   *)
(* beside each other, fail, and lose power.                                *)
(*                                                                         *)
(* A database is the number of episodes it has taken in and, for each of   *)
(* its entities, the texts of its revisions in order: nothing is ever      *)
(* deleted.  A file is what it was made from, whether it is whole and      *)
(* whether it is synced.  `survivors` are the files a name may hold after  *)
(* the power went: the directory entry is durable once it is synced.       *)
(***************************************************************************)
EXTENDS Naturals, Sequences, FiniteSets, SequencesExt

CONSTANTS
    Commands,     \* commands that may run at one time
    Uses,         \* name -> what the commands do and how much is written (below)
    Entities,
    Texts,
    MaxExports,   \* bound on the exports published
    None          \* absent

Database == [episodes : Nat, names : [Entities -> Seq(Texts)]]

\* number: which export it is.
File == [from : Database, whole : BOOLEAN, synced : BOOLEAN, number : Nat]

ASSUME ArtifactsAssumption ==
    /\ \A name \in DOMAIN Uses : LET use == Uses[name] IN
          use.jobs \subseteq {"build", "verify", "export"}
            /\ use.replaces \in BOOLEAN
            /\ use.maxEpisodes \in Nat /\ use.maxRevisions \in Nat
    /\ MaxExports \in Nat
    /\ None \notin File /\ None \notin Database

Names == {"projection", "manifest", "export"}

VARIABLES
    using,     \* the name of the use this database is put to
    db,        \* the database
    entry,     \* the file under each name
    survivors, \* the files each name may hold after the power went
    at,        \* how far each command is
    held,      \* what it has read
    temp,      \* the file it has staged
    reported   \* the latest export that was reported done

vars == <<using, db, entry, survivors, at, held, temp, reported>>

Blank == [db |-> None, manifest |-> None, projection |-> None]
Empty == [episodes |-> 0, names |-> [e \in Entities |-> <<>>]]

Jobs == Uses[using].jobs
\* A rename takes the place of an existing file (not on Windows).
Replaces == Uses[using].replaces
MaxEpisodes == Uses[using].maxEpisodes
MaxRevisions == Uses[using].maxRevisions

Init ==
    /\ using \in DOMAIN Uses
    /\ db = Empty
    /\ entry = [n \in Names |-> None] /\ survivors = [n \in Names |-> {None}]
    /\ at = [c \in Commands |-> "idle"] /\ held = [c \in Commands |-> Blank]
    /\ temp = [c \in Commands |-> None]
    /\ reported = 0

-----------------------------------------------------------------------------
(* What a build derives: one document for each record, and counts.         *)

\* Without duplicates, in the order of the first occurrence.
Joined(s) ==
    FoldLeft(LAMBDA texts, t : IF Contains(texts, t) THEN texts ELSE Append(texts, t), <<>>, s)

\* The current text, then those of the revisions.
EntityText(revisions) == Joined(<<Last(revisions)>> \o revisions)

Named(d) == {e \in Entities : d.names[e] # <<>>}
Documents(d) ==
    {[record |-> n, text |-> <<>>] : n \in 1..d.episodes}
        \cup {[record |-> e, text |-> EntityText(d.names[e])] : e \in Named(d)}

Revisions(d) == UNION {{<<e, i>> : i \in 1..Len(d.names[e])} : e \in Entities}

Counts(d) ==
    [episodes |-> d.episodes, entities |-> Cardinality(Named(d)),
     revisions |-> Cardinality(Revisions(d))]

(* Mutant of SameCounts: only the records are counted. *)
SameRecords(d, e) ==
    Counts(d).episodes = Counts(e).episodes /\ Counts(d).entities = Counts(e).entities

SameCounts(d, e) == Counts(d) = Counts(e)

-----------------------------------------------------------------------------
(* Other processes write to the database: an episode, a revision.          *)

Ingest ==
    /\ db.episodes < MaxEpisodes
    /\ db' = [db EXCEPT !.episodes = @ + 1]
    /\ UNCHANGED <<using, entry, survivors, at, held, temp, reported>>

Upsert(e, text) ==
    /\ Len(db.names[e]) < MaxRevisions
    /\ db' = [db EXCEPT !.names[e] = Append(@, text)]
    /\ UNCHANGED <<using, entry, survivors, at, held, temp, reported>>

-----------------------------------------------------------------------------
Goes(c, step) == at' = [at EXCEPT ![c] = step]

Ends(c) ==
    /\ Goes(c, "idle")
    /\ held' = [held EXCEPT ![c] = Blank] /\ temp' = [temp EXCEPT ![c] = None]

MadeFrom(d) == [from |-> d, whole |-> TRUE, synced |-> FALSE, number |-> 0]

Places(name, file) ==
    /\ entry' = [entry EXCEPT ![name] = file]
    /\ survivors' = [survivors EXCEPT ![name] = @ \cup {file}]

\* A failed step, or the end of the process: temporary files are not found again.
Stop(c) ==
    /\ at[c] # "idle"
    /\ Ends(c)
    /\ UNCHANGED <<using, db, entry, survivors, reported>>

-----------------------------------------------------------------------------
(* index build: read the database, write two temporary files, rename both. *)

Build(c) ==
    /\ "build" \in Jobs /\ at[c] = "idle"
    /\ held' = [held EXCEPT ![c].db = db]
    /\ Goes(c, "staged")
    /\ UNCHANGED <<using, db, entry, survivors, temp, reported>>

\* replaceProjectionFile where a rename does not replace.
RemoveOld(c, name) ==
    /\ ~Replaces /\ entry[name] # None
    /\ at[c] = (IF name = "projection" THEN "staged" ELSE "half")
    /\ Places(name, None)
    /\ UNCHANGED <<using, db, at, held, temp, reported>>

Free(name) == Replaces \/ entry[name] = None

PublishProjection(c) ==
    /\ at[c] = "staged" /\ Free("projection")
    /\ Places("projection", MadeFrom(held[c].db))
    /\ Goes(c, "half")
    /\ UNCHANGED <<using, db, held, temp, reported>>

PublishManifest(c) ==
    /\ at[c] = "half" /\ Free("manifest")
    /\ Places("manifest", MadeFrom(held[c].db))
    /\ Ends(c)
    /\ UNCHANGED <<using, db, reported>>

-----------------------------------------------------------------------------
(* index verify: read the manifest, the projection, the database.          *)

ReadManifest(c) ==
    /\ "verify" \in Jobs /\ at[c] = "idle"
    /\ entry["projection"] # None /\ entry["manifest"] # None /\ entry["manifest"].whole
    /\ held' = [held EXCEPT ![c].manifest = entry["manifest"].from]
    /\ Goes(c, "manifest")
    /\ UNCHANGED <<using, db, entry, survivors, temp, reported>>

\* A torn file may still end between two documents.
Legible(file) ==
    IF file.whole THEN {Documents(file.from)} ELSE SUBSET Documents(file.from)

ReadProjection(c) ==
    /\ at[c] = "manifest" /\ entry["projection"] # None
    /\ \E docs \in Legible(entry["projection"]) :
          held' = [held EXCEPT ![c].projection = docs]
    /\ Goes(c, "projection")
    /\ UNCHANGED <<using, db, entry, survivors, temp, reported>>

\* runIndexVerify's comparisons; anything else ends the command with an error.
Agrees(manifest, docs) ==
    /\ Cardinality(docs) = Cardinality(Documents(manifest))
    /\ SameCounts(db, manifest)
    /\ docs = Documents(db)

Verify(c) ==
    /\ at[c] = "projection" /\ Agrees(held[c].manifest, held[c].projection)
    /\ held' = [held EXCEPT ![c].db = db]
    /\ Goes(c, "valid")
    /\ UNCHANGED <<using, db, entry, survivors, temp, reported>>

-----------------------------------------------------------------------------
(* admin export: write a staged file, sync it, rename it, sync the         *)
(* directory, report.                                                      *)

\* A database with revisions is refused (inactive facts have revisions too).
Importable(d) == Revisions(d) = {}

Export(c) ==
    /\ "export" \in Jobs /\ at[c] = "idle" /\ Importable(db)
    /\ held' = [held EXCEPT ![c].db = db]
    /\ temp' = [temp EXCEPT ![c] = [MadeFrom(db) EXCEPT !.whole = FALSE]]
    /\ Goes(c, "create")
    /\ UNCHANGED <<using, db, entry, survivors, reported>>

WriteExport(c) ==
    /\ at[c] = "create"
    /\ temp' = [temp EXCEPT ![c].whole = TRUE]
    /\ Goes(c, "written")
    /\ UNCHANGED <<using, db, entry, survivors, held, reported>>

SyncExport(c) ==
    /\ at[c] = "written"
    /\ temp' = [temp EXCEPT ![c].synced = TRUE]
    /\ Goes(c, "synced")
    /\ UNCHANGED <<using, db, entry, survivors, held, reported>>

LastNumber == IF entry["export"] = None THEN 0 ELSE entry["export"].number

RenameExport(c) ==
    /\ at[c] = "synced" /\ LastNumber < MaxExports
    /\ temp' = [temp EXCEPT ![c].number = LastNumber + 1]
    /\ Places("export", temp'[c])
    /\ Goes(c, "renamed")
    /\ UNCHANGED <<using, db, held, reported>>

(* Mutant of SyncDirectory: success is reported without a barrier. *)
NoBarrier(c) ==
    /\ at[c] = "renamed"
    /\ reported' = IF temp[c].number > reported THEN temp[c].number ELSE reported
    /\ Ends(c)
    /\ UNCHANGED <<using, db, entry, survivors>>

SyncDirectory(c) ==
    /\ at[c] = "renamed"
    /\ survivors' = [survivors EXCEPT !["export"] = {entry["export"]}]
    /\ reported' = IF temp[c].number > reported THEN temp[c].number ELSE reported
    /\ Ends(c)
    /\ UNCHANGED <<using, db, entry>>

-----------------------------------------------------------------------------
(* The power goes: commands end, names and unsynced contents are as the    *)
(* disk has them.                                                          *)

AfterLoss(file) ==
    IF file = None \/ file.synced THEN {file}
    ELSE {[file EXCEPT !.synced = TRUE, !.whole = w] : w \in {file.whole, FALSE}}

OnDisk(name) == UNION {AfterLoss(file) : file \in survivors[name]}

PowerLoss ==
    /\ \E p \in OnDisk("projection"), m \in OnDisk("manifest"), x \in OnDisk("export") :
          entry' = [projection |-> p, manifest |-> m, export |-> x]
    /\ survivors' = [n \in Names |-> {entry'[n]}]
    /\ at' = [c \in Commands |-> "idle"] /\ held' = [c \in Commands |-> Blank]
    /\ temp' = [c \in Commands |-> None]
    /\ UNCHANGED <<using, db, reported>>

Next ==
    \/ Ingest \/ PowerLoss
    \/ \E e \in Entities, text \in Texts : Upsert(e, text)
    \/ \E c \in Commands :
          \/ Stop(c) \/ Build(c) \/ PublishProjection(c) \/ PublishManifest(c)
          \/ \E name \in {"projection", "manifest"} : RemoveOld(c, name)
          \/ ReadManifest(c) \/ ReadProjection(c) \/ Verify(c)
          \/ Export(c) \/ WriteExport(c) \/ SyncExport(c) \/ RenameExport(c) \/ SyncDirectory(c)

Spec == Init /\ [][Next]_vars

-----------------------------------------------------------------------------
(* index verify (runIndexVerify) never compares the manifest with the      *)
(* projection, and reads three things one after another, beside builders   *)
(* that stop between their two renames: yet it says "valid" only of a      *)
(* projection and a manifest built from the database as it is then.        *)
ValidMeansCurrent ==
    \A c \in Commands : at[c] = "valid" =>
        held[c].manifest = held[c].db /\ held[c].projection = Documents(held[c].db)

(* writePrivateFile and syncPrivateFileDir: whatever fails, and when the    *)
(* power goes, the export path holds nothing or a whole export of an        *)
(* importable database, and an export reported as done is not lost, unless  *)
(* a later one took its place.                                              *)
ExportsAreWholeAndKept ==
    /\ entry["export"] # None => entry["export"].whole /\ Importable(entry["export"].from)
    /\ LastNumber >= reported

-----------------------------------------------------------------------------
(* What the proofs add to make these properties inductive.                 *)

Steps == {"idle", "staged", "half", "manifest", "projection", "valid",
          "create", "written", "synced", "renamed"}
TypeOK ==
    /\ using \in DOMAIN Uses
    /\ db \in Database /\ IsFiniteSet(Revisions(db))
    /\ entry \in [Names -> File \cup {None}]
    /\ survivors \in [Names -> SUBSET (File \cup {None})]
    /\ at \in [Commands -> Steps]
    /\ held = [c \in Commands |-> held[c]]
    /\ \A c \in Commands :
          /\ DOMAIN held[c] = DOMAIN Blank
          /\ held[c].db \in Database \cup {None}
          /\ held[c].manifest \in Database \cup {None}
    /\ temp \in [Commands -> File \cup {None}]
    /\ reported \in Nat

(* d is the database as it was, at a time before it was as it is now.      *)
Past(d, now) ==
    /\ d \in Database /\ d.episodes <= now.episodes
    /\ \A e \in Entities :
          /\ Len(d.names[e]) <= Len(now.names[e])
          /\ \A i \in 1..Len(d.names[e]) : d.names[e][i] = now.names[e][i]

(* A manifest tells of the past, and so does what is read from one.        *)
ManifestsTellThePast ==
    /\ entry["manifest"] \in survivors["manifest"]
    /\ \A file \in survivors["manifest"] : file # None => Past(file.from, db)
    /\ \A c \in Commands :
          /\ at[c] \in {"staged", "half"} => Past(held[c].db, db)
          /\ at[c] \in {"manifest", "projection", "valid"} => Past(held[c].manifest, db)

(* Only what is whole and synced gets the export's name, and whatever the  *)
(* power leaves there is no older than the last export reported.           *)
Sound(file) == file \in File /\ file.whole /\ file.synced /\ Importable(file.from)
ExportsAreStaged ==
    /\ entry["export"] \in survivors["export"]
    /\ \A file \in survivors["export"] :
          /\ file # None => Sound(file) /\ file.number >= reported
          /\ file = None => reported = 0
    /\ \A c \in Commands :
          /\ at[c] \in {"create", "written", "synced", "renamed"} =>
                temp[c] \in File /\ Importable(temp[c].from)
          /\ at[c] \in {"written", "synced", "renamed"} => temp[c].whole
          /\ at[c] \in {"synced", "renamed"} => temp[c].synced
          /\ at[c] = "renamed" => temp[c].number <= LastNumber

IInv == TypeOK /\ ManifestsTellThePast /\ ExportsAreStaged /\ ValidMeansCurrent
=============================================================================
