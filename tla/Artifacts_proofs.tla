-------------------------- MODULE Artifacts_proofs --------------------------
(***************************************************************************)
(* Theorems about Artifacts, for every set of commands, uses, entities and *)
(* texts.                                                                  *)
(***************************************************************************)
EXTENDS Artifacts, FiniteSetTheorems, SequenceTheorems, TLAPS

-----------------------------------------------------------------------------
(* The database and its past.                                              *)

LEMMA DatabaseFields ==
    ASSUME NEW d
    PROVE  d \in Database => /\ d.episodes \in Nat
                             /\ \A e \in Entities : d.names[e] \in Seq(Texts) /\ Len(d.names[e]) \in Nat
BY DEF Database

LEMMA OneMoreEpisode ==
    ASSUME NEW d \in Database
    PROVE  LET more == [d EXCEPT !.episodes = @ + 1]
           IN  more \in Database /\ more.episodes = d.episodes + 1 /\ more.names = d.names
BY DEF Database

LEMMA OneMoreRevision ==
    ASSUME NEW d \in Database, NEW e \in Entities, NEW text \in Texts
    PROVE  LET more == [d EXCEPT !.names[e] = Append(@, text)]
           IN  /\ more \in Database /\ more.episodes = d.episodes
               /\ \A x \in Entities \ {e} : more.names[x] = d.names[x]
               /\ more.names[e] = Append(d.names[e], text)
<1> DEFINE more == [d EXCEPT !.names[e] = Append(@, text)]
<1>1. /\ d.names \in [Entities -> Seq(Texts)] /\ d.episodes \in Nat
      /\ Append(d.names[e], text) \in Seq(Texts)
  BY AppendProperties DEF Database
<1> DEFINE names == [d.names EXCEPT ![e] = Append(@, text)]
<1>2. /\ names \in [Entities -> Seq(Texts)] /\ names[e] = Append(d.names[e], text)
      /\ \A x \in Entities \ {e} : names[x] = d.names[x]
  BY <1>1
<1>3. d = [episodes |-> d.episodes, names |-> d.names]
  BY DEF Database
<1>4. more = [d EXCEPT !.names = names]
  OBVIOUS
<1> HIDE DEF names
<1>5. [d EXCEPT !.names = names] = [episodes |-> d.episodes, names |-> names]
  BY <1>3
<1> HIDE DEF more
<1>6. more = [episodes |-> d.episodes, names |-> names]
  BY <1>4, <1>5
<1>7. more \in Database /\ more.episodes = d.episodes /\ more.names = names
  BY <1>1, <1>2, <1>6 DEF Database
<1> QED BY <1>2, <1>7 DEF more

LEMMA PastOfItself ==
    ASSUME NEW d \in Database
    PROVE  Past(d, d)
BY DatabaseFields DEF Past

(* What is past stays past, whatever is written.                           *)
LEMMA PastStays ==
    ASSUME NEW d, NEW now \in Database, NEW next \in Database, Past(d, now), Past(now, next)
    PROVE  Past(d, next)
<1>1. /\ d \in Database /\ d.episodes <= now.episodes /\ now.episodes <= next.episodes
      /\ \A e \in Entities :
            /\ Len(d.names[e]) <= Len(now.names[e]) /\ Len(now.names[e]) <= Len(next.names[e])
            /\ \A i \in 1..Len(d.names[e]) : d.names[e][i] = now.names[e][i]
            /\ \A i \in 1..Len(now.names[e]) : now.names[e][i] = next.names[e][i]
  BY DEF Past
<1>2. \A e \in Entities : Len(d.names[e]) \in Nat /\ Len(now.names[e]) \in Nat /\ Len(next.names[e]) \in Nat
  BY <1>1, DatabaseFields
<1>3. d.episodes <= next.episodes
  BY <1>1, DatabaseFields
<1>4. ASSUME NEW e \in Entities
      PROVE  /\ Len(d.names[e]) <= Len(next.names[e])
             /\ \A i \in 1..Len(d.names[e]) : d.names[e][i] = next.names[e][i]
  <2>1. \A i \in 1..Len(d.names[e]) : i \in 1..Len(now.names[e])
    BY <1>1, <1>2
  <2> QED BY <1>1, <1>2, <2>1
<1> QED BY <1>1, <1>3, <1>4 DEF Past

LEMMA RevisionsArePairs ==
    ASSUME NEW d, NEW r \in Revisions(d)
    PROVE  /\ r = <<r[1], r[2]>>
           /\ r[1] \in Entities /\ r[2] \in 1..Len(d.names[r[1]])
<1>1. PICK e \in Entities : r \in {<<e, i>> : i \in 1..Len(d.names[e])}
  BY DEF Revisions
<1>2. PICK i \in 1..Len(d.names[e]) : r = <<e, i>>
  BY <1>1
<1> QED BY <1>2

LEMMA RevisionsAre ==
    ASSUME NEW d, NEW e, NEW i
    PROVE  <<e, i>> \in Revisions(d) <=> e \in Entities /\ i \in 1..Len(d.names[e])
<1>1. ASSUME <<e, i>> \in Revisions(d) PROVE e \in Entities /\ i \in 1..Len(d.names[e])
  <2>1. /\ <<e, i>>[1] \in Entities
        /\ <<e, i>>[2] \in 1..Len(d.names[<<e, i>>[1]])
    BY <1>1, RevisionsArePairs
  <2> QED BY <2>1
<1>2. ASSUME e \in Entities, i \in 1..Len(d.names[e]) PROVE <<e, i>> \in Revisions(d)
  <2>1. <<e, i>> \in {<<e, j>> : j \in 1..Len(d.names[e])}
    BY <1>2
  <2> QED BY <1>2, <2>1 DEF Revisions
<1> QED BY <1>1, <1>2

(* The counts tell every moment of the past from the present.              *)
LEMMA CountsTellMoments ==
    ASSUME NEW d, NEW now \in Database, IsFiniteSet(Revisions(now)),
           Past(d, now), SameCounts(now, d)
    PROVE  d = now
<1>1. /\ d \in Database
      /\ \A e \in Entities :
            /\ Len(d.names[e]) <= Len(now.names[e])
            /\ \A i \in 1..Len(d.names[e]) : d.names[e][i] = now.names[e][i]
  BY DEF Past
<1>2. d.episodes = now.episodes /\ Cardinality(Revisions(d)) = Cardinality(Revisions(now))
  BY DEF SameCounts, Counts
<1>3. \A e \in Entities : Len(d.names[e]) \in Nat /\ Len(now.names[e]) \in Nat
  BY <1>1, DatabaseFields
<1>4. Revisions(d) \subseteq Revisions(now)
  <2> SUFFICES ASSUME NEW r \in Revisions(d) PROVE r \in Revisions(now)
    OBVIOUS
  <2>1. r = <<r[1], r[2]>>
    BY RevisionsArePairs
  <2>2. r[1] \in Entities /\ r[2] \in 1..Len(d.names[r[1]])
    BY RevisionsArePairs
  <2>3. r[2] \in 1..Len(now.names[r[1]])
    BY <1>1, <1>3, <2>2
  <2> QED BY <2>1, <2>2, <2>3, RevisionsAre
<1>5. Revisions(d) = Revisions(now)
  BY <1>2, <1>4, FS_Subset
<1>6. ASSUME NEW e \in Entities PROVE d.names[e] = now.names[e]
  <2>1. Len(d.names[e]) = Len(now.names[e])
    <3>1. ASSUME Len(d.names[e]) < Len(now.names[e]) PROVE FALSE
      <4>1. Len(now.names[e]) \in 1..Len(now.names[e]) /\ Len(now.names[e]) \notin 1..Len(d.names[e])
        BY <1>3, <3>1
      <4> QED BY <1>5, <4>1, RevisionsAre
    <3> QED BY <1>1, <1>3, <3>1
  <2>2. d.names[e] \in Seq(Texts) /\ now.names[e] \in Seq(Texts)
    BY <1>1, DatabaseFields
  <2> QED BY <1>1, <2>1, <2>2, SeqEqual
<1>7. d = [episodes |-> d.episodes, names |-> d.names] /\ now = [episodes |-> now.episodes, names |-> now.names]
  BY <1>1 DEF Database
<1>8. d.names = now.names
  BY <1>1, <1>6 DEF Database
<1> QED BY <1>2, <1>7, <1>8

(* A database only grows.                                                  *)
Written == Ingest \/ \E e \in Entities, text \in Texts : Upsert(e, text)

LEMMA WritesGrow ==
    ASSUME TypeOK, Written
    PROVE  db' \in Database /\ IsFiniteSet(Revisions(db')) /\ Past(db, db')
<1>1. db \in Database /\ IsFiniteSet(Revisions(db))
  BY DEF TypeOK
<1>2. CASE Ingest
  <2> DEFINE more == [db EXCEPT !.episodes = @ + 1]
  <2>1. more \in Database /\ more.episodes = db.episodes + 1 /\ more.names = db.names
    BY <1>1, OneMoreEpisode
  <2>2. db' = more
    BY <1>2 DEF Ingest
  <2> HIDE DEF more
  <2>3. Revisions(more) = Revisions(db)
    BY <2>1 DEF Revisions
  <2>4. Past(db, more)
    BY <1>1, <2>1, DatabaseFields DEF Past
  <2> QED BY <1>1, <2>1, <2>2, <2>3, <2>4
<1>3. ASSUME NEW e \in Entities, NEW text \in Texts, Upsert(e, text)
      PROVE  db' \in Database /\ IsFiniteSet(Revisions(db')) /\ Past(db, db')
  <2> DEFINE more == [db EXCEPT !.names[e] = Append(@, text)]
  <2>1. /\ more \in Database /\ more.episodes = db.episodes
        /\ \A x \in Entities \ {e} : more.names[x] = db.names[x]
        /\ more.names[e] = Append(db.names[e], text)
    BY <1>1, OneMoreRevision
  <2>2. db' = more
    BY <1>3 DEF Upsert
  <2> HIDE DEF more
  <2>3. /\ Len(more.names[e]) = Len(db.names[e]) + 1
        /\ \A i \in 1..Len(db.names[e]) : more.names[e][i] = db.names[e][i]
        /\ Len(db.names[e]) \in Nat
    BY <1>1, <2>1, DatabaseFields, AppendProperties
  <2>4. Past(db, more)
    <3>1. ASSUME NEW x \in Entities
          PROVE  /\ Len(db.names[x]) <= Len(more.names[x])
                 /\ \A i \in 1..Len(db.names[x]) : db.names[x][i] = more.names[x][i]
      <4>1. CASE x = e
        BY <2>3, <4>1
      <4>2. CASE x # e
        BY <1>1, <2>1, <4>2, DatabaseFields
      <4> QED BY <4>1, <4>2
    <3>2. db.episodes <= more.episodes
      BY <1>1, <2>1, DatabaseFields
    <3> QED BY <1>1, <3>1, <3>2 DEF Past
  <2>5. Revisions(more) = Revisions(db) \cup {<<e, Len(db.names[e]) + 1>>}
    <3>1. ASSUME NEW r \in Revisions(more) PROVE r \in Revisions(db) \cup {<<e, Len(db.names[e]) + 1>>}
      <4>1. r = <<r[1], r[2]>>
        BY RevisionsArePairs
      <4>2. r[1] \in Entities /\ r[2] \in 1..Len(more.names[r[1]])
        BY RevisionsArePairs
      <4>3. CASE r[1] = e
        <5>1. r[2] \in 1..Len(db.names[e]) \/ r[2] = Len(db.names[e]) + 1
          BY <2>3, <4>2, <4>3
        <5> QED BY <4>1, <4>2, <4>3, <5>1, RevisionsAre
      <4>4. CASE r[1] # e
        BY <2>1, <4>1, <4>2, <4>4, RevisionsAre
      <4> QED BY <4>3, <4>4
    <3>2. ASSUME NEW r \in Revisions(db) PROVE r \in Revisions(more)
      <4>1. r = <<r[1], r[2]>>
        BY RevisionsArePairs
      <4>2. r[1] \in Entities /\ r[2] \in 1..Len(db.names[r[1]])
        BY RevisionsArePairs
      <4>3. r[2] \in 1..Len(more.names[r[1]])
        BY <2>1, <2>3, <4>2
      <4> QED BY <4>1, <4>2, <4>3, RevisionsAre
    <3>3. <<e, Len(db.names[e]) + 1>> \in Revisions(more)
      BY <2>3, RevisionsAre
    <3> QED BY <3>1, <3>2, <3>3
  <2>6. IsFiniteSet(Revisions(more))
    BY <1>1, <2>5, FS_AddElement
  <2> QED BY <2>1, <2>2, <2>4, <2>6
<1> QED BY <1>2, <1>3 DEF Written

-----------------------------------------------------------------------------
(* What commands hold, and what the names may hold.                        *)

LEMMA TypeFacts ==
    ASSUME TypeOK
    PROVE  /\ db \in Database /\ reported \in Nat /\ using \in DOMAIN Uses
           /\ \A n \in Names : /\ entry[n] \in File \cup {None}
                               /\ survivors[n] \subseteq File \cup {None}
           /\ \A c \in Commands :
                 /\ at[c] \in Steps /\ temp[c] \in File \cup {None}
                 /\ DOMAIN held[c] = {"db", "manifest", "projection"}
                 /\ held[c].db \in Database \cup {None}
                 /\ held[c].manifest \in Database \cup {None}
BY DEF TypeOK, Blank

LEMMA MadeFromIsAFile ==
    ASSUME NEW d \in Database
    PROVE  MadeFrom(d) \in File /\ MadeFrom(d).from = d
BY DEF MadeFrom, File

LEMMA FileFields ==
    ASSUME NEW file \in File
    PROVE  /\ file.from \in Database /\ file.whole \in BOOLEAN /\ file.synced \in BOOLEAN /\ file.number \in Nat
           /\ \A w \in BOOLEAN :
                 /\ [file EXCEPT !.whole = w] \in File
                 /\ [file EXCEPT !.whole = w].from = file.from
                 /\ [file EXCEPT !.whole = w].whole = w
                 /\ [file EXCEPT !.synced = w] \in File
                 /\ [file EXCEPT !.synced = w].from = file.from
                 /\ [file EXCEPT !.synced = w].whole = file.whole
                 /\ [file EXCEPT !.synced = w].synced = w
           /\ \A n \in Nat :
                 /\ [file EXCEPT !.number = n] \in File
                 /\ [file EXCEPT !.number = n].from = file.from
                 /\ [file EXCEPT !.number = n].whole = file.whole
                 /\ [file EXCEPT !.number = n].synced = file.synced
                 /\ [file EXCEPT !.number = n].number = n
BY DEF File

(* What a step leaves of the manifests and of the export, when it writes   *)
(* under neither name.                                                     *)
ManifestUntouched == entry'["manifest"] = entry["manifest"] /\ survivors'["manifest"] = survivors["manifest"]
ExportUntouched ==
    /\ entry'["export"] = entry["export"] /\ survivors'["export"] = survivors["export"]
    /\ reported' = reported

(* A command moves on its own, from one step to another.                   *)
Moves(c) ==
    /\ at' = [at EXCEPT ![c] = at'[c]]
    /\ \A x \in Commands \ {c} : held'[x] = held[x] /\ temp'[x] = temp[x]

LEMMA OthersStay ==
    ASSUME TypeOK, NEW c \in Commands, Moves(c), NEW x \in Commands \ {c}
    PROVE  at'[x] = at[x] /\ held'[x] = held[x] /\ temp'[x] = temp[x]
BY DEF Moves, TypeOK

LEMMA ManifestsKept ==
    ASSUME TypeOK, ManifestsTellThePast, db' = db, ManifestUntouched, NEW c \in Commands, Moves(c),
           at'[c] \in {"staged", "half"} => Past(held'[c].db, db),
           at'[c] \in {"manifest", "projection", "valid"} => Past(held'[c].manifest, db)
    PROVE  ManifestsTellThePast'
<1>1. ASSUME NEW x \in Commands
      PROVE  /\ at'[x] \in {"staged", "half"} => Past(held'[x].db, db)
             /\ at'[x] \in {"manifest", "projection", "valid"} => Past(held'[x].manifest, db)
  <2>1. CASE x = c
    BY <2>1
  <2>2. CASE x # c
    BY <2>2, OthersStay DEF ManifestsTellThePast
  <2> QED BY <2>1, <2>2
<1> QED BY <1>1 DEF ManifestsTellThePast, ManifestUntouched

LEMMA ExportsKept ==
    ASSUME TypeOK, ExportsAreStaged, ExportUntouched, NEW c \in Commands, Moves(c),
           at'[c] \in {"create", "written", "synced", "renamed"} =>
              temp'[c] \in File /\ Importable(temp'[c].from),
           at'[c] \in {"written", "synced", "renamed"} => temp'[c].whole,
           at'[c] \in {"synced", "renamed"} => temp'[c].synced,
           at'[c] = "renamed" => temp'[c].number <= LastNumber
    PROVE  ExportsAreStaged'
<1>1. LastNumber' = LastNumber
  BY DEF LastNumber, ExportUntouched
<1>2. ASSUME NEW x \in Commands
      PROVE  /\ at'[x] \in {"create", "written", "synced", "renamed"} =>
                   temp'[x] \in File /\ Importable(temp'[x].from)
             /\ at'[x] \in {"written", "synced", "renamed"} => temp'[x].whole
             /\ at'[x] \in {"synced", "renamed"} => temp'[x].synced
             /\ at'[x] = "renamed" => temp'[x].number <= LastNumber
  <2>1. CASE x = c
    BY <2>1
  <2>2. CASE x # c
    BY <2>2, OthersStay DEF ExportsAreStaged
  <2> QED BY <2>1, <2>2
<1> QED BY <1>1, <1>2 DEF ExportsAreStaged, ExportUntouched

LEMMA ValidKept ==
    ASSUME TypeOK, ValidMeansCurrent, NEW c \in Commands, Moves(c),
           at'[c] = "valid" =>
              held'[c].manifest = held'[c].db /\ held'[c].projection = Documents(held'[c].db)
    PROVE  ValidMeansCurrent'
<1>1. ASSUME NEW x \in Commands, at'[x] = "valid"
      PROVE  held'[x].manifest = held'[x].db /\ held'[x].projection = Documents(held'[x].db)
  <2>1. CASE x = c
    BY <1>1, <2>1
  <2>2. CASE x # c
    BY <1>1, <2>2, OthersStay DEF ValidMeansCurrent
  <2> QED BY <2>1, <2>2
<1> QED BY <1>1 DEF ValidMeansCurrent

LEMMA TypeKept ==
    ASSUME TypeOK, db' = db, using' = using, NEW c \in Commands, Moves(c), at'[c] \in Steps,
           held' = [x \in Commands |-> held'[x]], DOMAIN held'[c] = {"db", "manifest", "projection"},
           held'[c].db \in Database \cup {None}, held'[c].manifest \in Database \cup {None},
           temp' = [x \in Commands |-> temp'[x]], temp'[c] \in File \cup {None},
           entry' = [n \in Names |-> entry'[n]], survivors' = [n \in Names |-> survivors'[n]],
           \A n \in Names : entry'[n] \in File \cup {None} /\ survivors'[n] \subseteq File \cup {None},
           reported' \in Nat
    PROVE  TypeOK'
<1>1. ASSUME NEW x \in Commands
      PROVE  /\ at'[x] \in Steps /\ temp'[x] \in File \cup {None}
             /\ DOMAIN held'[x] = {"db", "manifest", "projection"}
             /\ held'[x].db \in Database \cup {None}
             /\ held'[x].manifest \in Database \cup {None}
  <2>1. CASE x = c
    BY <2>1
  <2>2. CASE x # c
    BY <2>2, OthersStay, TypeFacts
  <2> QED BY <2>1, <2>2
<1>2. at' = [x \in Commands |-> at'[x]]
  BY DEF Moves, TypeOK
<1>3. /\ at' \in [Commands -> Steps] /\ temp' \in [Commands -> File \cup {None}]
      /\ entry' \in [Names -> File \cup {None}] /\ survivors' \in [Names -> SUBSET (File \cup {None})]
  BY <1>1, <1>2
<1>4. db' \in Database /\ IsFiniteSet(Revisions(db')) /\ using' \in DOMAIN Uses
  BY DEF TypeOK
<1>5. DOMAIN Blank = {"db", "manifest", "projection"}
  BY DEF Blank
<1> QED BY <1>1, <1>3, <1>4, <1>5 DEF TypeOK

-----------------------------------------------------------------------------
(* One lemma for each step.                                                *)

(* What EXCEPT leaves of one command's variables.                          *)
LEMMA Stepped ==
    ASSUME TypeOK, NEW c \in Commands, NEW step, Goes(c, step)
    PROVE  at'[c] = step /\ at' = [at EXCEPT ![c] = at'[c]]
BY DEF TypeOK, Goes

LEMMA Holds ==
    ASSUME TypeOK, NEW c \in Commands, NEW h, held' = [held EXCEPT ![c] = h]
    PROVE  /\ held'[c] = h /\ held' = [x \in Commands |-> held'[x]]
           /\ \A x \in Commands \ {c} : held'[x] = held[x]
BY DEF TypeOK

LEMMA Stages ==
    ASSUME TypeOK, NEW c \in Commands, NEW file, temp' = [temp EXCEPT ![c] = file]
    PROVE  /\ temp'[c] = file /\ temp' = [x \in Commands |-> temp'[x]]
           /\ \A x \in Commands \ {c} : temp'[x] = temp[x]
BY DEF TypeOK

LEMMA Maps ==
    ASSUME TypeOK
    PROVE  /\ held = [x \in Commands |-> held[x]] /\ temp = [x \in Commands |-> temp[x]]
           /\ entry = [n \in Names |-> entry[n]] /\ survivors = [n \in Names |-> survivors[n]]
BY DEF TypeOK

LEMMA Ended ==
    ASSUME TypeOK, NEW c \in Commands, Ends(c)
    PROVE  /\ at'[c] = "idle" /\ held'[c] = Blank /\ temp'[c] = None /\ Moves(c)
           /\ held' = [x \in Commands |-> held'[x]] /\ temp' = [x \in Commands |-> temp'[x]]
           /\ DOMAIN held'[c] = {"db", "manifest", "projection"}
           /\ held'[c].db = None /\ held'[c].manifest = None
<1>1. /\ Goes(c, "idle")
      /\ held' = [held EXCEPT ![c] = Blank] /\ temp' = [temp EXCEPT ![c] = None]
  BY DEF Ends
<1>2. at'[c] = "idle" /\ at' = [at EXCEPT ![c] = at'[c]]
  BY <1>1, Stepped
<1>3. /\ held'[c] = Blank /\ held' = [x \in Commands |-> held'[x]]
      /\ \A x \in Commands \ {c} : held'[x] = held[x]
  BY <1>1, Holds
<1>4. /\ temp'[c] = None /\ temp' = [x \in Commands |-> temp'[x]]
      /\ \A x \in Commands \ {c} : temp'[x] = temp[x]
  BY <1>1, Stages
<1>5. Moves(c)
  BY <1>2, <1>3, <1>4 DEF Moves
<1> QED BY <1>2, <1>3, <1>4, <1>5 DEF Blank

(* A step that only stops, or whose command only holds more than it did.   *)
LEMMA Unwritten ==
    ASSUME IInv, db' = db, using' = using, entry' = entry, survivors' = survivors, reported' = reported,
           NEW c \in Commands, Moves(c), at'[c] \in Steps,
           held' = [x \in Commands |-> held'[x]], DOMAIN held'[c] = {"db", "manifest", "projection"},
           held'[c].db \in Database \cup {None}, held'[c].manifest \in Database \cup {None},
           temp' = [x \in Commands |-> temp'[x]], temp'[c] \in File \cup {None},
           at'[c] \in {"staged", "half"} => Past(held'[c].db, db),
           at'[c] \in {"manifest", "projection", "valid"} => Past(held'[c].manifest, db),
           at'[c] \in {"create", "written", "synced", "renamed"} =>
              temp'[c] \in File /\ Importable(temp'[c].from),
           at'[c] \in {"written", "synced", "renamed"} => temp'[c].whole,
           at'[c] \in {"synced", "renamed"} => temp'[c].synced,
           at'[c] = "renamed" => temp'[c].number <= LastNumber,
           at'[c] = "valid" =>
              held'[c].manifest = held'[c].db /\ held'[c].projection = Documents(held'[c].db)
    PROVE  IInv'
<1>1. TypeOK /\ ManifestsTellThePast /\ ExportsAreStaged /\ ValidMeansCurrent
  BY DEF IInv
<1>2. ManifestUntouched /\ ExportUntouched
  BY DEF ManifestUntouched, ExportUntouched
<1>3. ManifestsTellThePast'
  BY <1>1, <1>2, ManifestsKept
<1>4. ExportsAreStaged'
  BY <1>1, <1>2, ExportsKept
<1>5. ValidMeansCurrent'
  BY <1>1, ValidKept
<1>6. TypeOK'
  <2>1. \A n \in Names : entry'[n] \in File \cup {None} /\ survivors'[n] \subseteq File \cup {None}
    BY <1>1, TypeFacts
  <2>2. entry' = [n \in Names |-> entry'[n]] /\ survivors' = [n \in Names |-> survivors'[n]] /\ reported' \in Nat
    BY <1>1, Maps, TypeFacts
  <2> QED BY <1>1, <2>1, <2>2, TypeKept
<1> QED BY <1>3, <1>4, <1>5, <1>6 DEF IInv

LEMMA StopStep ==
    ASSUME IInv, NEW c \in Commands, Stop(c)
    PROVE  IInv'
<1>1. TypeOK /\ Ends(c) /\ UNCHANGED <<using, db, entry, survivors, reported>>
  BY DEF IInv, Stop
<1> QED BY <1>1, Ended, Unwritten DEF Steps

LEMMA BuildStep ==
    ASSUME IInv, NEW c \in Commands, Build(c)
    PROVE  IInv'
<1>1. /\ TypeOK /\ Goes(c, "staged") /\ UNCHANGED <<using, db, entry, survivors, temp, reported>>
      /\ held' = [held EXCEPT ![c] = [held[c] EXCEPT !.db = db]]
  BY DEF IInv, Build
<1>2. at'[c] = "staged" /\ at' = [at EXCEPT ![c] = at'[c]]
  BY <1>1, Stepped
<1>3. /\ held'[c] = [held[c] EXCEPT !.db = db] /\ held' = [x \in Commands |-> held'[x]]
      /\ \A x \in Commands \ {c} : held'[x] = held[x]
  BY <1>1, Holds
<1>4. /\ DOMAIN held'[c] = {"db", "manifest", "projection"}
      /\ held'[c].db = db /\ held'[c].manifest = held[c].manifest
  BY <1>1, <1>3, TypeFacts
<1>5. Moves(c) /\ temp' = [x \in Commands |-> temp'[x]]
  BY <1>1, <1>2, <1>3, Maps DEF Moves
<1>6. Past(held'[c].db, db)
  BY <1>1, <1>4, TypeFacts, PastOfItself
<1> QED BY <1>1, <1>2, <1>3, <1>4, <1>5, <1>6, TypeFacts, Unwritten DEF Steps

LEMMA ReadManifestStep ==
    ASSUME IInv, NEW c \in Commands, ReadManifest(c)
    PROVE  IInv'
<1> DEFINE read == entry["manifest"].from
<1>1. /\ TypeOK /\ Goes(c, "manifest") /\ UNCHANGED <<using, db, entry, survivors, temp, reported>>
      /\ held' = [held EXCEPT ![c] = [held[c] EXCEPT !.manifest = read]]
  BY DEF IInv, ReadManifest
<1>2. at'[c] = "manifest" /\ at' = [at EXCEPT ![c] = at'[c]]
  BY <1>1, Stepped
<1>3. /\ held'[c] = [held[c] EXCEPT !.manifest = read] /\ held' = [x \in Commands |-> held'[x]]
      /\ \A x \in Commands \ {c} : held'[x] = held[x]
  BY <1>1, Holds
<1>4. /\ DOMAIN held'[c] = {"db", "manifest", "projection"}
      /\ held'[c].db = held[c].db /\ held'[c].manifest = read
  <2> HIDE DEF read
  <2> QED BY <1>1, <1>3, TypeFacts
<1>5. Moves(c) /\ temp' = [x \in Commands |-> temp'[x]]
  BY <1>1, <1>2, <1>3, Maps DEF Moves
<1>6. Past(read, db)
  <2>1. entry["manifest"] # None
    BY DEF ReadManifest
  <2> QED BY <2>1 DEF IInv, ManifestsTellThePast
<1>7. read \in Database
  BY <1>6 DEF Past
<1> HIDE DEF read
<1> QED BY <1>1, <1>2, <1>3, <1>4, <1>5, <1>6, <1>7, TypeFacts, Unwritten DEF Steps

LEMMA ReadProjectionStep ==
    ASSUME IInv, NEW c \in Commands, ReadProjection(c)
    PROVE  IInv'
<1>1. /\ TypeOK /\ at[c] = "manifest" /\ Goes(c, "projection")
      /\ UNCHANGED <<using, db, entry, survivors, temp, reported>>
  BY DEF IInv, ReadProjection
<1>2. PICK docs : held' = [held EXCEPT ![c] = [held[c] EXCEPT !.projection = docs]]
  BY DEF ReadProjection
<1>3. at'[c] = "projection" /\ at' = [at EXCEPT ![c] = at'[c]]
  BY <1>1, Stepped
<1>4. /\ held'[c] = [held[c] EXCEPT !.projection = docs] /\ held' = [x \in Commands |-> held'[x]]
      /\ \A x \in Commands \ {c} : held'[x] = held[x]
  BY <1>1, <1>2, Holds
<1>5. /\ DOMAIN held'[c] = {"db", "manifest", "projection"}
      /\ held'[c].db = held[c].db /\ held'[c].manifest = held[c].manifest
  BY <1>1, <1>4, TypeFacts
<1>6. Moves(c) /\ temp' = [x \in Commands |-> temp'[x]]
  BY <1>1, <1>3, <1>4, Maps DEF Moves
<1>7. Past(held'[c].manifest, db)
  BY <1>1, <1>5 DEF IInv, ManifestsTellThePast
<1> QED BY <1>1, <1>3, <1>4, <1>5, <1>6, <1>7, TypeFacts, Unwritten DEF Steps

LEMMA VerifyStep ==
    ASSUME IInv, NEW c \in Commands, Verify(c)
    PROVE  IInv'
<1>1. /\ TypeOK /\ at[c] = "projection" /\ Goes(c, "valid")
      /\ UNCHANGED <<using, db, entry, survivors, temp, reported>>
      /\ held' = [held EXCEPT ![c] = [held[c] EXCEPT !.db = db]]
      /\ SameCounts(db, held[c].manifest) /\ held[c].projection = Documents(db)
  BY DEF IInv, Verify, Agrees
<1>2. at'[c] = "valid" /\ at' = [at EXCEPT ![c] = at'[c]]
  BY <1>1, Stepped
<1>3. /\ held'[c] = [held[c] EXCEPT !.db = db] /\ held' = [x \in Commands |-> held'[x]]
      /\ \A x \in Commands \ {c} : held'[x] = held[x]
  BY <1>1, Holds
<1>4. /\ DOMAIN held'[c] = {"db", "manifest", "projection"}
      /\ held'[c].db = db /\ held'[c].manifest = held[c].manifest
      /\ held'[c].projection = held[c].projection
  BY <1>1, <1>3, TypeFacts
<1>5. Moves(c) /\ temp' = [x \in Commands |-> temp'[x]]
  BY <1>1, <1>2, <1>3, Maps DEF Moves
<1>6. Past(held[c].manifest, db)
  BY <1>1 DEF IInv, ManifestsTellThePast
<1>7. held[c].manifest = db
  BY <1>1, <1>6, CountsTellMoments DEF TypeOK
<1> QED BY <1>1, <1>2, <1>3, <1>4, <1>5, <1>6, <1>7, TypeFacts, Unwritten DEF Steps

LEMMA ExportStep ==
    ASSUME IInv, NEW c \in Commands, Export(c)
    PROVE  IInv'
<1> DEFINE file == [MadeFrom(db) EXCEPT !.whole = FALSE]
<1>1. /\ TypeOK /\ Goes(c, "create") /\ UNCHANGED <<using, db, entry, survivors, reported>>
      /\ held' = [held EXCEPT ![c] = [held[c] EXCEPT !.db = db]]
      /\ temp' = [temp EXCEPT ![c] = file] /\ Importable(db)
  BY DEF IInv, Export
<1>2. at'[c] = "create" /\ at' = [at EXCEPT ![c] = at'[c]]
  BY <1>1, Stepped
<1>3. /\ held'[c] = [held[c] EXCEPT !.db = db] /\ held' = [x \in Commands |-> held'[x]]
      /\ \A x \in Commands \ {c} : held'[x] = held[x]
  BY <1>1, Holds
<1>4. /\ DOMAIN held'[c] = {"db", "manifest", "projection"}
      /\ held'[c].db = db /\ held'[c].manifest = held[c].manifest
  BY <1>1, <1>3, TypeFacts
<1>5. /\ temp'[c] = file /\ temp' = [x \in Commands |-> temp'[x]]
      /\ \A x \in Commands \ {c} : temp'[x] = temp[x]
  BY <1>1, Stages
<1>6. Moves(c)
  BY <1>2, <1>3, <1>5 DEF Moves
<1>7. file \in File /\ file.from = db
  <2>1. db \in Database
    BY <1>1, TypeFacts
  <2> DEFINE made == MadeFrom(db)
  <2>2. made \in File /\ made.from = db
    BY <2>1, MadeFromIsAFile
  <2>3. file = [made EXCEPT !.whole = FALSE]
    OBVIOUS
  <2> HIDE DEF made, file
  <2> QED BY <2>2, <2>3 DEF File
<1> HIDE DEF file
<1> QED BY <1>1, <1>2, <1>3, <1>4, <1>5, <1>6, <1>7, TypeFacts, Unwritten DEF Steps

LEMMA WriteExportStep ==
    ASSUME IInv, NEW c \in Commands, WriteExport(c)
    PROVE  IInv'
<1> DEFINE file == [temp[c] EXCEPT !.whole = TRUE]
<1>1. /\ TypeOK /\ at[c] = "create" /\ Goes(c, "written")
      /\ UNCHANGED <<using, db, entry, survivors, held, reported>>
      /\ temp' = [temp EXCEPT ![c] = file]
  BY DEF IInv, WriteExport
<1>2. at'[c] = "written" /\ at' = [at EXCEPT ![c] = at'[c]]
  BY <1>1, Stepped
<1>3. /\ temp'[c] = file /\ temp' = [x \in Commands |-> temp'[x]]
      /\ \A x \in Commands \ {c} : temp'[x] = temp[x]
  BY <1>1, Stages
<1>4. Moves(c) /\ held' = [x \in Commands |-> held'[x]]
  BY <1>1, <1>2, <1>3, Maps DEF Moves
<1>5. temp[c] \in File /\ Importable(temp[c].from)
  BY <1>1 DEF IInv, ExportsAreStaged
<1>6. file \in File /\ file.from = temp[c].from /\ file.whole
  BY <1>5, FileFields
<1> HIDE DEF file
<1> QED BY <1>1, <1>2, <1>3, <1>4, <1>5, <1>6, TypeFacts, Unwritten DEF Steps

LEMMA SyncExportStep ==
    ASSUME IInv, NEW c \in Commands, SyncExport(c)
    PROVE  IInv'
<1> DEFINE file == [temp[c] EXCEPT !.synced = TRUE]
<1>1. /\ TypeOK /\ at[c] = "written" /\ Goes(c, "synced")
      /\ UNCHANGED <<using, db, entry, survivors, held, reported>>
      /\ temp' = [temp EXCEPT ![c] = file]
  BY DEF IInv, SyncExport
<1>2. at'[c] = "synced" /\ at' = [at EXCEPT ![c] = at'[c]]
  BY <1>1, Stepped
<1>3. /\ temp'[c] = file /\ temp' = [x \in Commands |-> temp'[x]]
      /\ \A x \in Commands \ {c} : temp'[x] = temp[x]
  BY <1>1, Stages
<1>4. Moves(c) /\ held' = [x \in Commands |-> held'[x]]
  BY <1>1, <1>2, <1>3, Maps DEF Moves
<1>5. temp[c] \in File /\ Importable(temp[c].from) /\ temp[c].whole
  BY <1>1 DEF IInv, ExportsAreStaged
<1>6. file \in File /\ file.from = temp[c].from /\ file.whole = temp[c].whole /\ file.synced
  BY <1>5, FileFields
<1> HIDE DEF file
<1> QED BY <1>1, <1>2, <1>3, <1>4, <1>5, <1>6, TypeFacts, Unwritten DEF Steps

(* What a command puts under a name.                                       *)
LEMMA Placed ==
    ASSUME TypeOK, NEW name \in Names, NEW file \in File \cup {None}, Places(name, file)
    PROVE  /\ entry'[name] = file /\ survivors'[name] = survivors[name] \cup {file}
           /\ entry' = [n \in Names |-> entry'[n]] /\ survivors' = [n \in Names |-> survivors'[n]]
           /\ \A n \in Names \ {name} : entry'[n] = entry[n] /\ survivors'[n] = survivors[n]
           /\ \A n \in Names : /\ entry'[n] \in File \cup {None}
                               /\ survivors'[n] \subseteq File \cup {None}
<1>1. /\ entry'[name] = file /\ survivors'[name] = survivors[name] \cup {file}
      /\ entry' = [n \in Names |-> entry'[n]] /\ survivors' = [n \in Names |-> survivors'[n]]
      /\ \A n \in Names \ {name} : entry'[n] = entry[n] /\ survivors'[n] = survivors[n]
  BY DEF TypeOK, Places
<1>2. ASSUME NEW n \in Names
      PROVE  entry'[n] \in File \cup {None} /\ survivors'[n] \subseteq File \cup {None}
  <2>1. CASE n = name
    BY <1>1, <2>1, TypeFacts
  <2>2. CASE n # name
    BY <1>1, <2>2, TypeFacts
  <2> QED BY <2>1, <2>2
<1> QED BY <1>1, <1>2

LEMMA NamesAreThree ==
    /\ "projection" \in Names /\ "manifest" \in Names /\ "export" \in Names
    /\ "export" # "manifest" /\ "export" # "projection" /\ "manifest" # "projection"
BY DEF Names

(* What is put under the name of the projection or the manifest.           *)
LEMMA IndexPlaced ==
    ASSUME TypeOK, ManifestsTellThePast, db' = db, NEW name \in {"projection", "manifest"},
           NEW file \in File \cup {None}, Places(name, file), reported' = reported,
           name = "manifest" /\ file # None => Past(file.from, db)
    PROVE  /\ ExportUntouched
           /\ entry'["manifest"] \in survivors'["manifest"]
           /\ \A f \in survivors'["manifest"] : f # None => Past(f.from, db)
<1>1. name \in Names
  BY NamesAreThree
<1>2. ExportUntouched
  BY <1>1, Placed, NamesAreThree DEF ExportUntouched
<1>3. CASE name = "manifest"
  <2>1. entry'["manifest"] = file /\ survivors'["manifest"] = survivors["manifest"] \cup {file}
    BY <1>1, <1>3, Placed
  <2>2. \A f \in survivors["manifest"] : f # None => Past(f.from, db)
    BY DEF ManifestsTellThePast
  <2> QED BY <1>2, <1>3, <2>1, <2>2
<1>4. CASE name = "projection"
  <2>1. entry'["manifest"] = entry["manifest"] /\ survivors'["manifest"] = survivors["manifest"]
    BY <1>1, <1>4, Placed, NamesAreThree
  <2> QED BY <1>2, <2>1 DEF ManifestsTellThePast
<1> QED BY <1>2, <1>3, <1>4

LEMMA RemoveOldStep ==
    ASSUME IInv, NEW c \in Commands, NEW name \in {"projection", "manifest"}, RemoveOld(c, name)
    PROVE  IInv'
<1>1. /\ TypeOK /\ ManifestsTellThePast /\ ExportsAreStaged /\ ValidMeansCurrent
      /\ Places(name, None) /\ UNCHANGED <<using, db, at, held, temp, reported>>
  BY DEF IInv, RemoveOld
<1>2. /\ ExportUntouched /\ entry'["manifest"] \in survivors'["manifest"]
      /\ \A f \in survivors'["manifest"] : f # None => Past(f.from, db)
  BY <1>1, IndexPlaced
<1>3. ManifestsTellThePast'
  BY <1>1, <1>2 DEF ManifestsTellThePast
<1>4. ExportsAreStaged'
  BY <1>1, <1>2 DEF ExportsAreStaged, ExportUntouched, LastNumber
<1>5. TypeOK'
  <2>1. name \in Names
    BY NamesAreThree
  <2>2. /\ entry' = [n \in Names |-> entry'[n]] /\ survivors' = [n \in Names |-> survivors'[n]]
        /\ \A n \in Names : entry'[n] \in File \cup {None} /\ survivors'[n] \subseteq File \cup {None}
    BY <1>1, <2>1, Placed
  <2>3. entry' \in [Names -> File \cup {None}] /\ survivors' \in [Names -> SUBSET (File \cup {None})]
    BY <2>2
  <2> QED BY <1>1, <2>3 DEF TypeOK
<1>6. ValidMeansCurrent'
  BY <1>1 DEF ValidMeansCurrent
<1> QED BY <1>3, <1>4, <1>5, <1>6 DEF IInv

LEMMA PublishProjectionStep ==
    ASSUME IInv, NEW c \in Commands, PublishProjection(c)
    PROVE  IInv'
<1> DEFINE file == MadeFrom(held[c].db)
<1>1. /\ TypeOK /\ ManifestsTellThePast /\ ExportsAreStaged /\ ValidMeansCurrent
      /\ at[c] = "staged" /\ Goes(c, "half")
      /\ Places("projection", file) /\ UNCHANGED <<using, db, held, temp, reported>>
  BY DEF IInv, PublishProjection
<1>2. Past(held[c].db, db)
  BY <1>1 DEF ManifestsTellThePast
<1>3. file \in File /\ file.from = held[c].db
  BY <1>2, MadeFromIsAFile DEF Past
<1> HIDE DEF file
<1>4. at'[c] = "half" /\ at' = [at EXCEPT ![c] = at'[c]] /\ Moves(c)
  BY <1>1, Stepped DEF Moves
<1>5. /\ ExportUntouched /\ entry'["manifest"] \in survivors'["manifest"]
      /\ \A f \in survivors'["manifest"] : f # None => Past(f.from, db)
  BY <1>1, <1>2, <1>3, IndexPlaced
<1>6. ManifestsTellThePast'
  <2>1. ManifestUntouched
    BY <1>1, <1>3, Placed, NamesAreThree DEF ManifestUntouched
  <2> QED BY <1>1, <1>2, <1>4, <2>1, ManifestsKept
<1>7. ExportsAreStaged'
  BY <1>1, <1>4, <1>5, ExportsKept
<1>8. ValidMeansCurrent'
  BY <1>1, <1>4, ValidKept
<1>9. TypeOK'
  <2>1. /\ held' = [x \in Commands |-> held'[x]] /\ temp' = [x \in Commands |-> temp'[x]]
        /\ "half" \in Steps
    BY <1>1, Maps DEF Steps
  <2>2. /\ entry' = [n \in Names |-> entry'[n]] /\ survivors' = [n \in Names |-> survivors'[n]]
        /\ \A n \in Names : entry'[n] \in File \cup {None} /\ survivors'[n] \subseteq File \cup {None}
    BY <1>1, <1>3, NamesAreThree, Placed
  <2> QED BY <1>1, <1>4, <2>1, <2>2, TypeFacts, TypeKept
<1> QED BY <1>6, <1>7, <1>8, <1>9 DEF IInv

LEMMA PublishManifestStep ==
    ASSUME IInv, NEW c \in Commands, PublishManifest(c)
    PROVE  IInv'
<1> DEFINE file == MadeFrom(held[c].db)
<1>1. /\ TypeOK /\ ManifestsTellThePast /\ ExportsAreStaged /\ ValidMeansCurrent
      /\ at[c] = "half" /\ Ends(c)
      /\ Places("manifest", file) /\ UNCHANGED <<using, db, reported>>
  BY DEF IInv, PublishManifest
<1>2. Past(held[c].db, db)
  BY <1>1 DEF ManifestsTellThePast
<1>3. file \in File /\ file.from = held[c].db
  BY <1>2, MadeFromIsAFile DEF Past
<1> HIDE DEF file
<1>4. /\ at'[c] = "idle" /\ held'[c] = Blank /\ temp'[c] = None /\ Moves(c)
      /\ held' = [x \in Commands |-> held'[x]] /\ temp' = [x \in Commands |-> temp'[x]]
      /\ DOMAIN held'[c] = {"db", "manifest", "projection"}
      /\ held'[c].db = None /\ held'[c].manifest = None
  BY <1>1, Ended
<1>5. /\ ExportUntouched /\ entry'["manifest"] \in survivors'["manifest"]
      /\ \A f \in survivors'["manifest"] : f # None => Past(f.from, db)
  BY <1>1, <1>2, <1>3, IndexPlaced
<1>6. ManifestsTellThePast'
  <2>1. ASSUME NEW x \in Commands
        PROVE  /\ at'[x] \in {"staged", "half"} => Past(held'[x].db, db)
               /\ at'[x] \in {"manifest", "projection", "valid"} => Past(held'[x].manifest, db)
    <3>1. CASE x = c
      BY <1>4, <3>1
    <3>2. CASE x # c
      BY <1>1, <1>4, <3>2, OthersStay DEF ManifestsTellThePast
    <3> QED BY <3>1, <3>2
  <2> QED BY <1>1, <1>5, <2>1 DEF ManifestsTellThePast
<1>7. ExportsAreStaged'
  BY <1>1, <1>4, <1>5, ExportsKept
<1>8. ValidMeansCurrent'
  BY <1>1, <1>4, ValidKept
<1>9. TypeOK'
  <2>1. "idle" \in Steps
    BY DEF Steps
  <2>2. /\ entry' = [n \in Names |-> entry'[n]] /\ survivors' = [n \in Names |-> survivors'[n]]
        /\ \A n \in Names : entry'[n] \in File \cup {None} /\ survivors'[n] \subseteq File \cup {None}
    BY <1>1, <1>3, NamesAreThree, Placed
  <2> QED BY <1>1, <1>4, <2>1, <2>2, TypeFacts, TypeKept
<1> QED BY <1>6, <1>7, <1>8, <1>9 DEF IInv

(* The latest export is as new as the last one reported.                   *)
LEMMA LastIsReported ==
    ASSUME TypeOK, ExportsAreStaged
    PROVE  LastNumber \in Nat /\ LastNumber >= reported
<1>1. entry["export"] \in File \cup {None} /\ entry["export"] \in survivors["export"]
  BY TypeFacts, NamesAreThree DEF ExportsAreStaged
<1>2. CASE entry["export"] = None
  BY <1>1, <1>2 DEF LastNumber, ExportsAreStaged
<1>3. CASE entry["export"] # None
  BY <1>1, <1>3, FileFields DEF LastNumber, ExportsAreStaged
<1> QED BY <1>2, <1>3

LEMMA RenameExportStep ==
    ASSUME IInv, NEW c \in Commands, RenameExport(c)
    PROVE  IInv'
<1> DEFINE file == [temp[c] EXCEPT !.number = LastNumber + 1]
<1>1. /\ TypeOK /\ ManifestsTellThePast /\ ExportsAreStaged /\ ValidMeansCurrent
      /\ at[c] = "synced" /\ Goes(c, "renamed")
      /\ temp' = [temp EXCEPT ![c] = file] /\ UNCHANGED <<using, db, held, reported>>
  BY DEF IInv, RenameExport
<1>2. temp[c] \in File /\ Importable(temp[c].from) /\ temp[c].whole /\ temp[c].synced
  BY <1>1 DEF ExportsAreStaged
<1>3. LastNumber \in Nat /\ LastNumber + 1 \in Nat /\ LastNumber >= reported /\ reported \in Nat
  BY <1>1, LastIsReported, TypeFacts
<1>4. Sound(file) /\ file \in File /\ file.number = LastNumber + 1
  BY <1>2, <1>3, FileFields DEF Sound
<1> HIDE DEF file
<1>5. /\ temp'[c] = file /\ temp' = [x \in Commands |-> temp'[x]]
      /\ \A x \in Commands \ {c} : temp'[x] = temp[x]
  BY <1>1, Stages
<1>6. Places("export", file)
  BY <1>5 DEF RenameExport
<1>7. /\ entry'["export"] = file /\ survivors'["export"] = survivors["export"] \cup {file}
      /\ entry' = [n \in Names |-> entry'[n]] /\ survivors' = [n \in Names |-> survivors'[n]]
      /\ ManifestUntouched
      /\ \A n \in Names : entry'[n] \in File \cup {None} /\ survivors'[n] \subseteq File \cup {None}
  BY <1>1, <1>4, <1>6, Placed, NamesAreThree DEF ManifestUntouched
<1>8. at'[c] = "renamed" /\ at' = [at EXCEPT ![c] = at'[c]] /\ Moves(c)
  BY <1>1, <1>5, Stepped DEF Moves
<1>9. ManifestsTellThePast'
  BY <1>1, <1>7, <1>8, ManifestsKept
<1>10. file # None
  BY <1>4, ArtifactsAssumption
<1>11. LastNumber' = LastNumber + 1
  BY <1>4, <1>7, <1>10 DEF LastNumber
<1>12. ExportsAreStaged'
  <2>1. \A f \in survivors'["export"] :
           /\ f # None => Sound(f) /\ f.number >= reported
           /\ f = None => reported = 0
    BY <1>1, <1>3, <1>4, <1>7, <1>10 DEF ExportsAreStaged
  <2>2. ASSUME NEW x \in Commands
        PROVE  /\ at'[x] \in {"create", "written", "synced", "renamed"} =>
                     temp'[x] \in File /\ Importable(temp'[x].from)
               /\ at'[x] \in {"written", "synced", "renamed"} => temp'[x].whole
               /\ at'[x] \in {"synced", "renamed"} => temp'[x].synced
               /\ at'[x] = "renamed" => temp'[x].number <= LastNumber'
    <3>1. CASE x = c
      BY <1>3, <1>4, <1>5, <1>11, <3>1 DEF Sound
    <3>2. CASE x # c
      <4>1. at'[x] = at[x] /\ temp'[x] = temp[x]
        BY <1>1, <1>8, <3>2, OthersStay
      <4>2. at[x] = "renamed" => temp[x].number <= LastNumber /\ temp[x].number \in Nat
        BY <1>1, FileFields DEF ExportsAreStaged
      <4> QED BY <1>1, <1>3, <1>11, <4>1, <4>2 DEF ExportsAreStaged
    <3> QED BY <3>1, <3>2
  <2> QED BY <1>1, <1>7, <2>1, <2>2 DEF ExportsAreStaged
<1>13. ValidMeansCurrent'
  BY <1>1, <1>8, ValidKept
<1>14. TypeOK'
  <2>1. held' = [x \in Commands |-> held'[x]] /\ "renamed" \in Steps
    BY <1>1, Maps DEF Steps
  <2> QED BY <1>1, <1>4, <1>5, <1>7, <1>8, <2>1, TypeFacts, TypeKept
<1> QED BY <1>9, <1>12, <1>13, <1>14 DEF IInv

LEMMA SyncDirectoryStep ==
    ASSUME IInv, NEW c \in Commands, SyncDirectory(c)
    PROVE  IInv'
<1>1. /\ TypeOK /\ ManifestsTellThePast /\ ExportsAreStaged /\ ValidMeansCurrent
      /\ at[c] = "renamed" /\ Ends(c) /\ UNCHANGED <<using, db, entry>>
      /\ survivors' = [survivors EXCEPT !["export"] = {entry["export"]}]
      /\ reported' = IF temp[c].number > reported THEN temp[c].number ELSE reported
  BY DEF IInv, SyncDirectory
<1>2. temp[c] \in File /\ temp[c].number \in Nat /\ temp[c].number <= LastNumber
  BY <1>1, FileFields DEF ExportsAreStaged
<1>3. LastNumber \in Nat /\ LastNumber >= reported /\ reported \in Nat
  BY <1>1, LastIsReported, TypeFacts
<1>4. reported' \in Nat /\ reported' <= LastNumber
  BY <1>1, <1>2, <1>3
<1>5. /\ at'[c] = "idle" /\ held'[c] = Blank /\ temp'[c] = None /\ Moves(c)
      /\ held' = [x \in Commands |-> held'[x]] /\ temp' = [x \in Commands |-> temp'[x]]
      /\ DOMAIN held'[c] = {"db", "manifest", "projection"}
      /\ held'[c].db = None /\ held'[c].manifest = None
  BY <1>1, Ended
<1>6. /\ survivors'["export"] = {entry["export"]} /\ survivors' = [n \in Names |-> survivors'[n]]
      /\ \A n \in Names \ {"export"} : survivors'[n] = survivors[n]
  BY <1>1, NamesAreThree DEF TypeOK
<1>7. ManifestsTellThePast'
  <2>1. ManifestUntouched
    BY <1>1, <1>6, NamesAreThree DEF ManifestUntouched
  <2> QED BY <1>1, <1>5, <2>1, ManifestsKept
<1>8. ExportsAreStaged'
  <2>1. LastNumber' = LastNumber
    BY <1>1 DEF LastNumber
  <2>2. entry["export"] \in survivors["export"]
    BY <1>1 DEF ExportsAreStaged
  <2>3. /\ entry["export"] # None => Sound(entry["export"]) /\ entry["export"].number >= reported'
        /\ entry["export"] = None => reported' = 0
    <3>1. entry["export"] # None => LastNumber = entry["export"].number
      BY DEF LastNumber
    <3>2. entry["export"] = None => LastNumber = 0
      BY DEF LastNumber
    <3>3. entry["export"] # None => Sound(entry["export"])
      BY <1>1, <2>2 DEF ExportsAreStaged
    <3> QED BY <1>3, <1>4, <3>1, <3>2, <3>3
  <2>4. ASSUME NEW x \in Commands
        PROVE  /\ at'[x] \in {"create", "written", "synced", "renamed"} =>
                     temp'[x] \in File /\ Importable(temp'[x].from)
               /\ at'[x] \in {"written", "synced", "renamed"} => temp'[x].whole
               /\ at'[x] \in {"synced", "renamed"} => temp'[x].synced
               /\ at'[x] = "renamed" => temp'[x].number <= LastNumber
    <3>1. CASE x = c
      BY <1>5, <3>1
    <3>2. CASE x # c
      BY <1>1, <1>5, <3>2, OthersStay DEF ExportsAreStaged
    <3> QED BY <3>1, <3>2
  <2> QED BY <1>1, <1>6, <2>1, <2>3, <2>4 DEF ExportsAreStaged
<1>9. ValidMeansCurrent'
  BY <1>1, <1>5, ValidKept
<1>10. TypeOK'
  <2>1. ASSUME NEW n \in Names
        PROVE  entry'[n] \in File \cup {None} /\ survivors'[n] \subseteq File \cup {None}
    BY <1>1, <1>6, TypeFacts
  <2>2. entry' = [n \in Names |-> entry'[n]] /\ "idle" \in Steps
    BY <1>1, Maps DEF Steps
  <2> QED BY <1>1, <1>4, <1>5, <1>6, <2>1, <2>2, TypeFacts, TypeKept
<1> QED BY <1>7, <1>8, <1>9, <1>10 DEF IInv

LEMMA WriteStep ==
    ASSUME IInv, Written
    PROVE  IInv'
<1>1. /\ TypeOK /\ ManifestsTellThePast /\ ExportsAreStaged /\ ValidMeansCurrent
      /\ UNCHANGED <<using, entry, survivors, at, held, temp, reported>>
  BY DEF IInv, Written, Ingest, Upsert
<1>2. db \in Database /\ db' \in Database /\ IsFiniteSet(Revisions(db')) /\ Past(db, db')
  BY <1>1, WritesGrow, TypeFacts
<1>3. \A d : Past(d, db) => Past(d, db')
  BY <1>2, PastStays
<1>4. ManifestsTellThePast'
  BY <1>1, <1>3 DEF ManifestsTellThePast
<1>5. ExportsAreStaged'
  BY <1>1 DEF ExportsAreStaged, LastNumber
<1>6. TypeOK'
  BY <1>1, <1>2 DEF TypeOK
<1>7. ValidMeansCurrent'
  BY <1>1 DEF ValidMeansCurrent
<1> QED BY <1>4, <1>5, <1>6, <1>7 DEF IInv

(* The power takes what is not synced, never what a file was made from.    *)
LEMMA LossKeepsOrigins ==
    ASSUME NEW file \in File \cup {None}, NEW kept \in AfterLoss(file)
    PROVE  /\ kept \in File \cup {None}
           /\ file = None => kept = None
           /\ file # None => kept \in File /\ kept # None /\ kept.from = file.from
           /\ file # None /\ file.synced => kept = file
<1>1. CASE file = None \/ file.synced
  BY <1>1 DEF AfterLoss
<1>2. CASE file # None /\ ~file.synced
  <2>1. PICK w \in {file.whole, FALSE} : kept = [file EXCEPT !.synced = TRUE, !.whole = w]
    BY <1>2 DEF AfterLoss
  <2>2. file \in File /\ file.whole \in BOOLEAN
    BY <1>2, FileFields
  <2>3. kept = [from |-> file.from, whole |-> w, synced |-> TRUE, number |-> file.number]
    BY <2>1, <2>2 DEF File
  <2>4. kept \in File /\ kept.from = file.from
    BY <2>2, <2>3 DEF File
  <2> QED BY <1>2, <2>4, ArtifactsAssumption
<1> QED BY <1>1, <1>2

LEMMA LossStep ==
    ASSUME IInv, PowerLoss
    PROVE  IInv'
<1>1. TypeOK /\ ManifestsTellThePast /\ ExportsAreStaged /\ ValidMeansCurrent
  BY DEF IInv
<1>2. PICK p \in OnDisk("projection"), m \in OnDisk("manifest"), x \in OnDisk("export") :
         entry' = [projection |-> p, manifest |-> m, export |-> x]
  BY DEF PowerLoss
<1>3. /\ survivors' = [n \in Names |-> {entry'[n]}]
      /\ at' = [c \in Commands |-> "idle"] /\ held' = [c \in Commands |-> Blank]
      /\ temp' = [c \in Commands |-> None] /\ using' = using /\ db' = db /\ reported' = reported
  BY DEF PowerLoss
<1>4. PICK fp \in survivors["projection"], fm \in survivors["manifest"], fx \in survivors["export"] :
         p \in AfterLoss(fp) /\ m \in AfterLoss(fm) /\ x \in AfterLoss(fx)
  BY <1>2 DEF OnDisk
<1>5. fp \in File \cup {None} /\ fm \in File \cup {None} /\ fx \in File \cup {None}
  BY <1>1, <1>4, TypeFacts, NamesAreThree
<1>6. p \in File \cup {None} /\ m \in File \cup {None} /\ x \in File \cup {None}
  BY <1>4, <1>5, LossKeepsOrigins
<1>7. m # None => Past(m.from, db)
  BY <1>1, <1>4, <1>5, LossKeepsOrigins DEF ManifestsTellThePast
<1>8. x = fx
  BY <1>1, <1>4, <1>5, LossKeepsOrigins DEF ExportsAreStaged, Sound
<1>9. entry' \in [Names -> File \cup {None}] /\ survivors' \in [Names -> SUBSET (File \cup {None})]
  <2>1. entry' \in [Names -> File \cup {None}]
    BY <1>2, <1>6 DEF Names
  <2> QED BY <1>3, <2>1
<1>10. entry'["manifest"] = m /\ survivors'["manifest"] = {m} /\ entry'["export"] = x /\ survivors'["export"] = {x}
  BY <1>2, <1>3, NamesAreThree
<1>11. \A c \in Commands : at'[c] = "idle" /\ temp'[c] = None /\ held'[c] = Blank
  BY <1>3
<1>12. TypeOK'
  <2>1. DOMAIN Blank = {"db", "manifest", "projection"} /\ Blank.db = None /\ Blank.manifest = None
    BY DEF Blank
  <2>2. at' \in [Commands -> Steps] /\ temp' \in [Commands -> File \cup {None}]
    BY <1>3 DEF Steps
  <2>3. held' = [c \in Commands |-> held'[c]]
    BY <1>3
  <2> QED BY <1>1, <1>3, <1>9, <1>11, <2>1, <2>2, <2>3 DEF TypeOK
<1>13. ManifestsTellThePast'
  BY <1>3, <1>7, <1>10, <1>11 DEF ManifestsTellThePast
<1>14. ExportsAreStaged'
  BY <1>1, <1>3, <1>4, <1>8, <1>10, <1>11 DEF ExportsAreStaged
<1>15. ValidMeansCurrent'
  BY <1>11 DEF ValidMeansCurrent
<1> QED BY <1>12, <1>13, <1>14, <1>15 DEF IInv

-----------------------------------------------------------------------------
LEMMA IInvInit == Init => IInv
<1> SUFFICES ASSUME Init PROVE IInv
  OBVIOUS
<1>1. db \in Database /\ Revisions(db) = {}
  <2>1. db.episodes = 0 /\ db.names = [e \in Entities |-> <<>>] /\ db \in Database
    BY DEF Init, Empty, Database
  <2> QED BY <2>1 DEF Revisions
<1>2. IsFiniteSet(Revisions(db))
  BY <1>1, FS_EmptySet
<1>3. \A c \in Commands : at[c] = "idle" /\ held[c] = Blank /\ temp[c] = None
  BY DEF Init
<1>4. DOMAIN Blank = {"db", "manifest", "projection"} /\ Blank.db = None /\ Blank.manifest = None
  BY DEF Blank
<1>5. TypeOK
  BY <1>1, <1>2, <1>3, <1>4 DEF Init, TypeOK, Steps
<1>6. ManifestsTellThePast /\ ExportsAreStaged
  BY <1>3, NamesAreThree DEF Init, ManifestsTellThePast, ExportsAreStaged
<1>7. ValidMeansCurrent
  BY <1>3 DEF ValidMeansCurrent
<1> QED BY <1>5, <1>6, <1>7 DEF IInv

LEMMA IInvStep == IInv /\ [Next]_vars => IInv'
<1> SUFFICES ASSUME IInv, [Next]_vars PROVE IInv'
  OBVIOUS
<1>1. CASE UNCHANGED vars
  BY <1>1 DEF vars, IInv, TypeOK, ManifestsTellThePast, ExportsAreStaged, ValidMeansCurrent, LastNumber
<1>2. CASE Next
  <2>1. CASE Written
    BY <2>1, WriteStep
  <2>2. CASE PowerLoss
    BY <2>2, LossStep
  <2>3. ASSUME NEW c \in Commands,
               \/ Stop(c) \/ Build(c) \/ PublishProjection(c) \/ PublishManifest(c)
               \/ \E name \in {"projection", "manifest"} : RemoveOld(c, name)
               \/ ReadManifest(c) \/ ReadProjection(c) \/ Verify(c)
               \/ Export(c) \/ WriteExport(c) \/ SyncExport(c) \/ RenameExport(c) \/ SyncDirectory(c)
        PROVE  IInv'
    BY <2>3, StopStep, BuildStep, PublishProjectionStep, PublishManifestStep, RemoveOldStep,
       ReadManifestStep, ReadProjectionStep, VerifyStep, ExportStep, WriteExportStep, SyncExportStep,
       RenameExportStep, SyncDirectoryStep
  <2> QED BY <1>2, <2>1, <2>2, <2>3 DEF Next, Written
<1> QED BY <1>1, <1>2

LEMMA InductiveInvariant == Spec => []IInv
BY IInvInit, IInvStep, PTL DEF Spec

(* The database is a database, and its revisions can be counted.           *)
THEOREM TypeCorrect == Spec => []TypeOK
<1>1. IInv => TypeOK
  BY DEF IInv
<1> QED BY <1>1, InductiveInvariant, PTL

(* `index verify' says valid only of an index of the database as it is     *)
(* then, for any number of builders, verifiers and writers: a manifest     *)
(* tells of some moment of the past, and the counts it compares tell every *)
(* moment of the past from the present.                                    *)
THEOREM ValidIsCurrent == Spec => []ValidMeansCurrent
<1>1. IInv => ValidMeansCurrent
  BY DEF IInv
<1> QED BY <1>1, InductiveInvariant, PTL

(* The export path holds nothing or a whole export of an importable        *)
(* database, and what was reported stays, whatever stops and whenever the  *)
(* power goes.                                                             *)
THEOREM ExportsAreKept == Spec => []ExportsAreWholeAndKept
<1>1. ASSUME IInv PROVE ExportsAreWholeAndKept
  <2>1. LastNumber >= reported
    BY <1>1, LastIsReported DEF IInv
  <2>2. entry["export"] # None => entry["export"].whole /\ Importable(entry["export"].from)
    BY <1>1 DEF IInv, ExportsAreStaged, Sound
  <2> QED BY <2>1, <2>2 DEF ExportsAreWholeAndKept
<1> QED BY <1>1, InductiveInvariant, PTL
=============================================================================
