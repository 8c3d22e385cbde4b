----------------------------- MODULE Store_proofs -----------------------------
(***************************************************************************)
(* Theorems about Store, for any batches, any initial databases that older *)
(* builds may have left, and any adjacency bound.                          *)
(***************************************************************************)
EXTENDS Store, FiniteSetTheorems, TLAPS

Loaded == phase \in {"indexing", "serving", "saving"}

IsDisk(d) ==
    d = [exists |-> d.exists, version |-> d.version, nodes |-> d.nodes, texts |-> d.texts,
         edges |-> d.edges, marker |-> d.marker, index |-> d.index]

(* The shape of the database, of what is in memory, and what lastState is: *)
(* the database, in every phase that has a handle to write through.        *)
ShapeInv ==
    /\ IsDisk(disk)
    /\ IsFcn(disk.nodes) /\ IsFiniteSet(DOMAIN disk.nodes)
    /\ IsFcn(memory) /\ IsFiniteSet(DOMAIN memory)
    /\ Loaded => last = disk.nodes
    /\ phase \in {"indexing", "serving"} => memory = last
    /\ phase = "saving" => before = last /\ DOMAIN last \subseteq DOMAIN memory

(* What the edges and texts on disk are, and when they may be trusted.     *)
DerivedInv ==
    /\ \A e \in disk.edges : e[1] \in DOMAIN disk.nodes /\ Label(e[1]) \in Linked
    /\ disk.marker => disk.edges = AllEdges(disk.nodes)
    /\ Loaded /\ ready => disk.edges = AllEdges(disk.nodes)
    /\ DOMAIN disk.texts \subseteq DOMAIN TextsOf(disk.nodes)
    /\ disk.index => disk.texts = TextsOf(disk.nodes)

(* Who may be at the database, and what an open knows of its version.      *)
VersionInv ==
    /\ ~disk.exists => disk.version = None /\ DOMAIN disk.nodes = {}
    /\ Holding => disk.exists /\ foreign # "holding"
    /\ Loaded => disk.version # "other"
    /\ phase = "checked" => Supported \/ foreign \in {"holding", "late"}

IInv == ShapeInv /\ DerivedInv /\ VersionInv

-----------------------------------------------------------------------------
(* Saving the difference to the state on disk leaves the state in memory.  *)
LEMMA OverlayOfTheDelta ==
    ASSUME NEW new, NEW old, IsFcn(new), IsFcn(old), DOMAIN old \subseteq DOMAIN new,
           NEW D, D = {k \in DOMAIN new : k \notin DOMAIN old \/ old[k] # new[k]}
    PROVE  Overlay(Restrict(new, D), old) = new
BY DEF Overlay, Restrict, IsFcn

(* The same for the search texts.                                          *)
LEMMA TextsOfTheDelta ==
    ASSUME NEW new, NEW old, DOMAIN old \subseteq DOMAIN new,
           NEW D, D = {k \in DOMAIN new : k \notin DOMAIN old \/ old[k] # new[k]}
    PROVE  Overlay(TextsOf(Restrict(new, D)), TextsOf(old)) = TextsOf(new)
<1> DEFINE S(f) == {r \in DOMAIN f : Label(r) \in Searchable}
<1>1. DOMAIN TextsOf(Restrict(new, D)) = S(new) \cap D
  BY DEF TextsOf, Restrict
<1>2. \A k \in S(new) \cap D : TextsOf(Restrict(new, D))[k] = new[k].text
  BY DEF TextsOf, Restrict
<1>3. DOMAIN TextsOf(old) = S(old) /\ \A k \in S(old) : TextsOf(old)[k] = old[k].text
  BY DEF TextsOf
<1>4. (S(new) \cap D) \cup S(old) = S(new)
  OBVIOUS
<1>5. \A k \in S(new) \ D : k \in S(old) /\ old[k].text = new[k].text
  OBVIOUS
<1> HIDE DEF S
<1>6. Overlay(TextsOf(Restrict(new, D)), TextsOf(old))
        = [k \in S(new) |-> new[k].text]
  BY <1>1, <1>2, <1>3, <1>4, <1>5 DEF Overlay
<1> QED BY <1>6 DEF TextsOf, S

(* The same for the edges: those of unchanged records stay, those of the   *)
(* changed ones are made anew.                                             *)
LEMMA EdgesOfTheDelta ==
    ASSUME NEW new, NEW old, DOMAIN old \subseteq DOMAIN new,
           NEW D, D = {k \in DOMAIN new : k \notin DOMAIN old \/ old[k] # new[k]},
           NEW edges, edges = AllEdges(old)
    PROVE  {e \in edges : e[1] \notin D} \cup UNION {EdgesOf(k, new) : k \in D} = AllEdges(new)
<1>1. \A k \in DOMAIN new \ D : k \in DOMAIN old /\ EdgesOf(k, old) = EdgesOf(k, new)
  BY DEF EdgesOf
<1>2. \A k, r : \A e \in EdgesOf(k, r) : e[1] = k
  BY DEF EdgesOf
<1>3. \A e \in edges : e[1] \in DOMAIN old /\ e \in EdgesOf(e[1], old)
  BY <1>2 DEF AllEdges
<1>4. ASSUME NEW e \in edges, e[1] \notin D PROVE e \in AllEdges(new)
  <2>1. e[1] \in DOMAIN new \ D
    BY <1>3, <1>4
  <2> QED BY <2>1, <1>1, <1>3 DEF AllEdges
<1>5. ASSUME NEW k \in DOMAIN new, NEW e \in EdgesOf(k, new), k \notin D
      PROVE  e \in edges /\ e[1] \notin D
  <2>1. k \in DOMAIN old /\ e \in EdgesOf(k, old)
    BY <1>1, <1>5
  <2> QED BY <2>1, <1>2, <1>5 DEF AllEdges
<1> QED BY <1>4, <1>5 DEF AllEdges

(* A database without records calls for no edges.                          *)
LEMMA NoRecordsNoEdges ==
    ASSUME NEW nodes, NoRecords(nodes)
    PROVE  AllEdges(nodes) = {}
BY DEF NoRecords, AllEdges, EdgesOf, Linked

-----------------------------------------------------------------------------
LEMMA InitInv == Init => IInv
<1> SUFFICES ASSUME Init PROVE IInv
  OBVIOUS
<1> USE StoreAssumption
<1>1. Sound(disk)
  BY DEF StoreAssumption, Init
<1>2. ShapeInv
  <2>1. IsFcn(memory) /\ DOMAIN memory = {}
    BY DEF Init, Nothing, IsFcn
  <2> QED BY <1>1, <2>1, FS_EmptySet DEF Sound, Init, ShapeInv, IsDisk, Loaded
<1>3. DerivedInv
  BY <1>1 DEF Sound, Init, DerivedInv, Loaded
<1>4. VersionInv
  BY <1>1 DEF Sound, Init, VersionInv, Loaded, Holding
<1> QED BY <1>2, <1>3, <1>4 DEF IInv

LEMMA NothingIsFinite == IsFcn(Nothing) /\ IsFiniteSet(DOMAIN Nothing)
<1>1. DOMAIN Nothing = {}
  BY DEF Nothing
<1> QED BY <1>1, FS_EmptySet DEF IsFcn, Nothing

(* Closing keeps the database and forgets the rest.                        *)
LEMMA CloseKeeps ==
    ASSUME IInv, Close, UNCHANGED <<disk, foreign>> PROVE IInv'
<1>1. ShapeInv'
  BY NothingIsFinite DEF IInv, ShapeInv, Close, Loaded, IsDisk
<1>2. DerivedInv'
  BY DEF IInv, DerivedInv, Close, Loaded
<1>3. VersionInv'
  BY DEF IInv, VersionInv, Close, Loaded, Holding
<1> QED BY <1>1, <1>2, <1>3 DEF IInv

LEMMA InspectKeeps == ASSUME IInv, Inspect \/ InspectAgain PROVE IInv'
<1>1. ShapeInv'
  BY DEF IInv, ShapeInv, Inspect, InspectAgain, engine, Loaded, IsDisk
<1>2. DerivedInv'
  BY DEF IInv, DerivedInv, Inspect, InspectAgain, engine, Loaded
<1>3. VersionInv'
  <2>1. CASE Inspect
    BY <2>1 DEF IInv, VersionInv, Inspect, Loaded, Holding
  <2>2. CASE InspectAgain
    <3>1. Supported
      BY <2>2 DEF IInv, VersionInv, InspectAgain, Passes, Supported
    <3> QED BY <2>2, <3>1 DEF IInv, VersionInv, InspectAgain, Loaded, Holding, Supported
  <2> QED BY <2>1, <2>2
<1> QED BY <1>1, <1>2, <1>3 DEF IInv

LEMMA OpenKeeps == ASSUME IInv, OpenWritable \/ OpenReadOnly PROVE IInv'
<1>1. /\ disk'.nodes = disk.nodes /\ disk'.texts = disk.texts /\ disk'.edges = disk.edges
      /\ disk'.marker = disk.marker /\ disk'.index = disk.index
      /\ disk'.version = disk.version /\ IsDisk(disk') /\ (disk.exists => disk'.exists)
  BY DEF IInv, ShapeInv, IsDisk, OpenWritable, OpenReadOnly
<1>2. ShapeInv'
  BY <1>1 DEF IInv, ShapeInv, OpenWritable, OpenReadOnly, engine, Loaded
<1>3. DerivedInv'
  BY <1>1 DEF IInv, DerivedInv, OpenWritable, OpenReadOnly, engine, Loaded
<1>4. disk'.exists
  BY DEF IInv, ShapeInv, IsDisk, OpenWritable, OpenReadOnly
<1>5. VersionInv'
  BY <1>1, <1>4 DEF IInv, VersionInv, OpenWritable, OpenReadOnly, Loaded, Holding
<1> QED BY <1>2, <1>3, <1>5 DEF IInv

LEMMA LoadKeeps == ASSUME IInv, Load PROVE IInv'
<1>1. ShapeInv'
  BY DEF IInv, ShapeInv, Load, Loaded, IsDisk
<1>2. DerivedInv'
  <2>1. ready' => disk.edges = AllEdges(disk.nodes)
    <3>1. CASE disk.marker
      BY <3>1 DEF IInv, DerivedInv
    <3>2. CASE NoRecords(disk.nodes)
      <4>1. disk.edges = {}
        BY <3>2 DEF IInv, DerivedInv, NoRecords, Linked
      <4> QED BY <4>1, <3>2, NoRecordsNoEdges
    <3> QED BY <3>1, <3>2 DEF Load
  <2> QED BY <2>1 DEF IInv, DerivedInv, Load
<1>3. VersionInv'
  BY StoreAssumption DEF IInv, VersionInv, Load, Loaded, Holding, Supported, StoreAssumption
<1> QED BY <1>1, <1>2, <1>3 DEF IInv

LEMMA BackfillKeeps == ASSUME IInv, Backfill PROVE IInv'
<1>1. /\ disk'.nodes = disk.nodes /\ disk'.edges = disk.edges /\ disk'.marker = disk.marker
      /\ disk'.version = disk.version /\ disk'.exists = disk.exists /\ IsDisk(disk')
      /\ disk'.texts = Overlay(TextsOf(memory), disk.texts)
  BY DEF IInv, ShapeInv, IsDisk, Backfill
<1>2. ShapeInv'
  BY <1>1 DEF IInv, ShapeInv, Backfill, engine, Loaded
<1>3. DerivedInv'
  <2>1. memory = disk.nodes
    BY DEF IInv, ShapeInv, Backfill, Loaded
  <2>2. disk'.texts = TextsOf(disk.nodes)
    <3>1. DOMAIN disk.texts \subseteq DOMAIN TextsOf(disk.nodes)
      BY DEF IInv, DerivedInv
    <3>2. Overlay(TextsOf(disk.nodes), disk.texts)
            = [k \in DOMAIN TextsOf(disk.nodes) |-> TextsOf(disk.nodes)[k]]
      BY <3>1 DEF Overlay
    <3> QED BY <1>1, <2>1, <3>2 DEF TextsOf
  <2> QED BY <1>1, <2>2 DEF IInv, DerivedInv, Backfill, engine, Loaded
<1>4. VersionInv'
  BY <1>1 DEF IInv, VersionInv, Backfill, Loaded, Holding
<1> QED BY <1>2, <1>3, <1>4 DEF IInv

LEMMA MutateKeeps == ASSUME IInv, Mutate PROVE IInv'
<1>1. PICK batch \in Batches : memory' = Overlay(batch, memory)
  BY DEF Mutate
<1>2. IsFcn(memory') /\ DOMAIN memory' = DOMAIN batch \cup DOMAIN memory
  BY <1>1 DEF Overlay, IsFcn
<1>3. IsFiniteSet(DOMAIN memory')
  BY <1>2, FS_Union, StoreAssumption DEF StoreAssumption, IInv, ShapeInv
<1>4. ShapeInv'
  BY <1>2, <1>3 DEF IInv, ShapeInv, Mutate, Loaded, IsDisk
<1>5. DerivedInv'
  BY DEF IInv, DerivedInv, Mutate, Loaded
<1>6. VersionInv'
  BY DEF IInv, VersionInv, Mutate, Loaded, Holding
<1> QED BY <1>4, <1>5, <1>6 DEF IInv

LEMMA SaveFailsKeeps == ASSUME IInv, SaveFails PROVE IInv'
<1>1. ShapeInv'
  BY DEF IInv, ShapeInv, SaveFails, Loaded, IsDisk
<1>2. DerivedInv'
  BY DEF IInv, DerivedInv, SaveFails, Loaded
<1>3. VersionInv'
  BY DEF IInv, VersionInv, SaveFails, Loaded, Holding
<1> QED BY <1>1, <1>2, <1>3 DEF IInv

(* A save that commits leaves the records of memory on disk, the edges and *)
(* texts complete where they were, and the marker only where it is true.   *)
LEMMA SaveCommitsKeeps == ASSUME IInv, SaveCommits PROVE IInv'
<1>1. CASE last = memory
  <2>1. disk' = disk
    BY <1>1 DEF SaveCommits
  <2>2. ShapeInv'
    BY <1>1, <2>1 DEF IInv, ShapeInv, SaveCommits, Loaded, IsDisk
  <2>3. DerivedInv'
    BY <2>1 DEF IInv, DerivedInv, SaveCommits, Loaded
  <2>4. VersionInv'
    BY <2>1 DEF IInv, VersionInv, SaveCommits, Loaded, Holding
  <2> QED BY <2>2, <2>3, <2>4 DEF IInv
<1>2. CASE last # memory
  <2>1. /\ last = disk.nodes /\ IsFcn(memory) /\ IsFcn(disk.nodes)
        /\ DOMAIN disk.nodes \subseteq DOMAIN memory /\ IsDisk(disk)
        /\ Delta = {k \in DOMAIN memory : k \notin DOMAIN disk.nodes \/ disk.nodes[k] # memory[k]}
    BY DEF IInv, ShapeInv, SaveCommits, Loaded, Delta
  <2>2. disk' = Written
    BY <1>2 DEF SaveCommits
  <2>3. /\ disk'.nodes = Overlay(Restrict(memory, Delta), disk.nodes)
        /\ disk'.texts = Overlay(TextsOf(Restrict(memory, Delta)), disk.texts)
        /\ disk'.edges = Reconnected /\ disk'.version = "current"
        /\ disk'.marker = (disk.marker \/ ready)
        /\ disk'.index = disk.index /\ disk'.exists = disk.exists /\ IsDisk(disk')
    BY <2>1, <2>2 DEF Written, Reconciled, IsDisk
  <2>4. disk'.nodes = memory
    BY <2>1, <2>3, OverlayOfTheDelta
  <2>5. disk.edges = AllEdges(disk.nodes) => disk'.edges = AllEdges(memory)
    BY <2>1, <2>3, EdgesOfTheDelta DEF Reconnected
  <2>6. disk.texts = TextsOf(disk.nodes) => disk'.texts = TextsOf(memory)
    BY <2>1, <2>3, TextsOfTheDelta
  <2>7. ShapeInv'
    BY <2>3, <2>4 DEF IInv, ShapeInv, SaveCommits, Loaded
  <2>8. DerivedInv'
    <3>1. \A e \in disk'.edges : e[1] \in DOMAIN memory /\ Label(e[1]) \in Linked
      <4>1. \A e \in disk.edges : e[1] \in DOMAIN memory /\ Label(e[1]) \in Linked
        BY <2>1 DEF IInv, DerivedInv
      <4>2. \A k \in Delta : \A e \in EdgesOf(k, memory) :
                e[1] \in DOMAIN memory /\ Label(e[1]) \in Linked
        BY DEF Delta, EdgesOf
      <4> QED BY <2>3, <4>1, <4>2 DEF Reconnected
    <3>2. disk'.marker => disk'.edges = AllEdges(memory)
      BY <2>3, <2>5 DEF IInv, DerivedInv, SaveCommits, Loaded
    <3>3. ready' => disk'.edges = AllEdges(memory)
      BY <2>5 DEF IInv, DerivedInv, SaveCommits, Loaded
    <3>4. DOMAIN disk'.texts \subseteq DOMAIN TextsOf(memory)
      <4>1. DOMAIN disk.texts \subseteq DOMAIN TextsOf(memory)
        BY <2>1 DEF IInv, DerivedInv, TextsOf
      <4>2. DOMAIN TextsOf(Restrict(memory, Delta)) \subseteq DOMAIN TextsOf(memory)
        BY DEF TextsOf, Restrict, Delta
      <4>3. DOMAIN disk'.texts = DOMAIN TextsOf(Restrict(memory, Delta)) \cup DOMAIN disk.texts
        BY <2>3 DEF Overlay
      <4> QED BY <4>1, <4>2, <4>3
    <3>5. disk'.index => disk'.texts = TextsOf(memory)
      BY <2>3, <2>6 DEF IInv, DerivedInv
    <3> QED BY <2>4, <3>1, <3>2, <3>3, <3>4, <3>5 DEF DerivedInv
  <2>9. VersionInv'
    <3>1. disk.exists
      BY DEF IInv, VersionInv, SaveCommits, Holding
    <3> QED BY <2>3, <3>1 DEF IInv, VersionInv, SaveCommits, Loaded, Holding
  <2> QED BY <2>7, <2>8, <2>9 DEF IInv
<1> QED BY <1>1, <1>2

LEMMA ForeignKeeps ==
    ASSUME IInv, ForeignArrives \/ ForeignWrites \/ ForeignLeaves PROVE IInv'
<1>1. /\ disk'.nodes = disk.nodes /\ disk'.texts = disk.texts /\ disk'.edges = disk.edges
      /\ disk'.marker = disk.marker /\ disk'.index = disk.index /\ IsDisk(disk')
  BY DEF IInv, ShapeInv, IsDisk, ForeignArrives, ForeignWrites, ForeignLeaves
<1>2. ShapeInv'
  BY <1>1 DEF IInv, ShapeInv, ForeignArrives, ForeignWrites, ForeignLeaves, engine, Loaded
<1>3. DerivedInv'
  BY <1>1 DEF IInv, DerivedInv, ForeignArrives, ForeignWrites, ForeignLeaves, engine, Loaded
<1>4. VersionInv'
  <2>1. CASE ForeignArrives
    BY <2>1 DEF IInv, VersionInv, ForeignArrives, Loaded, Holding
  <2>2. CASE ForeignWrites
    <3>1. disk'.exists
      BY <2>2 DEF IInv, ShapeInv, IsDisk, ForeignWrites
    <3>2. ~Holding /\ ~Loaded
      BY <2>2 DEF IInv, VersionInv, ForeignWrites, Holding, Loaded
    <3> QED BY <2>2, <3>1, <3>2 DEF VersionInv, ForeignWrites, Loaded, Holding
  <2>3. CASE ForeignLeaves
    BY <2>3 DEF IInv, VersionInv, ForeignLeaves, Loaded, Holding
  <2> QED BY <2>1, <2>2, <2>3
<1> QED BY <1>2, <1>3, <1>4 DEF IInv

(* The inductive invariant.                                                *)
THEOREM Invariance == Spec => []IInv
<1>1. IInv /\ [Next]_vars => IInv'
  <2> SUFFICES ASSUME IInv, [Next]_vars PROVE IInv'
    OBVIOUS
  <2>1. CASE Inspect \/ InspectAgain
    BY <2>1, InspectKeeps
  <2>2. CASE Refuse \/ Reject \/ BackfillFails \/ Stop
    BY <2>2, CloseKeeps DEF Refuse, Reject, BackfillFails, Stop
  <2>3. CASE OpenWritable \/ OpenReadOnly
    BY <2>3, OpenKeeps
  <2>4. CASE Load
    BY <2>4, LoadKeeps
  <2>5. CASE Backfill
    BY <2>5, BackfillKeeps
  <2>6. CASE Mutate
    BY <2>6, MutateKeeps
  <2>7. CASE SaveCommits
    BY <2>7, SaveCommitsKeeps
  <2>8. CASE SaveFails
    BY <2>8, SaveFailsKeeps
  <2>9. CASE ForeignArrives \/ ForeignWrites \/ ForeignLeaves
    BY <2>9, ForeignKeeps
  <2>10. CASE UNCHANGED vars
    BY <2>10 DEF vars, IInv, ShapeInv, DerivedInv, VersionInv, IsDisk, Loaded, Holding, Supported
  <2> QED BY <2>1, <2>2, <2>3, <2>4, <2>5, <2>6, <2>7, <2>8, <2>9, <2>10 DEF Next
<1> QED BY InitInv, <1>1, PTL DEF Spec

-----------------------------------------------------------------------------
(* Between saves the database holds exactly what the engine serves.        *)
THEOREM DiskIsMemory == Spec => []DiskHoldsMemory
<1>1. IInv => DiskHoldsMemory
  BY DEF IInv, ShapeInv, DiskHoldsMemory, Loaded
<1> QED BY <1>1, Invariance, PTL

(* The marker vouches for every edge.                                      *)
THEOREM MarkerIsTrue == Spec => []MarkerMeansComplete
<1>1. IInv => MarkerMeansComplete
  BY DEF IInv, DerivedInv, MarkerMeansComplete
<1> QED BY <1>1, Invariance, PTL

(* No lookup through the edges misses a fact that a scan would find.       *)
THEOREM LookupIsComplete == Spec => []LookupFindsEveryFact
<1>1. IInv => LookupFindsEveryFact
  <2> SUFFICES ASSUME IInv, phase = "serving",
                      NEW subjects \in SUBSET Entities, NEW objects \in SUBSET Entities,
                      subjects \cup objects # {}, CandidatesAvailable(subjects, objects),
                      NEW fact \in DOMAIN memory, Label(fact) = "Fact",
                      Matches(fact, subjects, objects)
               PROVE  ~MayMiss(fact, subjects, objects)
    BY DEF LookupFindsEveryFact
  <2>1. disk.edges = AllEdges(memory) /\ IsFiniteSet(DOMAIN memory)
    BY DEF IInv, ShapeInv, DerivedInv, Loaded, CandidatesAvailable
  <2>2. ASSUME NEW type, NEW entity, <<type, entity>> \in memory[fact].links
        PROVE  fact \in Incoming(entity, type)
    <3>1. <<fact, type, entity>> \in EdgesOf(fact, memory)
      BY <2>2 DEF EdgesOf, Linked
    <3>2. <<fact, type, entity>> \in disk.edges
      BY <2>1, <3>1 DEF AllEdges
    <3> QED BY <3>2 DEF Incoming
  <2>3. ASSUME NEW type, NEW entity, Cardinality(Incoming(entity, type)) <= MaxFanout
        PROVE  ~Prefixed(Incoming(entity, type), fact)
    <3>1. Incoming(entity, type) \subseteq DOMAIN memory
      BY DEF IInv, ShapeInv, DerivedInv, Incoming, Loaded
    <3>2. IsFiniteSet(Incoming(entity, type))
      BY <2>1, <3>1, FS_Subset
    <3>3. \A cut \in SUBSET Incoming(entity, type) :
              Cardinality(cut) <= Cardinality(Incoming(entity, type))
      BY <3>2, FS_Subset
    <3>4. \A cut \in SUBSET Incoming(entity, type) : Cardinality(cut) \in Nat
      BY <3>2, FS_Subset, FS_CardinalityType
    <3>5. Cardinality(Incoming(entity, type)) \in Nat
      BY <3>2, FS_CardinalityType
    <3> HIDE DEF Incoming
    <3> QED BY <2>3, <3>3, <3>4, <3>5, StoreAssumption DEF Prefixed, StoreAssumption
  <2>4. /\ \A s \in subjects : Cardinality(Incoming(s, "SUBJECT")) <= MaxFanout
        /\ \A o \in objects : Cardinality(Incoming(o, "OBJECT_ENTITY")) <= MaxFanout
    <3>1. \A type, entity : Cardinality(Incoming(entity, type)) \in Nat
      <4> TAKE type, entity
      <4>1. Incoming(entity, type) \subseteq DOMAIN memory
        BY DEF IInv, ShapeInv, DerivedInv, Incoming, Loaded
      <4> QED BY <4>1, <2>1, FS_Subset, FS_CardinalityType
    <3> QED BY <3>1, StoreAssumption DEF CandidatesAvailable, Overflows, StoreAssumption
  <2>5. CASE subjects # {}
    <3>1. PICK s \in subjects : fact \in Incoming(s, "SUBJECT")
      BY <2>5, <2>2 DEF Matches
    <3> QED BY <3>1, <2>3, <2>4 DEF MayMiss, Reached
  <2>6. CASE objects # {}
    <3>1. PICK o \in objects : fact \in Incoming(o, "OBJECT_ENTITY")
      BY <2>6, <2>2 DEF Matches
    <3> QED BY <3>1, <2>3, <2>4 DEF MayMiss, Reached
  <2> QED BY <2>5, <2>6
<1> QED BY <1>1, Invariance, PTL

(* A full-text search finds exactly the served records with the words.     *)
THEOREM FullTextIsComplete == Spec => []FullTextFindsEveryRecord
<1>1. IInv => FullTextFindsEveryRecord
  <2> SUFFICES ASSUME IInv, phase = "serving", disk.index,
                      NEW label \in Searchable, NEW words
               PROVE  /\ Indexed(label, words) =
                             {k \in DOMAIN memory : Label(k) = label /\ memory[k].text = words}
                      /\ AllHits(label, words)
    BY DEF FullTextFindsEveryRecord, SearchAvailable
  <2>1. disk.texts = TextsOf(memory) /\ IsFiniteSet(DOMAIN memory)
    BY DEF IInv, ShapeInv, DerivedInv, Loaded
  <2>2. Indexed(label, words)
            = {k \in DOMAIN memory : Label(k) = label /\ memory[k].text = words}
    BY <2>1 DEF Indexed, TextsOf
  <2>3. AllHits(label, words)
    <3>1. IsFiniteSet({k \in DOMAIN memory : Label(k) = label})
      BY <2>1, FS_Subset
    <3>2. Indexed(label, words) \in SUBSET {k \in DOMAIN memory : Label(k) = label}
      BY <2>2
    <3> QED BY <3>1, <3>2, FS_Subset DEF AllHits, Asked
  <2> QED BY <2>2, <2>3
<1> QED BY <1>1, Invariance, PTL

(* Another build's database is never written.                              *)
THEOREM ForeignIsLeftAlone == Spec => ForeignDataIsUntouched
<1>1. IInv /\ [Next]_vars => (disk' # disk /\ disk.version = "other" => foreign = "holding")
  <2> SUFFICES ASSUME IInv, Next, disk' # disk, disk.version = "other" PROVE foreign = "holding"
    BY DEF vars
  <2>1. ~Loaded
    BY DEF IInv, VersionInv
  <2>2. ~OpenWritable
    BY StoreAssumption DEF IInv, ShapeInv, VersionInv, IsDisk, OpenWritable, StoreAssumption
  <2> QED BY <2>1, <2>2 DEF Next, Loaded, Inspect, InspectAgain, Refuse, OpenReadOnly, Reject,
            Load, Backfill, BackfillFails, Mutate, SaveCommits, SaveFails, Stop,
            ForeignArrives, ForeignWrites, ForeignLeaves
<1> QED BY <1>1, Invariance, PTL DEF Spec, ForeignDataIsUntouched

(* What the writable open recovers was inspected, but for what came later. *)
THEOREM RecoveryWasInspected == Spec => RecoveryIsInspected
<1>1. IInv /\ [Next]_vars =>
         ((phase = "checked" /\ phase' = "opened") => Supported \/ foreign = "late")
  <2> SUFFICES ASSUME IInv, Next, phase = "checked", phase' = "opened"
               PROVE  Supported \/ foreign = "late"
    BY DEF vars
  <2>1. OpenWritable
    BY DEF Next, Inspect, InspectAgain, Refuse, OpenReadOnly, Reject, Load, Backfill, Close,
           BackfillFails, Mutate, SaveCommits, SaveFails, Stop,
           ForeignArrives, ForeignWrites, ForeignLeaves
  <2> QED BY <2>1 DEF OpenWritable, IInv, VersionInv
<1> QED BY <1>1, Invariance, PTL DEF Spec, RecoveryIsInspected
=============================================================================
