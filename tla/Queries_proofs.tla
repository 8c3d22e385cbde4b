--------------------------- MODULE Queries_proofs ---------------------------
(***************************************************************************)
(* Theorems about Queries, for every set of requests and records and every *)
(* bound.                                                                  *)
(***************************************************************************)
EXTENDS Queries, Engine_proofs, FiniteSetTheorems, SequenceTheorems, WellFoundedInduction

-----------------------------------------------------------------------------
(* What two states of the engine agree on when one grew out of the other   *)
(* after the cut: all of it is stated record by record.                    *)

SameSources(old, new, at) ==
    /\ DOMAIN old.sources \subseteq DOMAIN new.sources
    /\ \A id \in DOMAIN old.sources : new.sources[id] = old.sources[id]
    /\ \A id \in DOMAIN new.sources \ DOMAIN old.sources : ~(new.sources[id].createdAt <= at)

SameEpisodes(old, new, at) ==
    /\ DOMAIN old.episodes \subseteq DOMAIN new.episodes
    /\ \A id \in DOMAIN old.episodes :
          new.episodes[id] = old.episodes[id] /\ old.episodes[id].source \in DOMAIN old.sources
    /\ \A id \in DOMAIN new.episodes \ DOMAIN old.episodes : ~(new.episodes[id].ingestedAt <= at)

SameEntities(old, new, at) ==
    /\ DOMAIN old.entities \subseteq DOMAIN new.entities
    /\ \A id \in DOMAIN old.entities : EntityVersionAt(new, id, at) = EntityVersionAt(old, id, at)
    /\ \A id \in DOMAIN new.entities \ DOMAIN old.entities : EntityVersionAt(new, id, at) = None

SameFacts(old, new, at) ==
    /\ DOMAIN old.facts \subseteq DOMAIN new.facts
    /\ \A id \in DOMAIN old.facts :
          /\ FactVersionAt(new, id, at) = FactVersionAt(old, id, at)
          /\ new.facts[id].createdAt = old.facts[id].createdAt
          /\ new.facts[id].observedAt = old.facts[id].observedAt
          /\ new.facts[id].space = old.facts[id].space
    /\ \A id \in DOMAIN new.facts \ DOMAIN old.facts : FactVersionAt(new, id, at) = None
    /\ \A x, id \in DOMAIN old.facts :
          new.facts[x].supersededBy = id <=> old.facts[x].supersededBy = id

(* The revisions up to the cut are the same, and what follows is later.    *)
SameLog(old, new, at) ==
    /\ DOMAIN old.factRevisions \subseteq DOMAIN new.factRevisions
    /\ \A r \in DOMAIN old.factRevisions : new.factRevisions[r] = old.factRevisions[r]
    /\ \A r \in DOMAIN new.factRevisions \ DOMAIN old.factRevisions :
          ~(new.factRevisions[r].txTime <= at)
    /\ \A r \in DOMAIN new.factRevisions :
          /\ new.factRevisions[r].txTime \in Nat
          /\ new.factRevisions[r].record.updatedAt = new.factRevisions[r].txTime
          /\ new.factRevisions[r].record.status = "retracted"
               => new.factRevisions[r].record.retractedAt = new.factRevisions[r].txTime

SamePast(old, new, q) ==
    /\ q \in Request /\ q.asOf # 0
    /\ SameSources(old, new, q.asOf) /\ SameEpisodes(old, new, q.asOf)
    /\ SameEntities(old, new, q.asOf) /\ SameFacts(old, new, q.asOf) /\ SameLog(old, new, q.asOf)

-----------------------------------------------------------------------------
(* The records a query sees.                                               *)

LEMMA SameFactAt ==
    ASSUME NEW old, NEW new, NEW q, SamePast(old, new, q)
    PROVE  /\ \A id \in DOMAIN old.facts : FactAt(new, id, q) = FactAt(old, id, q)
           /\ \A id \in DOMAIN new.facts \ DOMAIN old.facts : FactAt(new, id, q) = None
           /\ DOMAIN old.facts \subseteq DOMAIN new.facts
BY DEF SamePast, SameFacts, FactAt, IfVisible

LEMMA SameEntityAt ==
    ASSUME NEW old, NEW new, NEW q, SamePast(old, new, q)
    PROVE  /\ \A id : EntityReadable(new, id, q) <=> EntityReadable(old, id, q)
           /\ \A id : EntityReadable(old, id, q) => EntityAt(new, id, q) = EntityAt(old, id, q)
BY DEF SamePast, SameEntities, EntityReadable, EntityAt

LEMMA SameEpisode ==
    ASSUME NEW old, NEW new, NEW q, SamePast(old, new, q)
    PROVE  /\ \A id : EpisodeReadable(new, id, q) <=> EpisodeReadable(old, id, q)
           /\ \A id : EpisodeReadable(old, id, q) =>
                        id \in DOMAIN old.episodes /\ new.episodes[id] = old.episodes[id]
           /\ \A id : EpisodeReadable(old, id, q) =>
                        (EpisodeInScope(new, old.episodes[id], q) <=> EpisodeInScope(old, old.episodes[id], q))
BY DEF SamePast, SameEpisodes, SameSources, EpisodeReadable, EpisodeInScope

LEMMA SameSource ==
    ASSUME NEW old, NEW new, NEW q, SamePast(old, new, q)
    PROVE  /\ \A id : SourceReadable(new, id, q) <=> SourceReadable(old, id, q)
           /\ \A id : SourceReadable(old, id, q) =>
                        id \in DOMAIN old.sources /\ id \in DOMAIN new.sources
                          /\ new.sources[id] = old.sources[id]
BY DEF SamePast, SameSources, SourceReadable

LEMMA SameFactInScope ==
    ASSUME NEW old, NEW new, NEW q, SamePast(old, new, q), NEW f
    PROVE  FactInScope(new, f, q) <=> FactInScope(old, f, q)
<1>1. \A e : /\ EntityReadable(new, e, q) <=> EntityReadable(old, e, q)
             /\ EntityReadable(old, e, q) => EntityAt(new, e, q) = EntityAt(old, e, q)
  BY SameEntityAt
<1>2. \A ep : (EpisodeReadable(new, ep, q) /\ EpisodeInScope(new, new.episodes[ep], q))
                <=> (EpisodeReadable(old, ep, q) /\ EpisodeInScope(old, old.episodes[ep], q))
  BY SameEpisode
<1> QED BY <1>1, <1>2 DEF FactInScope

LEMMA SameFactsSeen ==
    ASSUME NEW old, NEW new, NEW q, SamePast(old, new, q)
    PROVE  /\ FactsSeen(new, q) = FactsSeen(old, q)
           /\ FactsSeen(old, q) \subseteq DOMAIN old.facts
           /\ \A id \in FactsSeen(old, q) : FactAt(new, id, q) = FactAt(old, id, q)
<1>1. \A f : FactSeen(new, f, q) <=> FactSeen(old, f, q)
  BY SameFactInScope DEF FactSeen
<1>2. \A f : FactSeen(new, f, q) => f # None
  BY DEF FactSeen
<1>3. FactsSeen(new, q) = FactsSeen(old, q)
  BY <1>1, <1>2, SameFactAt DEF FactsSeen
<1> QED BY <1>3, SameFactAt DEF FactsSeen

LEMMA SameEpisodesSeen ==
    ASSUME NEW old, NEW new, NEW q, SamePast(old, new, q)
    PROVE  /\ EpisodesSeen(new, q) = EpisodesSeen(old, q)
           /\ \A id \in EpisodesSeen(old, q) : new.episodes[id] = old.episodes[id]
           /\ \A id \in EpisodesSeen(old, q) : EpisodeReadable(old, id, q)
<1>1. DOMAIN old.episodes \subseteq DOMAIN new.episodes
  BY DEF SamePast, SameEpisodes
<1>2. EpisodesSeen(new, q) = EpisodesSeen(old, q)
  BY <1>1, SameEpisode DEF EpisodesSeen
<1> QED BY <1>2, SameEpisode DEF EpisodesSeen

LEMMA SameEntitiesSeen ==
    ASSUME NEW old, NEW new, NEW q, SamePast(old, new, q)
    PROVE  EntitiesSeen(new, q) = EntitiesSeen(old, q)
<1>1. \A id : EntityReadable(old, id, q) => id \in DOMAIN old.entities /\ id \in DOMAIN new.entities
  BY DEF EntityReadable, SamePast, SameEntities
<1> QED BY <1>1, SameEntityAt DEF EntitiesSeen

LEMMA SameSourcesSeen ==
    ASSUME NEW old, NEW new, NEW q, SamePast(old, new, q)
    PROVE  SourcesSeen(new, q) = SourcesSeen(old, q)
BY SameSource DEF SourcesSeen

LEMMA SameGraphNodes ==
    ASSUME NEW old, NEW new, NEW q, SamePast(old, new, q)
    PROVE  GraphNodes(new, q) = GraphNodes(old, q)
BY SameFactsSeen, SameEpisodesSeen, SameEntitiesSeen, SameSourcesSeen DEF GraphNodes

LEMMA SameRedirect ==
    ASSUME NEW old, NEW new, NEW q, SamePast(old, new, q)
    PROVE  \A x : Redirect(new, x, q) = Redirect(old, x, q)
<1>1. \A x, e : MarkLeads(new, x, e, q) = MarkLeads(old, x, e, q)
  BY SameEntityAt DEF MarkLeads
<1> QED BY <1>1, SameEntityAt DEF Redirect

LEMMA SameHop ==
    ASSUME NEW old, NEW new, NEW q, SamePast(old, new, q), NEW id
    PROVE  Hop(new, id, q) = Hop(old, id, q)
BY SameRedirect, SMT DEF Hop

LEMMA SameCanonical ==
    ASSUME NEW old, NEW new, NEW q, SamePast(old, new, q)
    PROVE  \A id : Canonical(new, id, q) = Canonical(old, id, q)
<1> TAKE id
<1>1. Chain(new, id, q) = Chain(old, id, q)
  BY SameHop DEF Chain
<1>2. \A x : EntityReadable(new, x, q) /\ Mark(new, x, q) = None
               <=> EntityReadable(old, x, q) /\ Mark(old, x, q) = None
  BY SameEntityAt DEF Mark
<1>3. \A ids : Unmarked(new, ids, q) = Unmarked(old, ids, q)
  BY <1>2 DEF Unmarked
<1> QED BY <1>1, <1>3 DEF Canonical

LEMMA SameCanonicalIDs ==
    ASSUME NEW old, NEW new, NEW q, SamePast(old, new, q)
    PROVE  \A ids : CanonicalIDs(new, ids, q) = CanonicalIDs(old, ids, q)
BY SameCanonical DEF CanonicalIDs

LEMMA SameEnds ==
    ASSUME NEW old, NEW new, NEW q, SamePast(old, new, q)
    PROVE  \A f : Subject(new, f, q) = Subject(old, f, q) /\ Object(new, f, q) = Object(old, f, q)
BY SameCanonical DEF Subject, Object

-----------------------------------------------------------------------------
(* Lookups.                                                                *)

LEMMA SameFoundFacts ==
    ASSUME NEW old, NEW new, NEW q, SamePast(old, new, q)
    PROVE  FoundFacts(new, q) = FoundFacts(old, q) /\ FoundFacts(old, q) \subseteq DOMAIN old.facts
<1>1. \A id : FactFound(new, id, q) <=> FactFound(old, id, q)
  BY SameFactsSeen, SameEnds, SameCanonicalIDs DEF FactFound
<1>2. \A id : FactFound(old, id, q) => id \in DOMAIN old.facts
  BY SameFactsSeen DEF FactFound
<1>3. ~IndexUsable(new, q) /\ ~IndexUsable(old, q)
  BY DEF SamePast, IndexUsable
<1>4. DOMAIN old.facts \subseteq DOMAIN new.facts
  BY SameFactAt
<1> QED BY <1>1, <1>2, <1>3, <1>4 DEF FoundFacts

LEMMA SameLookup ==
    ASSUME NEW old, NEW new, NEW q, SamePast(old, new, q)
    PROVE  LookupFacts(new, q) = LookupFacts(old, q)
<1> DEFINE found == FoundFacts(old, q)
<1>1. \A id \in found : new.facts[id].observedAt = old.facts[id].observedAt
  BY SameFoundFacts DEF SamePast, SameFacts
<1> HIDE DEF found
<1>2. Newer(new, found) = Newer(old, found)
  BY <1>1 DEF Newer
<1> QED BY <1>2, SameFoundFacts DEF LookupFacts, found

-----------------------------------------------------------------------------
(* Neighborhoods.                                                          *)

LEMMA SameGraphEdges ==
    ASSUME NEW old, NEW new, NEW q, SamePast(old, new, q)
    PROVE  GraphEdges(new, q) = GraphEdges(old, q)
<1>1. \A id, f : FactEdges(new, id, f, q) = FactEdges(old, id, f, q)
  BY SameEnds DEF FactEdges
<1>2. UNION {FactEdges(new, id, FactAt(new, id, q), q) : id \in FactsSeen(new, q)}
        = UNION {FactEdges(old, id, FactAt(old, id, q), q) : id \in FactsSeen(old, q)}
  BY <1>1, SameFactsSeen
<1>3. {Edge("FROM_SOURCE", ep, new.episodes[ep].source) : ep \in EpisodesSeen(new, q)}
        = {Edge("FROM_SOURCE", ep, old.episodes[ep].source) : ep \in EpisodesSeen(old, q)}
  BY SameEpisodesSeen
<1> QED BY <1>2, <1>3, SameGraphNodes DEF GraphEdges

LEMMA SameNeighborhood ==
    ASSUME NEW old, NEW new, NEW q, SamePast(old, new, q)
    PROVE  Neighborhood(new, q) = Neighborhood(old, q)
<1>1. Ring(new, q) = Ring(old, q)
  BY SameCanonicalIDs, SameGraphNodes, SameGraphEdges DEF Ring
<1> QED BY <1>1, SameGraphEdges DEF Neighborhood

-----------------------------------------------------------------------------
(* Provenance.                                                             *)

LEMMA SameSupports ==
    ASSUME NEW old, NEW new, NEW q, SamePast(old, new, q)
    PROVE  \A f : /\ Supports(new, f, q) = Supports(old, f, q)
                  /\ \A ep \in Supports(old, f, q) : new.episodes[ep] = old.episodes[ep]
BY SameEpisode DEF Supports

LEMMA SameSuccessors ==
    ASSUME NEW old, NEW new, NEW q, SamePast(old, new, q)
    PROVE  \A f : Successors(new, f, q) = Successors(old, f, q)
<1>1. \A s \in DOMAIN old.facts : s \in DOMAIN new.facts /\ new.facts[s].space = old.facts[s].space
  BY DEF SamePast, SameFacts
<1> QED BY <1>1, SameFactAt DEF Successors

LEMMA SamePredecessors ==
    ASSUME NEW old, NEW new, NEW q, SamePast(old, new, q), NEW id \in DOMAIN old.facts
    PROVE  \A f : Predecessors(new, id, f, q) = Predecessors(old, id, f, q)
<1>1. \A s \in DOMAIN old.facts :
         /\ s \in DOMAIN new.facts /\ new.facts[s].space = old.facts[s].space
         /\ new.facts[s].supersededBy = id <=> old.facts[s].supersededBy = id
  BY DEF SamePast, SameFacts
<1> QED BY <1>1, SameFactAt DEF Predecessors

LEMMA SameFactProvenance ==
    ASSUME NEW old, NEW new, NEW q, SamePast(old, new, q), NEW id \in FactsSeen(old, q)
    PROVE  FactProvenance(new, id, q) = FactProvenance(old, id, q)
<1> DEFINE f == FactAt(old, id, q)
           episodes == Supports(old, f, q)
<1>1. id \in DOMAIN old.facts /\ id \in DOMAIN new.facts /\ FactAt(new, id, q) = f
  BY SameFactsSeen, SameFactAt
<1>2. Supports(new, f, q) = episodes
  BY SameSupports
<1>3. \A ep \in episodes : new.episodes[ep] = old.episodes[ep]
  BY SameSupports
<1>4. Successors(new, f, q) = Successors(old, f, q) /\ Predecessors(new, id, f, q) = Predecessors(old, id, f, q)
  BY <1>1, SameSuccessors, SamePredecessors
<1> HIDE DEF f, episodes
<1> DEFINE sourced == {ep \in episodes : Depth(q) >= 2 /\ old.episodes[ep].source \in SourcesSeen(old, q)}
<1>5. {ep \in episodes : Depth(q) >= 2 /\ new.episodes[ep].source \in SourcesSeen(new, q)} = sourced
  BY <1>3, SameSourcesSeen
<1>6. /\ {new.episodes[ep].source : ep \in sourced} = {old.episodes[ep].source : ep \in sourced}
      /\ {Edge("FROM_SOURCE", ep, new.episodes[ep].source) : ep \in sourced}
           = {Edge("FROM_SOURCE", ep, old.episodes[ep].source) : ep \in sourced}
  BY <1>3
<1> HIDE DEF sourced
<1>7. Supports(old, f, q) = episodes /\ FactAt(old, id, q) = f
  BY DEF f, episodes
<1>8. {ep \in episodes : Depth(q) >= 2 /\ old.episodes[ep].source \in SourcesSeen(old, q)} = sourced
  BY DEF sourced
<1> QED BY <1>1, <1>2, <1>4, <1>5, <1>6, <1>7, <1>8 DEF FactProvenance

LEMMA SameEntityProvenance ==
    ASSUME NEW old, NEW new, NEW q, SamePast(old, new, q), NEW id \in EntitiesSeen(old, q)
    PROVE  EntityProvenance(new, id, q) = EntityProvenance(old, id, q)
<1> DEFINE canonical == Canonical(old, id, q)
           Facts(d) == {x \in DOMAIN d.facts :
                          LET f == FactAt(d, x, q)
                          IN  /\ f # None
                              /\ f.space = q.space
                              /\ canonical \in {Subject(d, f, q), Object(d, f, q)}}
<1>1. Canonical(new, id, q) = canonical
  BY SameCanonical
<1>2. id \in EntitiesSeen(new, q)
  BY SameEntitiesSeen
<1> HIDE DEF canonical
<1>3. Facts(new) = Facts(old)
  BY SameFactAt, SameEnds
<1>4. \A x \in Facts(old) :
         /\ FactAt(new, x, q) = FactAt(old, x, q)
         /\ Object(new, FactAt(new, x, q), q) = Object(old, FactAt(old, x, q), q)
         /\ Supports(new, FactAt(new, x, q), q) = Supports(old, FactAt(old, x, q), q)
         /\ Successors(new, FactAt(new, x, q), q) = Successors(old, FactAt(old, x, q), q)
  BY SameFactAt, SameEnds, SameSupports, SameSuccessors
<1> DEFINE Deep(fs) == IF Depth(q) >= 2 THEN fs ELSE {}
           Roles(d, fs) == {Edge(IF Object(d, FactAt(d, x, q), q) = canonical THEN "OBJECT" ELSE "SUBJECT", x, id) :
                              x \in fs}
           Asserted(d, fs) == UNION {{Edge("ASSERTS", ep, x) : ep \in Supports(d, FactAt(d, x, q), q)} : x \in fs}
           Superseded(d, fs) == UNION {{Edge("SUPERSEDES", s, x) : s \in Successors(d, FactAt(d, x, q), q)} : x \in fs}
           Answer(fs, roles, asserted, superseded) ==
              [nodes |-> {id} \cup fs \cup {e.from : e \in asserted \cup superseded},
               edges |-> roles \cup asserted \cup superseded]
           Tell(d) == Answer(Facts(d), Roles(d, Facts(d)), Asserted(d, Deep(Facts(d))), Superseded(d, Deep(Facts(d))))
<1>5. EntityProvenance(old, id, q) = Tell(old) /\ EntityProvenance(new, id, q) = Tell(new)
  BY <1>1, <1>2 DEF EntityProvenance, canonical
<1> HIDE DEF Answer
<1> DEFINE facts == Facts(old)
           deep == Deep(facts)
<1>6. \A x \in deep : x \in facts
  OBVIOUS
<1> HIDE DEF facts, deep
<1>7. Roles(new, facts) = Roles(old, facts)
  BY <1>4 DEF facts
<1>8. Asserted(new, deep) = Asserted(old, deep)
  <2>1. \A x \in deep : {Edge("ASSERTS", ep, x) : ep \in Supports(new, FactAt(new, x, q), q)}
                          = {Edge("ASSERTS", ep, x) : ep \in Supports(old, FactAt(old, x, q), q)}
    BY <1>4, <1>6 DEF facts
  <2> QED BY <2>1
<1>9. Superseded(new, deep) = Superseded(old, deep)
  <2>1. \A x \in deep : {Edge("SUPERSEDES", s, x) : s \in Successors(new, FactAt(new, x, q), q)}
                          = {Edge("SUPERSEDES", s, x) : s \in Successors(old, FactAt(old, x, q), q)}
    BY <1>4, <1>6 DEF facts
  <2> QED BY <2>1
<1>10. Facts(old) = facts /\ Facts(new) = facts /\ Deep(facts) = deep
  BY <1>3 DEF facts, deep
<1> HIDE DEF Facts, Deep, Roles, Asserted, Superseded
<1> QED BY <1>5, <1>7, <1>8, <1>9, <1>10

LEMMA SameEpisodeProvenance ==
    ASSUME NEW old, NEW new, NEW q, SamePast(old, new, q), NEW id \in EpisodesSeen(old, q)
    PROVE  EpisodeProvenance(new, id, q) = EpisodeProvenance(old, id, q)
<1>1. /\ EpisodeReadable(old, id, q) /\ EpisodeReadable(new, id, q)
      /\ new.episodes[id] = old.episodes[id] /\ id \in DOMAIN old.episodes
  BY SameEpisodesSeen, SameEpisode
<1> DEFINE Source_(d) == {s \in {d.episodes[id].source} \cap DOMAIN d.sources : d.sources[s].space = q.space}
           Facts(d) == {x \in DOMAIN d.facts :
                          LET f == FactAt(d, x, q)
                          IN  f # None /\ f.space = q.space /\ id \in f.support}
<1>2. Source_(new) = Source_(old)
  BY <1>1 DEF SamePast, SameEpisodes, SameSources
<1>3. Facts(new) = Facts(old)
  BY SameFactAt
<1> QED BY <1>1, <1>2, <1>3 DEF EpisodeProvenance

LEMMA SameProvenances ==
    ASSUME NEW old, NEW new, NEW q, SamePast(old, new, q)
    PROVE  Provenances(new, q) = Provenances(old, q)
<1>1. [id \in FactsSeen(new, q) |-> FactProvenance(new, id, q)]
        = [id \in FactsSeen(old, q) |-> FactProvenance(old, id, q)]
  BY SameFactsSeen, SameFactProvenance
<1>2. [id \in EntitiesSeen(new, q) |-> EntityProvenance(new, id, q)]
        = [id \in EntitiesSeen(old, q) |-> EntityProvenance(old, id, q)]
  BY SameEntitiesSeen, SameEntityProvenance
<1>3. [id \in EpisodesSeen(new, q) |-> EpisodeProvenance(new, id, q)]
        = [id \in EpisodesSeen(old, q) |-> EpisodeProvenance(old, id, q)]
  BY SameEpisodesSeen, SameEpisodeProvenance
<1> QED BY <1>1, <1>2, <1>3 DEF Provenances

-----------------------------------------------------------------------------
(* Searches and what is included beside their hits.                        *)

LEMMA SameMarked ==
    ASSUME NEW old, NEW new, NEW q, SamePast(old, new, q)
    PROVE  \A e \in EntitiesSeen(old, q) :
              /\ Marked(new, e, q) <=> Marked(old, e, q)
              /\ EntityAt(new, e, q) = EntityAt(old, e, q)
BY SameEntityAt DEF EntitiesSeen, Marked, Mark

LEMMA SameDirect ==
    ASSUME NEW old, NEW new, NEW q, SamePast(old, new, q)
    PROVE  Direct(new, q) = Direct(old, q)
<1>1. DirectFacts(new, q) = DirectFacts(old, q)
  <2>1. \A id, f : FactAnchorIDs(new, id, f, q) = FactAnchorIDs(old, id, f, q)
    BY SameEnds DEF FactAnchorIDs
  <2>2. \A id \in FactsSeen(old, q) :
          FactAnchorIDs(new, id, FactAt(new, id, q), q) = FactAnchorIDs(old, id, FactAt(old, id, q), q)
    BY <2>1, SameFactsSeen
  <2> QED BY <2>2, SameFactsSeen, SameCanonicalIDs DEF DirectFacts
<1>2. DirectEpisodes(new, q) = DirectEpisodes(old, q)
  <2> DEFINE anchors == CanonicalIDs(old, q.ids, q)
  <2>1. CanonicalIDs(new, q.ids, q) = anchors
    BY SameCanonicalIDs
  <2>2. \A ep \in EpisodesSeen(old, q) : new.episodes[ep] = old.episodes[ep]
    BY SameEpisodesSeen
  <2> HIDE DEF anchors
  <2>3. \A ep \in EpisodesSeen(old, q) :
           MatchesAnchors(anchors, {ep, new.episodes[ep].source})
             <=> MatchesAnchors(anchors, {ep, old.episodes[ep].source})
    BY <2>2
  <2>4. DirectEpisodes(old, q) =
          {ep \in EpisodesSeen(old, q) :
              /\ q.predicates = {}
              /\ MatchesAnchors(anchors, {ep, old.episodes[ep].source})
              /\ old.episodes[ep].content \in Matching}
    BY DEF DirectEpisodes, anchors
  <2>5. DirectEpisodes(new, q) =
          {ep \in EpisodesSeen(old, q) :
              /\ q.predicates = {}
              /\ MatchesAnchors(anchors, {ep, new.episodes[ep].source})
              /\ new.episodes[ep].content \in Matching}
    BY <2>1, SameEpisodesSeen DEF DirectEpisodes
  <2> QED BY <2>2, <2>3, <2>4, <2>5
<1>3. DirectEntities(new, q) = DirectEntities(old, q)
  BY SameEntitiesSeen, SameMarked, SameCanonicalIDs DEF DirectEntities
<1> QED BY <1>1, <1>2, <1>3 DEF Direct

LEMMA DirectHits ==
    ASSUME NEW d, NEW q
    PROVE  /\ IDs(Direct(d, q), "fact") \subseteq FactsSeen(d, q)
           /\ IDs(Direct(d, q), "episode") \subseteq EpisodesSeen(d, q)
<1>1. \A h \in Direct(d, q) :
        /\ h.kind = "fact" => h.id \in FactsSeen(d, q)
        /\ h.kind = "episode" => h.id \in EpisodesSeen(d, q)
  <2> TAKE h \in Direct(d, q)
  <2>1. CASE \E id \in DirectFacts(d, q) : h = Hit("fact", id)
    BY <2>1 DEF Hit, DirectFacts
  <2>2. CASE \E id \in DirectEpisodes(d, q) : h = Hit("episode", id)
    BY <2>2 DEF Hit, DirectEpisodes
  <2>3. CASE \E id \in DirectEntities(d, q) : h = Hit("entity", id)
    BY <2>3 DEF Hit
  <2> QED BY <2>1, <2>2, <2>3 DEF Direct
<1> QED BY <1>1 DEF IDs

LEMMA SameSharedBy ==
    ASSUME NEW old, NEW new, NEW q, SamePast(old, new, q)
    PROVE  /\ \A f : Shared(new, f, q) = Shared(old, f, q)
           /\ \A ids \in SUBSET FactsSeen(old, q) : SharedBy(new, ids, q) = SharedBy(old, ids, q)
           /\ \A seeds, found : Expanded(new, seeds, found, q) = Expanded(old, seeds, found, q)
<1>1. \A f : Shared(new, f, q) = Shared(old, f, q)
  BY SameEnds DEF Shared
<1>2. ASSUME NEW ids \in SUBSET FactsSeen(old, q) PROVE SharedBy(new, ids, q) = SharedBy(old, ids, q)
  <2>1. \A id \in ids : Shared(new, FactAt(new, id, q), q) = Shared(old, FactAt(old, id, q), q)
    BY <1>1, <1>2, SameFactsSeen
  <2> QED BY <2>1 DEF SharedBy
<1>3. \A seeds, found : Expanded(new, seeds, found, q) = Expanded(old, seeds, found, q)
  BY <1>1, SameFactsSeen DEF Expanded
<1> QED BY <1>1, <1>2, <1>3

LEMMA SameSearch ==
    ASSUME NEW old, NEW new, NEW q, SamePast(old, new, q)
    PROVE  Search(new, q) = Search(old, q)
<1> DEFINE direct == Direct(old, q)
           seeds == {h.id : h \in direct} \cup SharedBy(old, IDs(direct, "fact"), q)
                      \cup {old.episodes[ep].source : ep \in IDs(direct, "episode")}
<1>1. IDs(direct, "fact") \subseteq FactsSeen(old, q) /\ IDs(direct, "episode") \subseteq EpisodesSeen(old, q)
  BY DirectHits
<1> HIDE DEF direct
<1>2. SharedBy(new, IDs(direct, "fact"), q) = SharedBy(old, IDs(direct, "fact"), q)
  BY <1>1, SameSharedBy
<1>3. {new.episodes[ep].source : ep \in IDs(direct, "episode")}
        = {old.episodes[ep].source : ep \in IDs(direct, "episode")}
  BY <1>1, SameEpisodesSeen
<1>4. ASSUME NEW once, once \subseteq FactsSeen(old, q), NEW found
      PROVE  SecondRound(new, once, found, q) = SecondRound(old, once, found, q)
  BY <1>4, SameSharedBy DEF SecondRound
<1>5. Expanded(old, seeds, IDs(direct, "fact"), q) \subseteq FactsSeen(old, q)
  BY DEF Expanded
<1>6. TwoRounds(old, direct, q)
        = SecondRound(old, Expanded(old, seeds, IDs(direct, "fact"), q), IDs(direct, "fact"), q)
  BY DEF TwoRounds
<1>7. TwoRounds(new, direct, q)
        = SecondRound(new, Expanded(new, seeds, IDs(direct, "fact"), q), IDs(direct, "fact"), q)
  BY <1>2, <1>3 DEF TwoRounds
<1> HIDE DEF seeds
<1>8. TwoRounds(new, direct, q) = TwoRounds(old, direct, q)
  BY <1>4, <1>5, <1>6, <1>7, SameSharedBy
<1>9. WithNeighbors(new, direct, q) = WithNeighbors(old, direct, q)
  BY <1>8 DEF WithNeighbors
<1> QED BY <1>9, SameDirect DEF Search, direct

LEMMA SameIncluded ==
    ASSUME NEW old, NEW new, NEW q, SamePast(old, new, q)
    PROVE  \A page : Included(new, q, page) = Included(old, q, page)
<1> TAKE page
<1>1. \A ids : IncludedEntities(new, ids, q) = IncludedEntities(old, ids, q)
  BY SameCanonicalIDs, SameEntitiesSeen, SameMarked DEF IncludedEntities
<1> DEFINE facts == IDs(page, "fact") \cap FactsSeen(old, q)
<1>2. \A id \in facts : FactAt(new, id, q) = FactAt(old, id, q)
  BY SameFactsSeen
<1>3. Included(new, q, page) = IncludedWith(new, q, page, facts)
  BY SameFactsSeen DEF Included
<1>4. Included(old, q, page) = IncludedWith(old, q, page, facts)
  BY DEF Included
<1> HIDE DEF facts
<1>5. /\ UNION {FactAt(new, id, q).support : id \in facts} = UNION {FactAt(old, id, q).support : id \in facts}
      /\ UNION {{FactAt(new, id, q).subject, FactAt(new, id, q).object} : id \in facts}
           = UNION {{FactAt(old, id, q).subject, FactAt(old, id, q).object} : id \in facts}
  BY <1>2
<1> DEFINE Episodes(d) == IF ~WantsEpisodes(q) THEN {}
                          ELSE EpisodesSeen(d, q)
                                 \cap (IDs(page, "episode") \cup UNION {FactAt(d, id, q).support : id \in facts})
           Entities(d) == IF ~Wants(q, "entities") THEN {}
                          ELSE IncludedEntities(d, IDs(page, "entity")
                            \cup UNION {{FactAt(d, id, q).subject, FactAt(d, id, q).object} : id \in facts}, q)
           Sources(d) == {d.episodes[ep].source : ep \in Episodes(old)} \cap SourcesSeen(d, q)
<1>6. Episodes(new) = Episodes(old)
  BY <1>5, SameEpisodesSeen
<1>7. Entities(new) = Entities(old)
  BY <1>1, <1>5
<1>8. Sources(new) = Sources(old)
  <2>1. \A ep \in Episodes(old) : new.episodes[ep] = old.episodes[ep]
    BY SameEpisodesSeen
  <2> HIDE DEF Episodes
  <2> QED BY <2>1, SameSourcesSeen
<1> DEFINE Answer(episodes, entities, sources) ==
              [facts |-> IF Wants(q, "facts") THEN facts ELSE {}, episodes |-> episodes,
               entities |-> entities, sources |-> sources]
           episodes == Episodes(old)
<1>9. IncludedWith(old, q, page, facts) = Answer(Episodes(old), Entities(old), Sources(old))
  BY DEF IncludedWith
<1>10. IncludedWith(new, q, page, facts)
         = Answer(Episodes(new), Entities(new), {new.episodes[ep].source : ep \in Episodes(new)} \cap SourcesSeen(new, q))
  BY DEF IncludedWith
<1>11. IncludedWith(new, q, page, facts) = Answer(Episodes(new), Entities(new), Sources(new))
  <2> HIDE DEF Answer, Entities, Episodes
  <2> QED BY <1>6, <1>10
<1> HIDE DEF Answer, Entities, Episodes, Sources
<1> QED BY <1>3, <1>4, <1>6, <1>7, <1>8, <1>9, <1>11

-----------------------------------------------------------------------------
(* Timelines.                                                              *)

(* A revision written after the cut comes after every revision before it.  *)
LEMMA LaterRevisions ==
    ASSUME NEW old, NEW new, NEW at \in Nat, SameLog(old, new, at),
           NEW r \in DOMAIN new.factRevisions, new.factRevisions[r].txTime <= at
    PROVE  /\ r \in DOMAIN old.factRevisions
           /\ \A x \in DOMAIN new.factRevisions \ DOMAIN old.factRevisions :
                ComesAfter(Version(x, new.factRevisions[x]), Version(r, new.factRevisions[r]))
BY DEF SameLog, ComesAfter, Version

LEMMA SamePosition ==
    ASSUME NEW old, NEW new, NEW at \in Nat, SameLog(old, new, at),
           NEW r \in DOMAIN new.factRevisions, new.factRevisions[r].txTime <= at
    PROVE  Position(new, r) = Position(old, r)
<1> DEFINE Before_(d) == {x \in DOMAIN d.factRevisions :
              /\ d.factRevisions[x].fact = d.factRevisions[r].fact
              /\ ~ComesAfter(Version(x, d.factRevisions[x]), Version(r, d.factRevisions[r]))}
<1>1. r \in DOMAIN old.factRevisions
  BY LaterRevisions
<1>2. \A x \in DOMAIN old.factRevisions : x \in DOMAIN new.factRevisions /\ new.factRevisions[x] = old.factRevisions[x]
  BY DEF SameLog
<1>3. Before_(new) = Before_(old)
  BY <1>1, <1>2, LaterRevisions
<1> QED BY <1>3 DEF Position

LEMMA SameTellings ==
    ASSUME NEW old, NEW new, NEW at, SameLog(old, new, at), NEW id, NEW status, NEW q
    PROVE  Tellings(new, id, status, q) \cap DOMAIN old.factRevisions = Tellings(old, id, status, q)
BY DEF SameLog, Tellings

LEMMA SameFirst ==
    ASSUME NEW old, NEW new, NEW at \in Nat, SameLog(old, new, at), NEW id, NEW status, NEW q,
           NEW r \in DOMAIN new.factRevisions, new.factRevisions[r].txTime <= at
    PROVE  r \in First(new, Tellings(new, id, status, q)) <=> r \in First(old, Tellings(old, id, status, q))
<1>1. r \in DOMAIN old.factRevisions
  BY LaterRevisions
<1>2. \A x \in DOMAIN old.factRevisions : x \in DOMAIN new.factRevisions /\ new.factRevisions[x] = old.factRevisions[x]
  BY DEF SameLog
<1>3. Tellings(new, id, status, q) \cap DOMAIN old.factRevisions = Tellings(old, id, status, q)
  BY SameTellings
<1>4. Tellings(new, id, status, q) \subseteq DOMAIN new.factRevisions
  BY DEF Tellings
<1> QED BY <1>1, <1>2, <1>3, <1>4, LaterRevisions DEF First

(* What the timeline shows of a lifecycle up to the cut.                   *)
LEMMA SameLifecycleEvents ==
    ASSUME NEW old, NEW new, NEW q, SamePast(old, new, q), NEW id, NEW e, e.at <= q.asOf
    PROVE  e \in LifecycleEvents(new, id, q) <=> e \in LifecycleEvents(old, id, q)
<1>0. SameLog(old, new, q.asOf) /\ q.asOf \in Nat
  BY DEF SamePast, Request
<1>1. \A x \in DOMAIN old.factRevisions : x \in DOMAIN new.factRevisions /\ new.factRevisions[x] = old.factRevisions[x]
  BY <1>0 DEF SameLog
<1> DEFINE Superseding(d, r) == Event("fact_superseded", id, d.factRevisions[r].record.updatedAt, Position(d, r))
           Retracting(d, r) == Event("fact_retracted", id, d.factRevisions[r].record.retractedAt, Position(d, r))
           S(d) == First(d, Tellings(d, id, "superseded", q))
           R(d) == First(d, Tellings(d, id, "retracted", q))
<1>2. /\ S(new) \subseteq DOMAIN new.factRevisions /\ R(new) \subseteq DOMAIN new.factRevisions
      /\ S(old) \subseteq DOMAIN old.factRevisions /\ R(old) \subseteq DOMAIN old.factRevisions
  BY DEF First, Tellings
<1>3. \A r \in R(new) : new.factRevisions[r].record.status = "retracted"
  BY DEF First, Tellings
<1>4. \A r \in R(old) : old.factRevisions[r].record.status = "retracted"
  BY DEF First, Tellings
<1>5. \A r \in DOMAIN new.factRevisions : new.factRevisions[r].txTime <= q.asOf =>
        /\ r \in DOMAIN old.factRevisions /\ Position(new, r) = Position(old, r)
        /\ r \in S(new) <=> r \in S(old)
        /\ r \in R(new) <=> r \in R(old)
  BY <1>0, LaterRevisions, SamePosition, SameFirst
<1>6. \A d, r : Superseding(d, r).at = d.factRevisions[r].record.updatedAt
                  /\ Retracting(d, r).at = d.factRevisions[r].record.retractedAt
  BY DEF Event
<1>7. \A d : e \in LifecycleEvents(d, id, q)
               <=> (\E r \in S(d) : e = Superseding(d, r)) \/ (\E r \in R(d) : e = Retracting(d, r))
  BY DEF LifecycleEvents
<1>8. \A r \in DOMAIN new.factRevisions :
        /\ new.factRevisions[r].record.updatedAt = new.factRevisions[r].txTime
        /\ new.factRevisions[r].record.status = "retracted"
             => new.factRevisions[r].record.retractedAt = new.factRevisions[r].txTime
  BY <1>0 DEF SameLog
<1>9. \A r \in DOMAIN old.factRevisions : Position(new, r) = Position(old, r)
        => Superseding(new, r) = Superseding(old, r) /\ Retracting(new, r) = Retracting(old, r)
  BY <1>1
<1> HIDE DEF Superseding, Retracting, S, R
<1>10. ASSUME e \in LifecycleEvents(new, id, q) PROVE e \in LifecycleEvents(old, id, q)
  <2>1. CASE \E r \in S(new) : e = Superseding(new, r)
    BY <2>1, <1>2, <1>5, <1>6, <1>7, <1>8, <1>9
  <2>2. CASE \E r \in R(new) : e = Retracting(new, r)
    BY <2>2, <1>2, <1>3, <1>5, <1>6, <1>7, <1>8, <1>9
  <2> QED BY <1>10, <1>7, <2>1, <2>2
<1>11. ASSUME e \in LifecycleEvents(old, id, q) PROVE e \in LifecycleEvents(new, id, q)
  <2>1. CASE \E r \in S(old) : e = Superseding(old, r)
    BY <2>1, <1>1, <1>2, <1>5, <1>6, <1>7, <1>8, <1>9
  <2>2. CASE \E r \in R(old) : e = Retracting(old, r)
    BY <2>2, <1>1, <1>2, <1>4, <1>5, <1>6, <1>7, <1>8, <1>9
  <2> QED BY <1>11, <1>7, <2>1, <2>2
<1> QED BY <1>10, <1>11

LEMMA SameTimelineEvents ==
    ASSUME NEW old, NEW new, NEW q0, SamePast(old, new, q0)
    PROVE  TimelineEvents(new, q0) = TimelineEvents(old, q0)
<1> DEFINE q == WithInactive(q0)
<1>1. q \in Request /\ q.asOf = q0.asOf
  BY DEF SamePast, WithInactive, Request
<1>2. SamePast(old, new, q)
  BY <1>1 DEF SamePast
<1> HIDE DEF q
<1> DEFINE anchors == CanonicalIDs(old, q.ids, q)
           Episodes(d) == {ep \in EpisodesSeen(d, q) : MatchesAnchors(anchors, {ep, d.episodes[ep].source})}
           Facts(d) == {id \in FactsSeen(d, q) : MatchesAnchors(anchors, FactAnchorIDs(d, id, FactAt(d, id, q), q))}
           Shown(e) == EventVisible(e.at, q) /\ (q.kinds = {} \/ e.type \in q.kinds)
           Ingested(d, eps) == {EpisodeEvent(d, ep) : ep \in eps}
           Created(d, fs) == {CreationEvent(d, id) : id \in fs}
           Lived(d, fs) == UNION {LifecycleEvents(d, id, q) : id \in fs}
           All(d, eps, fs) == Ingested(d, eps) \cup Created(d, fs) \cup Lived(d, fs)
<1>3. CanonicalIDs(new, q.ids, q) = anchors
  BY <1>2, SameCanonicalIDs
<1> HIDE DEF anchors
<1>4. TimelineEvents(new, q0) = {e \in All(new, Episodes(new), Facts(new)) : Shown(e)}
  BY <1>3 DEF TimelineEvents, q
<1>5. TimelineEvents(old, q0) = {e \in All(old, Episodes(old), Facts(old)) : Shown(e)}
  BY DEF TimelineEvents, q, anchors
<1>6. Episodes(new) = Episodes(old)
  <2>1. \A ep \in EpisodesSeen(old, q) : new.episodes[ep] = old.episodes[ep]
    BY <1>2, SameEpisodesSeen
  <2>2. \A ep \in EpisodesSeen(old, q) :
           MatchesAnchors(anchors, {ep, new.episodes[ep].source})
             <=> MatchesAnchors(anchors, {ep, old.episodes[ep].source})
    BY <2>1
  <2>3. EpisodesSeen(new, q) = EpisodesSeen(old, q)
    BY <1>2, SameEpisodesSeen
  <2> QED BY <2>2, <2>3
<1>7. Facts(new) = Facts(old)
  <2>1. \A id, f : FactAnchorIDs(new, id, f, q) = FactAnchorIDs(old, id, f, q)
    BY <1>2, SameEnds DEF FactAnchorIDs
  <2>2. \A id \in FactsSeen(old, q) :
          FactAnchorIDs(new, id, FactAt(new, id, q), q) = FactAnchorIDs(old, id, FactAt(old, id, q), q)
    BY <2>1, <1>2, SameFactsSeen
  <2>3. FactsSeen(new, q) = FactsSeen(old, q)
    BY <1>2, SameFactsSeen
  <2> QED BY <2>2, <2>3
<1> DEFINE eps == Episodes(old)
           fs == Facts(old)
<1>8. /\ \A ep \in eps : new.episodes[ep] = old.episodes[ep]
      /\ \A id \in fs : /\ new.facts[id].createdAt = old.facts[id].createdAt
                        /\ new.facts[id].observedAt = old.facts[id].observedAt
  <2>1. eps \subseteq EpisodesSeen(old, q) /\ fs \subseteq FactsSeen(old, q)
    OBVIOUS
  <2>2. \A id \in DOMAIN old.facts : /\ new.facts[id].createdAt = old.facts[id].createdAt
                                      /\ new.facts[id].observedAt = old.facts[id].observedAt
    BY <1>2 DEF SamePast, SameFacts
  <2> HIDE DEF eps, fs
  <2> QED BY <1>2, <2>1, <2>2, SameEpisodesSeen, SameFactsSeen
<1>9. Episodes(new) = eps /\ Episodes(old) = eps /\ Facts(new) = fs /\ Facts(old) = fs
  BY <1>6, <1>7
<1> HIDE DEF Episodes, Facts, eps, fs
<1>10. Ingested(new, eps) = Ingested(old, eps) /\ Created(new, fs) = Created(old, fs)
  BY <1>8 DEF EpisodeEvent, CreationEvent
<1>11. \A e : Shown(e) => (e \in Lived(new, fs) <=> e \in Lived(old, fs))
  <2>1. \A e : Shown(e) => e.at <= q.asOf
    BY <1>2 DEF EventVisible, SamePast
  <2> SUFFICES ASSUME NEW e, Shown(e) PROVE e \in Lived(new, fs) <=> e \in Lived(old, fs)
    OBVIOUS
  <2>2. \A id : e \in LifecycleEvents(new, id, q) <=> e \in LifecycleEvents(old, id, q)
    BY <2>1, <1>2, SameLifecycleEvents
  <2> HIDE DEF Shown
  <2> QED BY <2>2
<1> HIDE DEF Shown, Ingested, Created, Lived
<1>12. \A e : Shown(e) => (e \in All(new, eps, fs) <=> e \in All(old, eps, fs))
  BY <1>10, <1>11
<1> HIDE DEF All
<1> QED BY <1>4, <1>5, <1>9, <1>12

LEMMA SameTimeline ==
    ASSUME NEW old, NEW new, NEW q, SamePast(old, new, q)
    PROVE  Timeline(new, q, FALSE) = Timeline(old, q, FALSE)
BY SameTimelineEvents DEF Timeline

(* Nothing a query told about a cut depends on what was written after it.  *)
LEMMA SameAnswers ==
    ASSUME NEW old, NEW new, NEW q, SamePast(old, new, q)
    PROVE  Answers(new, q) = Answers(old, q)
<1>1. LookupFacts(new, q) = LookupFacts(old, q) /\ Neighborhood(new, q) = Neighborhood(old, q)
  BY SameLookup, SameNeighborhood
<1>2. Timeline(new, q, FALSE) = Timeline(old, q, FALSE)
  BY SameTimeline
<1>3. Search(new, q) = Search(old, q)
  BY SameSearch
<1>4. Included(new, q, Search(new, q)) = Included(old, q, Search(old, q))
  BY <1>3, SameIncluded
<1> QED BY <1>1, <1>2, <1>3, <1>4, SameProvenances DEF Answers

-----------------------------------------------------------------------------
(* What a mutation writes is stamped no earlier than the instant it        *)
(* pinned; of all that was there before, only live facts and live entities *)
(* are rewritten.                                                          *)

(* A revision bears the stamps of the version it holds.                    *)
IsStamped(revision) ==
    /\ revision.record.updatedAt = revision.txTime
    /\ revision.record.status = "retracted" => revision.record.retractedAt = revision.txTime

LogsFrom(d, e, t) ==
    /\ DOMAIN d.facts \subseteq DOMAIN e.facts
    /\ \A r \in DOMAIN d.factRevisions :
          r \in DOMAIN e.factRevisions /\ e.factRevisions[r] = d.factRevisions[r]
    /\ \A r \in DOMAIN e.factRevisions \ DOMAIN d.factRevisions :
          t <= e.factRevisions[r].txTime /\ IsStamped(e.factRevisions[r])

StoresFrom(d, e, t) ==
    /\ \A id \in DOMAIN d.sources : id \in DOMAIN e.sources /\ e.sources[id] = d.sources[id]
    /\ \A id \in DOMAIN e.sources \ DOMAIN d.sources : t <= e.sources[id].createdAt
    /\ \A id \in DOMAIN d.episodes : id \in DOMAIN e.episodes /\ e.episodes[id] = d.episodes[id]
    /\ \A id \in DOMAIN e.episodes \ DOMAIN d.episodes : t <= e.episodes[id].ingestedAt
    /\ DOMAIN d.entities \subseteq DOMAIN e.entities
    /\ \A r \in DOMAIN d.entityRevisions :
          r \in DOMAIN e.entityRevisions /\ e.entityRevisions[r] = d.entityRevisions[r]
    /\ \A r \in DOMAIN e.entityRevisions \ DOMAIN d.entityRevisions :
          t <= e.entityRevisions[r].txTime

WritesFrom(d, e, t) == LogsFrom(d, e, t) /\ StoresFrom(d, e, t)

LEMMA LogsOnAndOn ==
    ASSUME NEW a, NEW b, NEW c, NEW t, LogsFrom(a, b, t), LogsFrom(b, c, t)
    PROVE  LogsFrom(a, c, t)
<1>1. \A r \in DOMAIN c.factRevisions \ DOMAIN a.factRevisions :
        t <= c.factRevisions[r].txTime /\ IsStamped(c.factRevisions[r])
  BY DEF LogsFrom
<1> QED BY <1>1 DEF LogsFrom

LEMMA StoresOnAndOn ==
    ASSUME NEW a, NEW b, NEW c, NEW t, StoresFrom(a, b, t), StoresFrom(b, c, t)
    PROVE  StoresFrom(a, c, t)
<1>1. \A id \in DOMAIN c.sources \ DOMAIN a.sources : t <= c.sources[id].createdAt
  BY DEF StoresFrom
<1>2. \A id \in DOMAIN c.episodes \ DOMAIN a.episodes : t <= c.episodes[id].ingestedAt
  BY DEF StoresFrom
<1>3. \A r \in DOMAIN c.entityRevisions \ DOMAIN a.entityRevisions : t <= c.entityRevisions[r].txTime
  BY DEF StoresFrom
<1> QED BY <1>1, <1>2, <1>3 DEF StoresFrom

LEMMA RecordsLogsFrom ==
    ASSUME NEW d, IsDB(d), NEW id, NEW fact, NEW n, NEW e, Records(d, id, fact, n, e),
           NEW t, t <= fact.updatedAt, fact.status = "retracted" => fact.retractedAt = fact.updatedAt
    PROVE  LogsFrom(d, e, t) /\ IsDB(e)
<1> DEFINE new == GeneratedID("factrev", n)
<1>1. /\ IsDB(e) /\ e.facts = Put(d.facts, id, fact)
      /\ e.factRevisions = Put(d.factRevisions, new, FactRevisionOf(id, fact))
  BY RecordsFields
<1>2. new \notin DOMAIN d.factRevisions
  BY StoreFactFields DEF Records, IDExists
<1>3. IsStamped(FactRevisionOf(id, fact)) /\ t <= FactRevisionOf(id, fact).txTime
  BY DEF IsStamped, FactRevisionOf
<1> HIDE DEF new
<1> QED BY <1>1, <1>2, <1>3 DEF LogsFrom, Put

LEMMA SetSequenceLogsFrom ==
    ASSUME IsDB(db), NEW s \in Nat, NEW e, NEW t, LogsFrom(SetSequence(db, s), e, t)
    PROVE  LogsFrom(db, e, t)
BY SetSequenceFields DEF LogsFrom

LEMMA AssertFactLogs ==
    ASSUME IInv, AssertFact
    PROVE  LogsFrom(db, db', txTime')
<1>1. PICK in, s, n : in \in FactInputs /\ AssertsFact(in, s, n)
  BY AssertFactStep DEF IInv
<1> DEFINE fact == NewFact(in, in.single, txTime)
           id == RecordID(in.id, "fact", s)
<1>2. Records(SetSequence(db, s), id, fact, n, db') /\ s \in Nat
  BY <1>1 DEF AssertsFact
<1>3. IsDB(SetSequence(db, s)) /\ IsDB(db) /\ txTime \in Nat /\ txTime' = txTime
  BY <1>2, SetSequenceFields DEF IInv, TypeOK, AssertFact
<1>4. fact.updatedAt = txTime /\ fact.status = "active"
  BY DEF NewFact
<1> HIDE DEF fact, id
<1>5. LogsFrom(SetSequence(db, s), db', txTime')
  BY <1>2, <1>3, <1>4, RecordsLogsFrom
<1> QED BY <1>2, <1>3, <1>5, SetSequenceLogsFrom

LEMMA SupersedeFactLogs ==
    ASSUME IInv, SupersedeFact
    PROVE  LogsFrom(db, db', txTime')
<1>1. PICK old, in, s, a, b, n1, n2, n3 : SupersedesFact(old, in, s, a, b, n1, n2, n3)
  BY SupersedeFactStep DEF IInv
<1> DEFINE new  == RecordID(in.id, "fact", s)
           now  == txTime'
           fact == NewFact(in, FALSE, now)
           gone == Retired(db.facts[old], in, now, new)
           link == Succeeding(fact, old)
           d    == SetSequence(db, s)
<1>2. /\ s \in Nat /\ old \in DOMAIN db.facts
      /\ Records(d, new, fact, n1, a) /\ Records(a, old, gone, n2, b) /\ Records(b, new, link, n3, db')
  BY <1>1 DEF SupersedesFact
<1>3. IsDB(db) /\ IsDB(d) /\ now \in Nat
  BY <1>1, <1>2, SupersedesIsDB, SetSequenceFields DEF IInv, TypeOK
<1>4. db.facts[old] \in Fact
  BY <1>2, <1>3 DEF IsDB, IsMap
<1>5. /\ fact.updatedAt = now /\ fact.status = "active"
      /\ gone.updatedAt = now /\ gone.status = "superseded"
      /\ link.updatedAt = now /\ link.status = "active"
  BY <1>4 DEF NewFact, Retired, Succeeding, Fact
<1>6. now <= now
  BY <1>3
<1> HIDE DEF new, now, fact, gone, link, d
<1>7. LogsFrom(d, a, now) /\ IsDB(a)
  BY <1>2, <1>3, <1>5, <1>6, RecordsLogsFrom
<1>8. LogsFrom(a, b, now) /\ IsDB(b)
  BY <1>2, <1>5, <1>6, <1>7, RecordsLogsFrom
<1>9. LogsFrom(b, db', now)
  BY <1>2, <1>5, <1>6, <1>8, RecordsLogsFrom
<1>10. LogsFrom(d, db', now)
  BY <1>7, <1>8, <1>9, LogsOnAndOn
<1> QED BY <1>2, <1>3, <1>10, SetSequenceLogsFrom DEF d, now

LEMMA RetractFactLogs ==
    ASSUME IInv, RetractFact
    PROVE  LogsFrom(db, db', txTime')
<1>1. CASE db' = db
  BY <1>1 DEF LogsFrom
<1>2. CASE db' # db
  <2>1. PICK id, n : RetractsFact(id, n)
    BY <1>2, RetractFactStep DEF IInv
  <2> DEFINE now  == StrictlyAfter(txTime, db.facts[id].updatedAt)
             gone == Retracted(db.facts[id], now)
  <2>2. id \in DOMAIN db.facts /\ Records(db, id, gone, n, db')
    BY <2>1 DEF RetractsFact
  <2>3. /\ IsDB(db) /\ db.facts[id] \in Fact /\ db.facts[id].updatedAt \in Nat /\ txTime \in Nat
        /\ txTime' = txTime
    BY <2>2 DEF IInv, TypeOK, IsDB, IsMap, Fact, RetractFact
  <2>4. txTime <= now
    BY <2>3 DEF StrictlyAfter
  <2> HIDE DEF now
  <2>5. gone.updatedAt = now /\ gone.retractedAt = now
    BY <2>3 DEF Retracted, Fact
  <2> HIDE DEF gone
  <2> QED BY <2>2, <2>3, <2>4, <2>5, RecordsLogsFrom
<1> QED BY <1>1, <1>2

(* What the live records are told of by, whatever the clock does.          *)
IsTold(d) ==
    /\ \A ep \in DOMAIN d.episodes : d.episodes[ep].source \in DOMAIN d.sources
    /\ \A r \in DOMAIN d.entityRevisions : d.entityRevisions[r].entity \in DOMAIN d.entities
    /\ \A id \in DOMAIN d.entities : \E r \in DOMAIN d.entityRevisions :
          /\ d.entityRevisions[r].entity = id
          /\ d.entityRevisions[r].txTime = d.entities[id].updatedAt
    /\ \A r \in DOMAIN d.factRevisions : IsStamped(d.factRevisions[r])

PastInv ==
    /\ IsTold(db) /\ IsTold(snapshot)
    /\ phase # "idle" => WritesFrom(snapshot, db, txTime)

LEMMA WritesFromItself ==
    ASSUME NEW d, NEW t
    PROVE  WritesFrom(d, d, t)
BY DEF WritesFrom, LogsFrom, StoresFrom

LEMMA FactOperationsTell ==
    ASSUME IInv, PastInv, AssertFact \/ SupersedeFact \/ RetractFact
    PROVE  IsTold(db') /\ WritesFrom(db, db', txTime')
<1>1. OthersKept
  BY FactOperationsKeepOthers
<1>2. LogsFrom(db, db', txTime')
  BY AssertFactLogs, SupersedeFactLogs, RetractFactLogs
<1>3. StoresFrom(db, db', txTime')
  BY <1>1 DEF OthersKept, StoresFrom
<1>4. IsTold(db')
  BY <1>1, <1>2 DEF OthersKept, LogsFrom, IsTold, PastInv
<1> QED BY <1>2, <1>3, <1>4 DEF WritesFrom

LEMMA IngestEpisodeTells ==
    ASSUME IInv, PastInv, IngestEpisode
    PROVE  IsTold(db') /\ WritesFrom(db, db', txTime')
<1>1. PICK source, id : IngestsEpisode(source, id)
  BY IngestEpisodeStep DEF IInv
<1>2. txTime' = txTime /\ txTime <= txTime
  BY DEF IngestEpisode, IInv, TypeOK
<1>3. StoresFrom(db, db', txTime')
  BY <1>1, <1>2 DEF IngestsEpisode, StoresFrom
<1>4. LogsFrom(db, db', txTime')
  BY <1>1 DEF IngestsEpisode, LogsFrom
<1>5. IsTold(db')
  BY <1>1 DEF IngestsEpisode, IsTold, PastInv
<1> QED BY <1>3, <1>4, <1>5 DEF WritesFrom

LEMMA UpsertEntityTells ==
    ASSUME IInv, PastInv, UpsertEntity
    PROVE  IsTold(db') /\ WritesFrom(db, db', txTime')
<1>1. PICK id, revision : UpsertsEntity(id, revision)
  BY UpsertEntityStep DEF IInv
<1> DEFINE entity == db'.entities[id]
<1>2. txTime' = txTime /\ txTime <= txTime
  BY DEF UpsertEntity, IInv, TypeOK
<1>3. /\ revision \notin DOMAIN db.entityRevisions
      /\ entity.updatedAt = txTime
      /\ DOMAIN db'.entities = DOMAIN db.entities \cup {id}
      /\ \A x \in DOMAIN db.entities : x # id => db'.entities[x] = db.entities[x]
      /\ DOMAIN db'.entityRevisions = DOMAIN db.entityRevisions \cup {revision}
      /\ db'.entityRevisions[revision] = [entity |-> id, txTime |-> txTime, record |-> entity]
      /\ \A r \in DOMAIN db.entityRevisions : db'.entityRevisions[r] = db.entityRevisions[r]
  BY <1>1 DEF UpsertsEntity, IDExists, Put, EntityRevisionOf
<1> HIDE DEF entity
<1>4. StoresFrom(db, db', txTime')
  BY <1>1, <1>2, <1>3 DEF UpsertsEntity, StoresFrom
<1>5. LogsFrom(db, db', txTime')
  BY <1>1 DEF UpsertsEntity, LogsFrom
<1>6. \A x \in DOMAIN db'.entities : \E r \in DOMAIN db'.entityRevisions :
         db'.entityRevisions[r].entity = x /\ db'.entityRevisions[r].txTime = db'.entities[x].updatedAt
  <2> TAKE x \in DOMAIN db'.entities
  <2>1. CASE x = id
    BY <2>1, <1>3 DEF entity
  <2>2. CASE x # id
    BY <2>2, <1>3 DEF IsTold, PastInv
  <2> QED BY <2>1, <2>2
<1>7. IsTold(db')
  BY <1>1, <1>3, <1>6 DEF UpsertsEntity, IsTold, PastInv
<1> QED BY <1>4, <1>5, <1>7 DEF WritesFrom

LEMMA PastInit == Init => PastInv
BY DEF Init, PastInv, IsTold, EmptyDB

LEMMA PastStep ==
    ASSUME IInv, PastInv, [Next]_vars
    PROVE  PastInv'
<1>1. CASE Tick
  BY <1>1 DEF Tick, PastInv
<1>2. CASE BeginMutation
  <2>1. snapshot' = db /\ db' = db
    BY <1>2 DEF BeginMutation
  <2> QED BY <2>1, WritesFromItself DEF PastInv
<1>3. CASE Abort
  BY <1>3 DEF Abort, PastInv
<1>4. CASE Commit
  BY <1>4 DEF Commit, PastInv
<1>5. CASE IngestEpisode \/ UpsertEntity \/ AssertFact
  <2>1. IsTold(db') /\ WritesFrom(db, db', txTime')
    BY <1>5, IngestEpisodeTells, UpsertEntityTells, FactOperationsTell
  <2>2. phase # "idle" /\ txTime' = txTime /\ snapshot' = snapshot
    BY <1>5 DEF IngestEpisode, UpsertEntity, AssertFact
  <2>3. WritesFrom(snapshot, db', txTime')
    BY <2>1, <2>2, LogsOnAndOn, StoresOnAndOn DEF WritesFrom, PastInv
  <2> QED BY <2>1, <2>2, <2>3 DEF PastInv
<1>6. CASE SupersedeFact \/ RetractFact
  <2>1. IsTold(db') /\ WritesFrom(db, db', txTime')
    BY <1>6, FactOperationsTell
  <2>2. db = snapshot /\ snapshot' = snapshot
    BY <1>6 DEF SupersedeFact, RetractFact, IInv
  <2> QED BY <2>1, <2>2 DEF PastInv
<1>7. CASE UNCHANGED vars
  BY <1>7 DEF vars, PastInv
<1> QED BY <1>1, <1>2, <1>3, <1>4, <1>5, <1>6, <1>7 DEF Next

LEMMA PastInvariance == Spec => []PastInv
BY InvariantHolds, PastInit, PastStep, PTL DEF Spec

-----------------------------------------------------------------------------
(* What is written from an instant on does not show before it.             *)

LEMMA EntityVersionsSettle ==
    ASSUME NEW old, IsDB(old), IsTold(old), NEW new, IsDB(new), IsTold(new),
           NEW t \in Nat, StoresFrom(old, new, t), NEW at \in Nat, at < t
    PROVE  SameEntities(old, new, at)
<1>1. \A id : EntityVersions(new, id, at) = EntityVersions(old, id, at)
  <2> TAKE id
  <2>1. \A r \in DOMAIN new.entityRevisions : new.entityRevisions[r].txTime \in Nat
    BY DEF IsDB, IsMap, EntityRevision
  <2>2. {x \in DOMAIN new.entityRevisions : new.entityRevisions[x].entity = id /\ new.entityRevisions[x].txTime <= at}
          = {x \in DOMAIN old.entityRevisions : old.entityRevisions[x].entity = id /\ old.entityRevisions[x].txTime <= at}
    BY <2>1 DEF StoresFrom
  <2>3. \A r \in DOMAIN old.entityRevisions : new.entityRevisions[r] = old.entityRevisions[r]
    BY DEF StoresFrom
  <2> QED BY <2>2, <2>3 DEF EntityVersions
<1>2. ASSUME NEW d, IsDB(d), IsTold(d), NEW id \in DOMAIN d.entities, EntityVersions(d, id, at) = {}
      PROVE  d.entities[id].updatedAt > at
  <2>1. PICK r \in DOMAIN d.entityRevisions :
           d.entityRevisions[r].entity = id /\ d.entityRevisions[r].txTime = d.entities[id].updatedAt
    BY <1>2 DEF IsTold
  <2>2. ~(d.entityRevisions[r].txTime <= at)
    BY <1>2, <2>1 DEF EntityVersions
  <2>3. d.entities[id].updatedAt \in Nat
    BY <1>2, OtherStamps
  <2> QED BY <2>1, <2>2, <2>3
<1>3. ASSUME NEW id \in DOMAIN new.entities \ DOMAIN old.entities
      PROVE  EntityVersions(new, id, at) = {}
  <2>1. EntityVersions(old, id, at) = {}
    BY <1>3 DEF EntityVersions, IsTold
  <2> QED BY <1>1, <2>1
<1>4. DOMAIN old.entities \subseteq DOMAIN new.entities
  BY DEF StoresFrom
<1>5. \A id \in DOMAIN new.entities : EntityVersions(new, id, at) = {} => EntityVersionAt(new, id, at) = None
  BY <1>2 DEF EntityVersionAt
<1>6. \A id \in DOMAIN old.entities : EntityVersions(old, id, at) = {} => EntityVersionAt(old, id, at) = None
  BY <1>2 DEF EntityVersionAt
<1>7. \A id \in DOMAIN old.entities : EntityVersionAt(new, id, at) = EntityVersionAt(old, id, at)
  <2> TAKE id \in DOMAIN old.entities
  <2>1. CASE EntityVersions(old, id, at) = {}
    BY <2>1, <1>1, <1>4, <1>5, <1>6
  <2>2. CASE EntityVersions(old, id, at) # {}
    BY <2>2, <1>1 DEF EntityVersionAt
  <2> QED BY <2>1, <2>2
<1> QED BY <1>3, <1>4, <1>5, <1>7 DEF SameEntities

LEMMA FactVersionsSettle ==
    ASSUME NEW old, IsDB(old), RevisionsAreGrounded(old), FactsAreLogged(old), Lineage(old.facts),
           NEW new, IsDB(new), RevisionsAreGrounded(new), FactsAreLogged(new), Lineage(new.facts),
           Extends(old, new), NEW t \in Nat, LogsFrom(old, new, t), NEW at \in Nat, at < t
    PROVE  SameFacts(old, new, at)
<1>1. \A id : FactVersions(new, id, at) = FactVersions(old, id, at)
  <2> TAKE id
  <2>1. \A r \in DOMAIN new.factRevisions : new.factRevisions[r].txTime \in Nat
    BY DEF IsDB, IsMap, FactRevision
  <2>2. {x \in DOMAIN new.factRevisions : new.factRevisions[x].fact = id /\ new.factRevisions[x].txTime <= at}
          = {x \in DOMAIN old.factRevisions : old.factRevisions[x].fact = id /\ old.factRevisions[x].txTime <= at}
    BY <2>1 DEF LogsFrom
  <2>3. \A r \in DOMAIN old.factRevisions : new.factRevisions[r] = old.factRevisions[r]
    BY DEF LogsFrom
  <2> QED BY <2>2, <2>3 DEF FactVersions
<1>2. ASSUME NEW d, IsDB(d), RevisionsAreGrounded(d), FactsAreLogged(d), NEW id \in DOMAIN d.facts,
             FactVersions(d, id, at) = {}
      PROVE  FactVersionAt(d, id, at) = None
  <2>1. PICK r \in DOMAIN d.factRevisions : IsLatestRevision(d, id, r)
    BY <1>2 DEF FactsAreLogged
  <2>2. ~(d.facts[id].updatedAt <= at)
    BY <1>2, <2>1 DEF FactVersions, IsLatestRevision
  <2>3. d.facts[id].updatedAt \in Nat
    BY <1>2, StampTypes
  <2> QED BY <1>2, <2>2, <2>3 DEF FactVersionAt
<1>3. ASSUME NEW id \in DOMAIN new.facts \ DOMAIN old.facts
      PROVE  FactVersionAt(new, id, at) = None
  <2>1. FactVersions(old, id, at) = {}
    BY <1>3 DEF FactVersions, RevisionsAreGrounded
  <2> QED BY <1>1, <1>2, <2>1
<1>4. \A id \in DOMAIN old.facts : id \in DOMAIN new.facts /\ Evolves(old.facts[id], new.facts[id])
  BY DEF Extends
<1>5. \A id \in DOMAIN old.facts :
        /\ new.facts[id].createdAt = old.facts[id].createdAt
        /\ new.facts[id].observedAt = old.facts[id].observedAt
        /\ new.facts[id].space = old.facts[id].space
  BY <1>4 DEF Evolves, KeepsStatement
<1>6. \A id \in DOMAIN old.facts : FactVersionAt(new, id, at) = FactVersionAt(old, id, at)
  <2> TAKE id \in DOMAIN old.facts
  <2>1. CASE FactVersions(old, id, at) = {}
    BY <2>1, <1>1, <1>2, <1>4
  <2>2. CASE FactVersions(old, id, at) # {}
    BY <2>2, <1>1 DEF FactVersionAt
  <2> QED BY <2>1, <2>2
<1>7. ASSUME NEW x \in DOMAIN old.facts, NEW id \in DOMAIN old.facts
      PROVE  new.facts[x].supersededBy = id <=> old.facts[x].supersededBy = id
  <2>0. x # None /\ id # None
    BY <1>7, InputAssumption DEF IsDB, IsMap
  <2>1. /\ old.facts[x].supersededBy # None => new.facts[x].supersededBy = old.facts[x].supersededBy
        /\ new.facts[id].supersedes = old.facts[id].supersedes
    BY <1>4 DEF Evolves, KeepsStatement
  <2>2. ASSUME new.facts[x].supersededBy = id PROVE old.facts[x].supersededBy = id
    <3>1. new.facts[id].supersedes = x
      BY <2>0, <2>2, <1>4 DEF Lineage
    <3> QED BY <2>0, <2>1, <3>1 DEF Lineage
  <2> QED BY <2>0, <2>1, <2>2
<1> QED BY <1>3, <1>4, <1>5, <1>6, <1>7 DEF SameFacts

LEMMA PastSettles ==
    ASSUME NEW old, IsDB(old), RevisionsAreGrounded(old), FactsAreLogged(old), Lineage(old.facts),
           IsTold(old), NEW new, IsDB(new), RevisionsAreGrounded(new), FactsAreLogged(new),
           Lineage(new.facts), IsTold(new), Extends(old, new),
           NEW t \in Nat, WritesFrom(old, new, t), NEW q \in Request, q.asOf # 0, q.asOf < t
    PROVE  SamePast(old, new, q)
<1>1. q.asOf \in Nat
  BY DEF Request
<1>2. LogsFrom(old, new, t) /\ StoresFrom(old, new, t)
  BY DEF WritesFrom
<1>3. SameSources(old, new, q.asOf)
  <2>1. \A id \in DOMAIN new.sources : new.sources[id].createdAt \in Nat
    BY OtherStamps
  <2> QED BY <1>1, <1>2, <2>1 DEF StoresFrom, SameSources
<1>4. SameEpisodes(old, new, q.asOf)
  <2>1. \A id \in DOMAIN new.episodes : new.episodes[id].ingestedAt \in Nat
    BY OtherStamps
  <2> QED BY <1>1, <1>2, <2>1 DEF StoresFrom, SameEpisodes, IsTold
<1>5. SameEntities(old, new, q.asOf)
  BY <1>1, <1>2, EntityVersionsSettle
<1>6. SameFacts(old, new, q.asOf)
  BY <1>1, <1>2, FactVersionsSettle
<1>7. SameLog(old, new, q.asOf)
  <2>1. \A r \in DOMAIN new.factRevisions : new.factRevisions[r].txTime \in Nat
    BY DEF IsDB, IsMap, FactRevision
  <2> QED BY <1>1, <1>2, <2>1 DEF LogsFrom, SameLog, IsTold, IsStamped
<1> QED BY <1>3, <1>4, <1>5, <1>6, <1>7 DEF SamePast

(* A reader of any kind changes nothing in the engine.                     *)
LEMMA QueriesAreReads == QueriesSpec => Spec
<1>1. QueriesInit => Init
  BY DEF QueriesInit
<1>2. [QueriesNext]_allvars => [Next]_vars
  BY DEF QueriesNext, OpenPages, NextPage, FetchFact, FetchHistory, Finish, allvars, vars
<1> QED BY <1>1, <1>2, PTL DEF QueriesSpec, Spec

(* No compound answer about an instant before the present is ever changed  *)
(* by a later write: lookups, neighborhoods, timelines, searches with the  *)
(* records beside them and provenance chains (graph.go, search.go,         *)
(* includes.go), whatever the clock does.                                  *)
THEOREM PastAnswersAreSettled == QueriesSpec => PastAnswersNeverChange
<1>1. IInv /\ IInv' /\ LineageInv /\ LineageInv' /\ PastInv /\ PastInv' /\ [Next]_vars
        => [\A q \in Requests.past :
              reader.step = "none" /\ snapshot' # snapshot /\ q.asOf \in 1..(Present - 1)
                => Answers(snapshot', q) = Answers(snapshot, q)]_vars
  <2> SUFFICES ASSUME IInv, IInv', LineageInv, LineageInv', PastInv, PastInv', [Next]_vars,
                      NEW q \in Requests.past, snapshot' # snapshot, q.asOf \in 1..(Present - 1)
               PROVE  Answers(snapshot', q) = Answers(snapshot, q)
    BY SMTT(30)
  <2>1. Commit
    BY DEF Next, Tick, BeginMutation, Abort, IngestEpisode, UpsertEntity, AssertFact, SupersedeFact,
           RetractFact, vars, IInv
  <2>2. phase # "idle" /\ snapshot' = db
    BY <2>1 DEF Commit
  <2>3. q \in Request
    BY RequestAssumption
  <2>4. txTime \in Nat /\ q.asOf \in Nat /\ q.asOf # 0 /\ q.asOf < txTime
    BY <2>2 DEF Present, IInv, TypeOK
  <2>5. /\ IsDB(snapshot) /\ IsDB(db) /\ RevisionsAreGrounded(snapshot) /\ RevisionsAreGrounded(db)
        /\ FactsAreLogged(snapshot) /\ FactsAreLogged(db) /\ Extends(snapshot, db)
        /\ Lineage(snapshot.facts) /\ Lineage(db.facts) /\ IsTold(snapshot) /\ IsTold(db)
        /\ WritesFrom(snapshot, db, txTime)
    BY <2>2 DEF IInv, TypeOK, LineageInv, LineageHolds, PastInv
  <2>6. SamePast(snapshot, db, q)
    BY <2>3, <2>4, <2>5, PastSettles
  <2> QED BY <2>2, <2>6, SameAnswers
<1> QED BY <1>1, QueriesAreReads, InvariantHolds, LineageInvariance, PastInvariance, PTL
          DEF PastAnswersNeverChange, Spec

-----------------------------------------------------------------------------
(* The maps are finite.                                                    *)

IsFinite(d) ==
    /\ IsFiniteSet(DOMAIN d.sources) /\ IsFiniteSet(DOMAIN d.episodes)
    /\ IsFiniteSet(DOMAIN d.entities) /\ IsFiniteSet(DOMAIN d.facts)

FiniteInv == IsFinite(db) /\ IsFinite(snapshot)

LEMMA RecordsFinite ==
    ASSUME NEW d, IsDB(d), NEW id, NEW fact, NEW n, NEW e, Records(d, id, fact, n, e),
           IsFiniteSet(DOMAIN d.facts)
    PROVE  IsFiniteSet(DOMAIN e.facts) /\ IsDB(e)
<1>1. IsDB(e) /\ DOMAIN e.facts = DOMAIN d.facts \cup {id}
  <2>1. IsDB(e) /\ e.facts = Put(d.facts, id, fact)
    BY RecordsFields
  <2>2. DOMAIN Put(d.facts, id, fact) = DOMAIN d.facts \cup {id}
    BY DEF Put
  <2> QED BY <2>1, <2>2
<1> QED BY <1>1, FS_AddElement

LEMMA FactOperationsFinite ==
    ASSUME IInv, FiniteInv, AssertFact \/ SupersedeFact \/ RetractFact
    PROVE  IsFinite(db')
<1>1. OthersKept
  BY FactOperationsKeepOthers
<1>2. IsDB(db) /\ IsFiniteSet(DOMAIN db.facts)
  BY DEF IInv, TypeOK, FiniteInv, IsFinite
<1>3. ASSUME NEW s \in Nat PROVE IsDB(SetSequence(db, s)) /\ SetSequence(db, s).facts = db.facts
  BY <1>2, SetSequenceFields
<1>4. IsFiniteSet(DOMAIN db'.facts)
  <2>1. CASE AssertFact
    <3>1. PICK in, s, n : in \in FactInputs /\ AssertsFact(in, s, n)
      BY <2>1, AssertFactStep DEF IInv
    <3>2. /\ s \in Nat
          /\ Records(SetSequence(db, s), RecordID(in.id, "fact", s), NewFact(in, in.single, txTime), n, db')
      BY <3>1 DEF AssertsFact
    <3> QED BY <1>2, <1>3, <3>2, RecordsFinite
  <2>2. CASE SupersedeFact
    <3>1. PICK d, new, fact, n1, a, old, gone, n2, b, link, n3 :
             SupersedesOne(txTime', d, new, fact, n1, a, old, gone, n2, b, link, n3)
      BY <2>2, SupersedeFactWrites
    <3>2. /\ \E s \in Nat : d = SetSequence(db, s)
          /\ Records(d, new, fact, n1, a) /\ Records(a, old, gone, n2, b) /\ Records(b, new, link, n3, db')
      BY <3>1 DEF SupersedesOne
    <3>3. IsDB(d) /\ IsFiniteSet(DOMAIN d.facts)
      BY <1>2, <1>3, <3>2
    <3>4. IsDB(a) /\ IsFiniteSet(DOMAIN a.facts)
      BY <3>2, <3>3, RecordsFinite
    <3>5. IsDB(b) /\ IsFiniteSet(DOMAIN b.facts)
      BY <3>2, <3>4, RecordsFinite
    <3> QED BY <3>2, <3>5, RecordsFinite
  <2>3. CASE RetractFact
    <3>1. CASE db' = db
      BY <3>1, <1>2
    <3>2. CASE db' # db
      <4>1. PICK id, fact, n : RetractsOne(id, fact, n)
        BY <2>3, <3>2, RetractFactWrites
      <4> QED BY <1>2, <4>1, RecordsFinite DEF RetractsOne
    <3> QED BY <3>1, <3>2
  <2> QED BY <2>1, <2>2, <2>3
<1> QED BY <1>1, <1>4 DEF OthersKept, IsFinite, FiniteInv

LEMMA FiniteInit == Init => FiniteInv
BY FS_EmptySet DEF Init, FiniteInv, IsFinite, EmptyDB

LEMMA FiniteStep ==
    ASSUME IInv, FiniteInv, [Next]_vars
    PROVE  FiniteInv'
<1>1. CASE Tick \/ BeginMutation \/ Abort \/ Commit
  BY <1>1 DEF Tick, BeginMutation, Abort, Commit, FiniteInv
<1>2. CASE IngestEpisode
  <2>1. PICK source, id : IngestsEpisode(source, id)
    BY <1>2, IngestEpisodeStep DEF IInv
  <2>2. /\ IsFiniteSet(DOMAIN db.sources \cup {source})
        /\ IsFiniteSet(DOMAIN db.episodes \cup {id})
    BY FS_AddElement DEF FiniteInv, IsFinite
  <2> QED BY <1>2, <2>1, <2>2 DEF IngestEpisode, IngestsEpisode, FiniteInv, IsFinite
<1>3. CASE UpsertEntity
  <2>1. PICK id, revision : UpsertsEntity(id, revision)
    BY <1>3, UpsertEntityStep DEF IInv
  <2>2. IsFiniteSet(DOMAIN db.entities \cup {id})
    BY FS_AddElement DEF FiniteInv, IsFinite
  <2> QED BY <1>3, <2>1, <2>2, Zenon DEF UpsertEntity, UpsertsEntity, FiniteInv, IsFinite
<1>4. CASE AssertFact \/ SupersedeFact \/ RetractFact
  BY <1>4, FactOperationsFinite DEF AssertFact, SupersedeFact, RetractFact, FiniteInv
<1>5. CASE UNCHANGED vars
  BY <1>5 DEF vars, FiniteInv
<1> QED BY <1>1, <1>2, <1>3, <1>4, <1>5 DEF Next

LEMMA FiniteInvariance == Spec => []FiniteInv
BY InvariantHolds, FiniteInit, FiniteStep, PTL DEF Spec

-----------------------------------------------------------------------------
(* A client between two of its calls.                                      *)

ReaderShape ==
    /\ "step" \in DOMAIN reader
    /\ reader.step = "paging" => DOMAIN reader = {"step", "request", "cursor", "items", "answer"}
    /\ reader.step = "fetched" => DOMAIN reader = {"step", "request", "id", "copy", "answer"}

LEMMA ReaderShapeInit == QueriesInit => ReaderShape
BY DEF QueriesInit, ReaderShape, NoReader

LEMMA ReaderShapeStep == ReaderShape /\ [QueriesNext]_allvars => ReaderShape'
<1> SUFFICES ASSUME ReaderShape, [QueriesNext]_allvars PROVE ReaderShape'
  OBVIOUS
<1>1. CASE UNCHANGED reader
  BY <1>1 DEF ReaderShape
<1>2. CASE OpenPages
  BY <1>2 DEF OpenPages, ReaderShape
<1>3. CASE NextPage
  BY <1>3 DEF NextPage, ReaderShape
<1>4. CASE FetchFact
  BY <1>4 DEF FetchFact, ReaderShape
<1>5. CASE FetchHistory
  BY <1>5 DEF FetchHistory, ReaderShape
<1>6. CASE Finish
  BY <1>6 DEF Finish, NoReader, ReaderShape
<1> QED BY <1>1, <1>2, <1>3, <1>4, <1>5, <1>6 DEF QueriesNext, allvars

LEMMA ReaderShapeHolds == QueriesSpec => []ReaderShape
BY ReaderShapeInit, ReaderShapeStep, PTL DEF QueriesSpec

-----------------------------------------------------------------------------
(* GetRecord of a fact.                                                    *)

(* The history a fetched fact is answered from was empty when the copy was *)
(* taken and is now, or it holds a version to answer with.                 *)
AnsweredByHistory(d, id, q) == TemporalSet(q) /\ q.asOf # 0 /\ FactVersions(d, id, q.asOf) # {}

FetchInv ==
    /\ reader.step = "fetched" =>
          \/ reader.answer = RecordAnswer(snapshot, reader.id, reader.copy, reader.request)
          \/ AnsweredByHistory(snapshot, reader.id, reader.request)
    /\ reader.step = "answered" => reader.copy \in reader.answer

(* Two states without a version to answer with answer from the copy, two   *)
(* copies are answered alike by a history that holds one.                  *)
LEMMA AnswerWithoutHistory ==
    ASSUME NEW d, NEW e, NEW id, NEW copy, NEW q,
           ~AnsweredByHistory(d, id, q), ~AnsweredByHistory(e, id, q)
    PROVE  RecordAnswer(d, id, copy, q) = RecordAnswer(e, id, copy, q)
BY DEF RecordAnswer, AnsweredByHistory

LEMMA AnswerFromHistory ==
    ASSUME NEW d, NEW id, NEW copy, NEW other, NEW q, AnsweredByHistory(d, id, q)
    PROVE  RecordAnswer(d, id, copy, q) = RecordAnswer(d, id, other, q)
BY DEF RecordAnswer, AnsweredByHistory

LEMMA HistoryGrows ==
    ASSUME NEW d, NEW e, Extends(d, e), NEW id, NEW q, AnsweredByHistory(d, id, q)
    PROVE  AnsweredByHistory(e, id, q)
BY DEF Extends, AnsweredByHistory, FactVersions

LEMMA FetchInit == QueriesInit => FetchInv
BY DEF QueriesInit, FetchInv, NoReader

LEMMA FetchStep ==
    ASSUME IInv, ReaderShape, FetchInv, [QueriesNext]_allvars
    PROVE  FetchInv'
<1>1. CASE UNCHANGED reader /\ [Next]_vars
  <2>1. CASE snapshot' = snapshot
    BY <1>1, <2>1 DEF FetchInv
  <2>2. CASE snapshot' = db
    <3>1. Extends(snapshot, snapshot')
      BY <2>2 DEF IInv
    <3>2. \A id, copy, q :
            \/ RecordAnswer(snapshot', id, copy, q) = RecordAnswer(snapshot, id, copy, q)
            \/ AnsweredByHistory(snapshot', id, q)
      BY <3>1, AnswerWithoutHistory, HistoryGrows
    <3>3. \A id, q : AnsweredByHistory(snapshot, id, q) => AnsweredByHistory(snapshot', id, q)
      BY <3>1, HistoryGrows
    <3> QED BY <1>1, <3>2, <3>3 DEF FetchInv
  <2> QED BY <1>1, <2>1, <2>2 DEF Next, Tick, BeginMutation, Abort, Commit, IngestEpisode, UpsertEntity,
                               AssertFact, SupersedeFact, RetractFact, vars
<1>2. CASE OpenPages \/ NextPage \/ Finish
  <2>1. reader'.step \in {"read", "paging", "none"}
    <3>1. CASE OpenPages
      BY <3>1 DEF OpenPages
    <3>2. CASE NextPage
      BY <3>2 DEF NextPage, ReaderShape
    <3>3. CASE Finish
      BY <3>3 DEF Finish, NoReader
    <3> QED BY <1>2, <3>1, <3>2, <3>3
  <2> QED BY <2>1 DEF FetchInv
<1>3. CASE FetchFact
  <2>1. db = snapshot /\ snapshot' = snapshot
    BY <1>3 DEF FetchFact, IInv, vars
  <2> QED BY <1>3, <2>1 DEF FetchFact, FetchInv
<1>4. CASE FetchHistory
  <2> DEFINE now == RecordAnswer(db, reader.id, db.facts[reader.id], reader.request)
             told == RecordAnswer(db, reader.id, reader.copy, reader.request)
  <2>1. db = snapshot
    BY <1>4 DEF FetchHistory, IInv
  <2>2. told \in {reader.answer, now}
    BY <1>4, <2>1, AnswerFromHistory DEF FetchInv, FetchHistory
  <2> HIDE DEF now, told
  <2>3. reader'.step = "answered" /\ reader'.copy = told /\ reader'.answer = {reader.answer, now}
    BY <1>4 DEF FetchHistory, ReaderShape, now, told
  <2> QED BY <2>2, <2>3 DEF FetchInv
<1> QED BY <1>1, <1>2, <1>3, <1>4, SMTT(30) DEF QueriesNext, allvars, vars

(* GetRecord of a fact (engine.go copies the fact under one lock and       *)
(* reads its history under another) answers as it would have at one of the *)
(* two moments, whatever is written between them.                          *)
THEOREM OneMomentAnswers == QueriesSpec => []RecordIsReadAtOneMoment
<1>1. QueriesSpec => []FetchInv
  BY QueriesAreReads, InvariantHolds, ReaderShapeHolds, FetchInit, FetchStep, PTL DEF QueriesSpec
<1>2. FetchInv => RecordIsReadAtOneMoment
  BY DEF FetchInv, RecordIsReadAtOneMoment
<1> QED BY <1>1, <1>2, PTL

-----------------------------------------------------------------------------
(* Minimal elements stand in for induction.                                *)

(* A set of numbers has a least one.                                       *)
LEMMA LeastNumber ==
    ASSUME NEW S \in SUBSET Nat, S # {}
    PROVE  \E x \in S : \A y \in S : x <= y
<1>1. PICK x \in S : \A y \in S : ~(<<y, x>> \in OpToRel(<, Nat))
  BY NatLessThanWellFounded, WFMin
<1>2. \A y \in S : ~(y < x)
  BY <1>1 DEF OpToRel
<1> QED BY <1>2

(* f starts in start and takes N times the given step.                     *)
Iterates(f, step, start, N) == f[0] = start /\ \A k \in 1..N : f[k] = step[f[k - 1]]

(* A function defined by iteration exists.                                 *)
LEMMA Iteration ==
    ASSUME NEW V, NEW step \in [V -> V], NEW start \in V, NEW N \in Nat
    PROVE  \E f \in [0..N -> V] : Iterates(f, step, start, N)
<1> DEFINE Bad == {n \in Nat : ~ \E f \in [0..n -> V] : Iterates(f, step, start, n)}
<1>1. Bad = {}
  <2>1. SUFFICES ASSUME Bad # {} PROVE FALSE
    OBVIOUS
  <2>2. PICK m \in Bad : \A n \in Bad : m <= n
    BY <2>1, LeastNumber
  <2>3. m # 0
    <3>1. Iterates([n \in 0..0 |-> start], step, start, 0)
      BY DEF Iterates
    <3>2. [n \in 0..0 |-> start] \in [0..0 -> V]
      OBVIOUS
    <3> QED BY <3>1, <3>2, <2>2
  <2>4. m - 1 \in Nat /\ m - 1 \notin Bad
    <3>1. m \in Nat /\ m - 1 \in Nat /\ ~(m <= m - 1)
      BY <2>2, <2>3
    <3> HIDE DEF Bad
    <3> QED BY <2>2, <3>1
  <2>5. PICK f \in [0..(m - 1) -> V] : Iterates(f, step, start, m - 1)
    BY <2>4
  <2> DEFINE g == [k \in 0..m |-> IF k = m THEN step[f[m - 1]] ELSE f[k]]
  <2>6. g \in [0..m -> V]
    <3>1. f[m - 1] \in V
      BY <2>4
    <3>2. \A k \in 0..m : k # m => k \in 0..(m - 1)
      BY <2>2
    <3> QED BY <3>1, <3>2
  <2>7. Iterates(g, step, start, m)
    <3>1. g[0] = start
      BY <2>2, <2>3, <2>5 DEF Iterates
    <3>2. ASSUME NEW k \in 1..m PROVE g[k] = step[g[k - 1]]
      <4>1. k \in 0..m /\ k - 1 \in 0..(m - 1) /\ k - 1 \in 0..m /\ k - 1 # m
        BY <2>2
      <4>2. CASE k = m
        BY <4>1, <4>2
      <4>3. CASE k # m
          BY <4>1, <4>3, <2>5, <2>2 DEF Iterates
      <4> QED BY <4>2, <4>3
    <3> QED BY <3>1, <3>2 DEF Iterates
  <2> QED BY <2>2, <2>6, <2>7
<1> QED BY <1>1

-----------------------------------------------------------------------------
(* The walk along the marks.                                               *)

LEMMA HopUnfolds ==
    ASSUME NEW d, NEW id, NEW q
    PROVE  /\ Hop(d, id, q) = [n \in 0..(MaxHops - 1) |->
                 IF n = 0 THEN id ELSE Redirect(d, Hop(d, id, q)[n - 1], q)]
           /\ MaxHops - 1 \in Nat
<1> DEFINE V == DOMAIN d.entities \cup {id, None}
           step == [x \in V |-> Redirect(d, x, q)]
           Last_ == MaxHops - 1
           Body(f) == [n \in 0..Last_ |-> IF n = 0 THEN id ELSE Redirect(d, f[n - 1], q)]
<1>1. step \in [V -> V]
  BY DEF Redirect, MarkLeads, EntityReadable
<1>2. Last_ \in Nat
  BY RequestAssumption
<1> HIDE DEF Last_
<1>3. PICK f \in [0..Last_ -> V] : Iterates(f, step, id, Last_)
  <2>1. id \in V
    OBVIOUS
  <2> HIDE DEF step, V
  <2> QED BY <1>1, <1>2, <2>1, Iteration
<1>4. ASSUME NEW n \in 0..Last_, n # 0 PROVE f[n] = Redirect(d, f[n - 1], q)
  <2>1. n - 1 \in 0..Last_ /\ n \in 1..Last_
    BY <1>2, <1>4
  <2> QED BY <2>1, <1>3 DEF Iterates
<1>5. f = Body(f)
  BY <1>3, <1>4 DEF Iterates
<1>6. Hop(d, id, q) = CHOOSE g : g = Body(g)
  BY DEF Hop, Last_
<1>7. Hop(d, id, q) = Body(Hop(d, id, q))
  <2> HIDE DEF Body
  <2> QED BY <1>5, <1>6
<1> QED BY <1>2, <1>7 DEF Last_

(* The canonical form is the raw id or an entity the query can read and    *)
(* that bears no mark.                                                     *)
LEMMA CanonicalForm ==
    ASSUME NEW d, NEW id, NEW q
    PROVE  \/ Canonical(d, id, q) = id
           \/ /\ Canonical(d, id, q) \in Unmarked(d, Chain(d, id, q), q)
              /\ EntityReadable(d, Canonical(d, id, q), q) /\ Mark(d, Canonical(d, id, q), q) = None
<1> DEFINE ends == Unmarked(d, Chain(d, id, q), q)
<1>1. ends # {} => AnyOr(ends, id) \in ends
  BY DEF AnyOr
<1>2. ends = {} => AnyOr(ends, id) = id
  BY DEF AnyOr
<1>3. \A x \in ends : EntityReadable(d, x, q) /\ Mark(d, x, q) = None
  BY DEF Unmarked
<1> HIDE DEF ends
<1>4. Canonical(d, id, q) = AnyOr(ends, id)
  BY DEF Canonical, ends
<1> QED BY <1>1, <1>2, <1>3, <1>4 DEF ends

(* An id from which no mark leads on visits nothing else.                  *)
LEMMA ChainOfOne ==
    ASSUME NEW d, None \notin DOMAIN d.entities, NEW id, NEW q, Redirect(d, id, q) = None
    PROVE  Chain(d, id, q) \subseteq {id, None} /\ id \in Chain(d, id, q)
<1> DEFINE hop == Hop(d, id, q)
           Bad == {n \in 0..(MaxHops - 1) : hop[n] \notin {id, None}}
<1>1. hop = [n \in 0..(MaxHops - 1) |-> IF n = 0 THEN id ELSE Redirect(d, hop[n - 1], q)]
      /\ MaxHops - 1 \in Nat
  BY HopUnfolds
<1> HIDE DEF hop
<1>2. Redirect(d, None, q) = None
  BY DEF Redirect, EntityReadable
<1>3. Bad = {}
  <2>1. SUFFICES ASSUME Bad # {} PROVE FALSE
    OBVIOUS
  <2>2. Bad \in SUBSET Nat
    BY <1>1
  <2>3. PICK m \in Bad : \A n \in Bad : m <= n
    <3> HIDE DEF Bad
    <3> QED BY <2>1, <2>2, LeastNumber
  <2>4. m # 0 /\ m \in 0..(MaxHops - 1)
    BY <1>1
  <2>5. m - 1 \in 0..(MaxHops - 1) /\ m - 1 \notin Bad
    BY <1>1, <2>3, <2>4
  <2>6. hop[m] = Redirect(d, hop[m - 1], q)
    BY <1>1, <2>4
  <2> QED BY <1>2, <2>3, <2>5, <2>6
<1>4. 0 \in 0..(MaxHops - 1) /\ hop[0] = id
  BY <1>1
<1> QED BY <1>3, <1>4 DEF Chain, hop

(* What is not an entity stands for itself.                                *)
LEMMA CanonicalOfOthers ==
    ASSUME NEW d, None \notin DOMAIN d.entities, NEW id, id \notin DOMAIN d.entities, NEW q
    PROVE  Canonical(d, id, q) = id
<1>1. Redirect(d, id, q) = None
  BY DEF Redirect, EntityReadable
<1>2. Chain(d, id, q) \subseteq {id, None}
  BY <1>1, ChainOfOne
<1>3. Unmarked(d, Chain(d, id, q), q) = {}
  BY <1>2 DEF Unmarked, EntityReadable
<1> QED BY <1>3 DEF Canonical, AnyOr

-----------------------------------------------------------------------------
(* The endpoint index.                                                     *)

LEMMA IndexedFactsAreCandidates ==
    ASSUME NEW d, None \notin DOMAIN d.entities, NEW q, IndexUsable(d, q),
           NEW id, FactFound(d, id, q)
    PROVE  id \in FactCandidates(d, q)
<1> DEFINE f == d.facts[id]
<1>1. /\ q.asOf = 0 /\ q.subjects \cup q.objects # {}
      /\ CanonicalIDs(d, q.subjects \cup q.objects, q) \subseteq DOMAIN d.entities
  BY DEF IndexUsable
<1>2. id \in DOMAIN d.facts /\ FactAt(d, id, q) # None
  BY DEF FactFound, FactsSeen, FactSeen
<1>3. FactAt(d, id, q) = f
  BY <1>1, <1>2 DEF FactAt, IfVisible
<1> HIDE DEF f
<1>4. /\ q.subjects = {} \/ Subject(d, f, q) \in CanonicalIDs(d, q.subjects, q)
      /\ q.objects = {} \/ Object(d, f, q) \in CanonicalIDs(d, q.objects, q)
  BY <1>3 DEF FactFound
<1>5. ASSUME NEW ids, ids \subseteq q.subjects \cup q.objects, NEW x,
             Canonical(d, x, q) \in CanonicalIDs(d, ids, q)
      PROVE  x \in Expansion(d, ids, q)
  <2>1. Canonical(d, x, q) \in DOMAIN d.entities
    BY <1>1, <1>5 DEF CanonicalIDs
  <2>2. x \in DOMAIN d.entities
    BY <2>1, CanonicalOfOthers
  <2> QED BY <1>5, <2>2 DEF Expansion
<1>6. CASE q.subjects # {}
  <2>1. f.subject \in Expansion(d, q.subjects, q)
    BY <1>4, <1>5, <1>6 DEF Subject
  <2> QED BY <1>2, <2>1 DEF FactCandidates, f
<1>7. CASE q.objects # {}
  <2>1. CanonicalIDs(d, q.objects, q) \subseteq DOMAIN d.entities
    BY <1>1 DEF CanonicalIDs
  <2>2. Object(d, f, q) # None
    BY <1>4, <1>7, <2>1
  <2>3. f.object \in Expansion(d, q.objects, q)
    BY <1>4, <1>5, <1>7, <2>2 DEF Object
  <2> QED BY <1>2, <2>3 DEF FactCandidates, f
<1> QED BY <1>1, <1>6, <1>7

(* A lookup answered from the endpoint edges (lookupFactCandidates in      *)
(* graph.go) finds what a scan of every fact finds, redirects included.    *)
THEOREM IndexFindsTheSame == QueriesSpec => []LookupIsIndexIndependent
<1>1. TypeOK => LookupIsIndexIndependent
  <2> SUFFICES ASSUME TypeOK, NEW q \in Requests.graph
               PROVE  FoundFacts(db, q) = {id \in DOMAIN db.facts : FactFound(db, id, q)}
    BY DEF LookupIsIndexIndependent
  <2>1. None \notin DOMAIN db.entities
    BY InputAssumption DEF TypeOK, IsDB, IsMap
  <2>2. CASE IndexUsable(db, q)
    <3>1. \A id \in DOMAIN db.facts : FactFound(db, id, q) => id \in FactCandidates(db, q)
      BY <2>1, <2>2, IndexedFactsAreCandidates
    <3>2. FactCandidates(db, q) \subseteq DOMAIN db.facts
      BY DEF FactCandidates
    <3> QED BY <2>2, <3>1, <3>2 DEF FoundFacts
  <2>3. CASE ~IndexUsable(db, q)
    BY <2>3 DEF FoundFacts
  <2> QED BY <2>2, <2>3
<1> QED BY <1>1, QueriesAreReads, TypeCorrect, PTL

-----------------------------------------------------------------------------
(* Pages.                                                                  *)

LEMMA LookupIsASequence ==
    ASSUME NEW d, IsFinite(d), NEW q
    PROVE  \E V : LookupFacts(d, q) \in Seq(V)
<1> DEFINE found == FoundFacts(d, q)
           order == Newer(d, found)
           answer == Sorted(found, order)
           n == Cardinality(found)
<1>1. found \subseteq DOMAIN d.facts
  BY DEF FoundFacts, FactCandidates
<1>2. n \in Nat
  BY <1>1, FS_Subset, FS_CardinalityType DEF IsFinite
<1> HIDE DEF found, order
<1>3. answer = [i \in 1..n |-> CHOOSE x \in found : Cardinality({y \in found : <<y, x>> \in order}) = i - 1]
  BY DEF Sorted
<1> HIDE DEF answer, n
<1> DEFINE V == {answer[i] : i \in 1..n}
<1>4. answer \in [1..n -> V]
  BY <1>3
<1> HIDE DEF V
<1>5. answer \in UNION {[1..k -> V] : k \in Nat}
  BY <1>2, <1>4, Zenon
<1>6. answer \in Seq(V)
  BY <1>5, SeqDef
<1> QED BY <1>6, Zenon DEF LookupFacts, found, order, answer

LEMMA PagesMeet ==
    ASSUME NEW V, NEW a \in Seq(V), NEW c \in Nat, NEW e \in Nat, c <= e, e <= Len(a)
    PROVE  SubSeq(a, 1, c) \o SubSeq(a, c + 1, e) = SubSeq(a, 1, e)
<1>1. Len(a) \in Nat
  BY LenProperties
<1>2. 1 \in 1..(Len(a) + 1) /\ c \in (1 - 1)..Len(a) /\ e \in c..Len(a)
  BY <1>1
<1> QED BY <1>2, ConcatAdjacentSubSeq

(* A page ends past its offset or at the end of the answer.                *)
LEMMA PageOf ==
    ASSUME NEW V, NEW a \in Seq(V), NEW c \in Nat, c <= Len(a), NEW limit \in Nat
    PROVE  \E e \in Nat :
              /\ c <= e /\ e <= Len(a)
              /\ e # 0 \/ e = Len(a)
              /\ Page(a, c, limit).items = SubSeq(a, c + 1, e)
              /\ Page(a, c, limit).next = IF e = Len(a) THEN 0 ELSE e
<1> DEFINE end == IF limit = 0 \/ c + limit > Len(a) THEN Len(a) ELSE c + limit
<1>1. Len(a) \in Nat
  BY LenProperties
<1>2. /\ end \in Nat /\ c <= end /\ end <= Len(a) /\ (end # 0 \/ end = Len(a))
      /\ (end >= Len(a) <=> end = Len(a))
  BY <1>1
<1>3. Page(a, c, limit) = [items |-> SubSeq(a, c + 1, end), next |-> IF end >= Len(a) THEN 0 ELSE end]
  BY DEF Page
<1> HIDE DEF end
<1>4. Page(a, c, limit).items = SubSeq(a, c + 1, end) /\ Page(a, c, limit).next = IF end = Len(a) THEN 0 ELSE end
  BY <1>2, <1>3
<1> QED BY <1>2, <1>4

(* A client that follows cursors holds a prefix of an answer about a cut   *)
(* that is settled.                                                        *)
PagesInv ==
    /\ reader.step = "paging" =>
          /\ reader.request \in Request
          /\ reader.request.asOf # 0 /\ reader.request.asOf < clock
          /\ phase # "idle" => reader.request.asOf < txTime
          /\ reader.answer = LookupFacts(snapshot, reader.request)
          /\ reader.cursor \in Nat /\ reader.cursor <= Len(reader.answer)
          /\ reader.items = SubSeq(reader.answer, 1, reader.cursor)
    /\ reader.step = "read" => reader.items = reader.answer

LEMMA PagesInit == QueriesInit => PagesInv
BY DEF QueriesInit, PagesInv, NoReader

(* A client that has read up to c holds, with the next page, the prefix up *)
(* to its cursor, or all of the answer.                                    *)
LEMMA PrefixRead ==
    ASSUME NEW V, NEW a \in Seq(V), NEW c \in Nat, c <= Len(a), NEW limit \in Nat
    PROVE  /\ Page(a, c, limit).next = 0 => SubSeq(a, 1, c) \o Page(a, c, limit).items = a
           /\ Page(a, c, limit).next \in Nat /\ Page(a, c, limit).next <= Len(a)
           /\ Page(a, c, limit).next # 0 =>
                 SubSeq(a, 1, c) \o Page(a, c, limit).items = SubSeq(a, 1, Page(a, c, limit).next)
<1>1. PICK e \in Nat :
         /\ c <= e /\ e <= Len(a)
         /\ e # 0 \/ e = Len(a)
         /\ Page(a, c, limit).items = SubSeq(a, c + 1, e)
         /\ Page(a, c, limit).next = IF e = Len(a) THEN 0 ELSE e
  BY PageOf
<1>2. SubSeq(a, 1, c) \o Page(a, c, limit).items = SubSeq(a, 1, e)
  BY <1>1, PagesMeet
<1>3. SubSeq(a, 1, Len(a)) = a
  BY SubSeqFull
<1>4. Len(a) \in Nat
  BY LenProperties
<1>5. e = Len(a) => SubSeq(a, 1, e) = a
  BY <1>3, Zenon
<1> DEFINE full == SubSeq(a, 1, c) \o Page(a, c, limit).items
           next == Page(a, c, limit).next
           length == Len(a)
<1>6. /\ full = SubSeq(a, 1, e) /\ next = (IF e = length THEN 0 ELSE e) /\ length \in Nat
      /\ (e = length => full = a) /\ (e # 0 \/ e = length) /\ e <= length
  BY <1>1, <1>2, <1>4, <1>5
<1>7. (next = 0 => full = a) /\ next \in Nat /\ next <= length /\ (next # 0 => full = SubSeq(a, 1, next))
  <2> HIDE DEF full, next, length
  <2>1. CASE e = length
    BY <1>6, <2>1
  <2>2. CASE e # length
    <3>1. next = e
      BY <1>6, <2>2
    <3> QED BY <1>6, <2>2, <3>1
  <2> QED BY <2>1, <2>2
<1> QED BY <1>7

LEMMA FirstPage ==
    ASSUME NEW V, NEW a \in Seq(V), NEW limit \in Nat
    PROVE  /\ Page(a, 0, limit).next = 0 => Page(a, 0, limit).items = a
           /\ Page(a, 0, limit).next \in Nat /\ Page(a, 0, limit).next <= Len(a)
           /\ Page(a, 0, limit).next # 0 =>
                 Page(a, 0, limit).items = SubSeq(a, 1, Page(a, 0, limit).next)
<1>1. Len(a) \in Nat
  BY LenProperties
<1>2. PICK e \in Nat :
         /\ 0 <= e /\ e <= Len(a)
         /\ e # 0 \/ e = Len(a)
         /\ Page(a, 0, limit).items = SubSeq(a, 0 + 1, e)
         /\ Page(a, 0, limit).next = IF e = Len(a) THEN 0 ELSE e
  <2>1. 0 \in Nat /\ 0 <= Len(a)
    BY <1>1
  <2> QED BY <2>1, PageOf, Zenon
<1>3. SubSeq(a, 1, Len(a)) = a
  BY SubSeqFull
<1>4. Page(a, 0, limit).items = SubSeq(a, 1, e)
  BY <1>2
<1>5. e = Len(a) => Page(a, 0, limit).items = a
  <2> SUFFICES ASSUME e = Len(a) PROVE Page(a, 0, limit).items = a
    OBVIOUS
  <2>1. SubSeq(a, 1, e) = a
    BY <1>3, Zenon
  <2> QED BY <1>4, <2>1, Zenon
<1> DEFINE items == Page(a, 0, limit).items
           next == Page(a, 0, limit).next
           length == Len(a)
<1>6. /\ items = SubSeq(a, 1, e) /\ next = (IF e = length THEN 0 ELSE e) /\ length \in Nat
      /\ (e = length => items = a) /\ (e # 0 \/ e = length) /\ e <= length
  <2>1. items = SubSeq(a, 1, e) /\ (e = length => items = a)
    BY <1>4, <1>5, Zenon
  <2>2. next = (IF e = length THEN 0 ELSE e) /\ (e # 0 \/ e = length) /\ e <= length
    BY <1>2, Zenon
  <2> QED BY <1>1, <2>1, <2>2, Zenon
<1>7. (next = 0 => items = a) /\ next \in Nat /\ next <= length /\ (next # 0 => items = SubSeq(a, 1, next))
  <2> HIDE DEF items, next, length
  <2>1. CASE e = length
    BY <1>6, <2>1
  <2>2. CASE e # length
    <3>1. next = e
      BY <1>6, <2>2
    <3> QED BY <1>6, <2>2, <3>1
  <2> QED BY <2>1, <2>2
<1> QED BY <1>7

LEMMA RequestLimits ==
    ASSUME NEW q \in Request
    PROVE  q.asOf \in Nat /\ q.limit \in Nat
BY DEF Request

LEMMA PagesStep ==
    ASSUME ClockMode # "stepping",
           IInv, IInv', LineageInv, LineageInv', PastInv, PastInv', FiniteInv, ReaderShape, PagesInv,
           [QueriesNext]_allvars
    PROVE  PagesInv'
<1> DEFINE q == reader.request
<1>1. clock \in Nat /\ txTime \in Nat
  BY DEF IInv, TypeOK
<1>2. CASE UNCHANGED reader /\ [Next]_vars
  <2> SUFFICES ASSUME reader.step = "paging"
               PROVE  /\ q.asOf < clock'
                      /\ phase' # "idle" => q.asOf < txTime'
                      /\ reader.answer = LookupFacts(snapshot', q)
    BY <1>2 DEF PagesInv
  <2>1. /\ q \in Request /\ q.asOf \in Nat /\ q.asOf # 0 /\ q.asOf < clock
        /\ phase # "idle" => q.asOf < txTime
        /\ reader.answer = LookupFacts(snapshot, q)
    BY RequestLimits DEF PagesInv
  <2> HIDE DEF q
  <2>2. CASE Tick
    <3>1. PICK t \in 1..MaxTime : t > clock /\ clock' = t
      BY <2>2 DEF Tick
    <3>2. q.asOf < clock'
      BY <1>1, <2>1, <3>1, ClockAssumption
    <3> QED BY <2>1, <2>2, <3>2 DEF Tick
  <2>3. CASE BeginMutation
    BY <1>1, <2>1, <2>3 DEF BeginMutation, IInv
  <2>4. CASE IngestEpisode \/ UpsertEntity \/ AssertFact \/ RetractFact \/ UNCHANGED vars
    BY <2>1, <2>4 DEF IngestEpisode, UpsertEntity, AssertFact, RetractFact, vars
  <2>5. CASE SupersedeFact
    <3>1. PICK t \in Nat : txTime' = StrictlyAfter(txTime, t)
      <4>1. PICK old \in DOMAIN db.facts : txTime' = StrictlyAfter(txTime, db.facts[old].updatedAt)
        BY <2>5 DEF SupersedeFact
      <4>2. db.facts[old].updatedAt \in Nat
        BY DEF IInv, TypeOK, IsDB, IsMap, Fact
      <4> QED BY <4>1, <4>2
    <3>2. txTime <= txTime' /\ txTime' \in Nat
      BY <1>1, <3>1 DEF StrictlyAfter
    <3> QED BY <1>1, <2>1, <2>5, <3>2 DEF SupersedeFact
  <2>6. CASE Abort
    BY <2>1, <2>6 DEF Abort
  <2>7. CASE Commit
    <3>1. phase # "idle" /\ phase' = "idle" /\ snapshot' = db /\ clock' = clock
      BY <2>7 DEF Commit
    <3>2. /\ IsDB(snapshot) /\ IsDB(db) /\ RevisionsAreGrounded(snapshot) /\ RevisionsAreGrounded(db)
          /\ FactsAreLogged(snapshot) /\ FactsAreLogged(db) /\ Extends(snapshot, db)
          /\ Lineage(snapshot.facts) /\ Lineage(db.facts) /\ IsTold(snapshot) /\ IsTold(db)
          /\ WritesFrom(snapshot, db, txTime)
      BY <3>1 DEF IInv, TypeOK, LineageInv, LineageHolds, PastInv
    <3>3. SamePast(snapshot, db, q)
      BY <1>1, <2>1, <3>1, <3>2, PastSettles
    <3>4. LookupFacts(db, q) = LookupFacts(snapshot, q)
      BY <3>3, SameLookup
    <3> QED BY <2>1, <3>1, <3>4
  <2> QED BY <1>2, <2>2, <2>3, <2>4, <2>5, <2>6, <2>7 DEF Next
<1>3. CASE OpenPages
  <2>1. PICK r \in Requests.pages :
           /\ r.asOf \in 1..(clock - 1)
           /\ reader' = [step |-> IF Page(LookupFacts(db, r), 0, r.limit).next = 0 THEN "read" ELSE "paging",
                          request |-> r,
                          cursor |-> Page(LookupFacts(db, r), 0, r.limit).next,
                          items |-> Page(LookupFacts(db, r), 0, r.limit).items,
                          answer |-> LookupFacts(db, r)]
    BY <1>3 DEF OpenPages
  <2>2. phase = "idle" /\ db = snapshot /\ UNCHANGED vars
    BY <1>3 DEF OpenPages, IInv
  <2>3. r \in Request /\ r.asOf \in Nat /\ r.limit \in Nat
    BY RequestAssumption, RequestLimits
  <2>4. PICK V : LookupFacts(db, r) \in Seq(V)
    BY LookupIsASequence DEF FiniteInv
  <2> DEFINE a == LookupFacts(db, r)
             page == Page(a, 0, r.limit)
  <2>5. /\ page.next = 0 => page.items = a
        /\ page.next \in Nat /\ page.next <= Len(a)
        /\ page.next # 0 => page.items = SubSeq(a, 1, page.next)
    BY <2>3, <2>4, FirstPage
  <2>6. a = LookupFacts(snapshot', r)
    BY <2>2 DEF vars
  <2> HIDE DEF a, page
  <2>7. /\ reader'.step = (IF page.next = 0 THEN "read" ELSE "paging") /\ reader'.request = r
        /\ reader'.cursor = page.next /\ reader'.items = page.items /\ reader'.answer = a
    BY <2>1 DEF a, page
  <2>8. r.asOf # 0 /\ r.asOf < clock' /\ phase' = "idle"
    BY <1>1, <2>1, <2>2 DEF vars
  <2> QED BY <2>3, <2>5, <2>6, <2>7, <2>8 DEF PagesInv
<1>4. CASE NextPage
  <2>1. /\ phase = "idle" /\ db = snapshot /\ UNCHANGED vars /\ reader.step = "paging"
    BY <1>4 DEF NextPage, IInv
  <2> DEFINE a == LookupFacts(db, q)
             page == Page(a, reader.cursor, q.limit)
  <2>2. reader' = [reader EXCEPT !.step = IF page.next = 0 THEN "read" ELSE "paging",
                                 !.cursor = page.next, !.items = @ \o page.items]
    BY <1>4 DEF NextPage
  <2>3. /\ q \in Request /\ q.asOf # 0 /\ q.asOf < clock
        /\ reader.answer = a
        /\ reader.cursor \in Nat /\ reader.cursor <= Len(a)
        /\ reader.items = SubSeq(a, 1, reader.cursor)
    BY <2>1 DEF PagesInv
  <2>4. q.limit \in Nat
    BY <2>3, RequestLimits
  <2>5. PICK V : a \in Seq(V)
    BY LookupIsASequence DEF FiniteInv
  <2>6. /\ page.next = 0 => SubSeq(a, 1, reader.cursor) \o page.items = a
        /\ page.next \in Nat /\ page.next <= Len(a)
        /\ page.next # 0 => SubSeq(a, 1, reader.cursor) \o page.items = SubSeq(a, 1, page.next)
    BY <2>3, <2>4, <2>5, PrefixRead
  <2>7. a = LookupFacts(snapshot', q)
    BY <2>1 DEF vars
  <2>8. q.asOf < clock' /\ phase' = "idle"
    BY <2>1, <2>3 DEF vars
  <2> HIDE DEF a, page
  <2>9. /\ reader'.step = (IF page.next = 0 THEN "read" ELSE "paging") /\ reader'.request = q
        /\ reader'.cursor = page.next /\ reader'.items = reader.items \o page.items
        /\ reader'.answer = reader.answer
    BY <2>1, <2>2 DEF ReaderShape
  <2> HIDE DEF q
  <2> QED BY <2>3, <2>6, <2>7, <2>8, <2>9 DEF PagesInv
<1>5. CASE FetchFact \/ FetchHistory \/ Finish
  <2>1. reader'.step \in {"fetched", "answered", "none"}
    <3>1. CASE FetchFact
      BY <3>1 DEF FetchFact
    <3>2. CASE FetchHistory
      BY <3>2 DEF FetchHistory, ReaderShape
    <3>3. CASE Finish
      BY <3>3 DEF Finish, NoReader
    <3> QED BY <1>5, <3>1, <3>2, <3>3
  <2> QED BY <2>1 DEF PagesInv
<1> QED BY <1>2, <1>3, <1>4, <1>5 DEF QueriesNext, allvars, vars

(* The pages a client reads of a lookup (paginate in graph.go) at an       *)
(* instant before the present make up its answer, each item once and in    *)
(* order, whatever is written between two of them.  A wall clock that      *)
(* steps back may stamp new writes at an instant that was already past.    *)
THEOREM PagesOfThePast ==
    ASSUME ClockMode # "stepping"
    PROVE  QueriesSpec => []PagesOfThePastPartitionIt
<1>1. QueriesSpec => []PagesInv
  BY QueriesAreReads, InvariantHolds, LineageInvariance, PastInvariance, FiniteInvariance,
     ReaderShapeHolds, PagesInit, PagesStep, PTL DEF QueriesSpec
<1>2. PagesInv => PagesOfThePastPartitionIt
  BY DEF PagesInv, PagesOfThePastPartitionIt
<1> QED BY <1>1, <1>2, PTL

-----------------------------------------------------------------------------
(* Searching the graph in breadth.                                         *)

(* The nodes joined to a set, and the set.                                 *)
Spread(edges, S) == S \cup UNION {Ends(e) : e \in {x \in edges : Ends(x) \cap S # {}}}

LEMMA WithinUnfolds ==
    ASSUME NEW start, NEW edges, NEW N \in Nat
    PROVE  /\ Within(start, edges, N)[0] = start
           /\ \A k \in 1..N : Within(start, edges, N)[k] = Spread(edges, Within(start, edges, N)[k - 1])
           /\ DOMAIN Within(start, edges, N) = 0..N
<1> DEFINE U == start \cup UNION {Ends(e) : e \in edges}
           V == SUBSET U
           step == [S \in V |-> Spread(edges, S)]
           Body(f) == [k \in 0..N |-> IF k = 0 THEN start
                          ELSE f[k - 1] \cup UNION {Ends(e) : e \in {x \in edges : Ends(x) \cap f[k - 1] # {}}}]
<1>1. step \in [V -> V]
  <2>1. \A S \in V : Spread(edges, S) \in V
    BY DEF Spread
  <2> QED BY <2>1
<1>2. start \in V
  OBVIOUS
<1>3. PICK f \in [0..N -> V] : Iterates(f, step, start, N)
  <2> HIDE DEF step, V
  <2> QED BY <1>1, <1>2, Iteration
<1>4. ASSUME NEW k \in 0..N, k # 0 PROVE f[k] = Spread(edges, f[k - 1])
  <2>1. k - 1 \in 0..N /\ k \in 1..N
    BY <1>4
  <2>2. f[k - 1] \in V
    <3> HIDE DEF V
    <3> QED BY <1>3, <2>1
  <2>3. f[k] = step[f[k - 1]]
    BY <1>3, <2>1 DEF Iterates
  <2> QED BY <2>2, <2>3
<1>5. f = Body(f)
  <2>1. f = [k \in 0..N |-> f[k]]
    BY <1>3
  <2>2. \A k \in 0..N : f[k] = IF k = 0 THEN start
                          ELSE f[k - 1] \cup UNION {Ends(e) : e \in {x \in edges : Ends(x) \cap f[k - 1] # {}}}
    BY <1>3, <1>4 DEF Iterates, Spread
  <2> QED BY <2>1, <2>2
<1>6. Within(start, edges, N) = CHOOSE g : g = Body(g)
  BY DEF Within
<1>7. Within(start, edges, N) = Body(Within(start, edges, N))
  <2> HIDE DEF Body
  <2> QED BY <1>5, <1>6
<1> DEFINE W == Within(start, edges, N)
<1> HIDE DEF W
<1>8. W = Body(W)
  BY <1>7 DEF W
<1>9. W[0] = start /\ DOMAIN W = 0..N
  BY <1>8
<1>10. ASSUME NEW k \in 1..N PROVE W[k] = Spread(edges, W[k - 1])
  <2>1. k \in 0..N /\ k # 0
    BY <1>10
  <2>2. W[k] = W[k - 1] \cup UNION {Ends(e) : e \in {x \in edges : Ends(x) \cap W[k - 1] # {}}}
    BY <1>8, <2>1
  <2> QED BY <2>2 DEF Spread
<1> QED BY <1>9, <1>10 DEF W

LEMMA WithinGrows ==
    ASSUME NEW start, NEW edges, NEW N \in Nat, NEW i \in 0..N, NEW j \in i..N
    PROVE  Within(start, edges, N)[i] \subseteq Within(start, edges, N)[j]
<1> DEFINE W == Within(start, edges, N)
           Bad == {n \in Nat : n \in i..N /\ ~(W[i] \subseteq W[n])}
<1>1. \A k \in 1..N : W[k - 1] \subseteq W[k]
  BY WithinUnfolds DEF Spread
<1> HIDE DEF W
<1>2. Bad = {}
  <2>1. SUFFICES ASSUME Bad # {} PROVE FALSE
    OBVIOUS
  <2>2. PICK m \in Bad : \A n \in Bad : m <= n
    BY <2>1, LeastNumber
  <2>3. m \in Nat /\ m \in i..N /\ ~(W[i] \subseteq W[m])
    OBVIOUS
  <2>4. m # i
    BY <2>3
  <2>5. m - 1 \in Nat /\ m - 1 \in i..N /\ m \in 1..N /\ ~(m <= m - 1)
    BY <2>3, <2>4
  <2>6. m - 1 \notin Bad
    <3> HIDE DEF Bad
    <3> QED BY <2>2, <2>5
  <2>7. W[i] \subseteq W[m - 1]
    BY <2>5, <2>6
  <2> QED BY <1>1, <2>3, <2>5, <2>7
<1>3. j \in Nat
  OBVIOUS
<1> QED BY <1>2, <1>3 DEF W

(* No node beyond the starts and the ends of edges.                        *)
LEMMA WithinNodes ==
    ASSUME NEW start, NEW edges, NEW N \in Nat, NEW U, start \subseteq U,
           \A e \in edges : Ends(e) \subseteq U, NEW k \in 0..N
    PROVE  Within(start, edges, N)[k] \subseteq U
<1> DEFINE W == Within(start, edges, N)
           Bad == {n \in Nat : n \in 0..N /\ ~(W[n] \subseteq U)}
<1>1. W[0] = start /\ \A n \in 1..N : W[n] = Spread(edges, W[n - 1])
  BY WithinUnfolds
<1> HIDE DEF W
<1>2. Bad = {}
  <2>1. SUFFICES ASSUME Bad # {} PROVE FALSE
    OBVIOUS
  <2>2. PICK m \in Bad : \A n \in Bad : m <= n
    BY <2>1, LeastNumber
  <2>3. m \in Nat /\ m \in 0..N /\ ~(W[m] \subseteq U)
    OBVIOUS
  <2>4. m # 0
    BY <1>1, <2>3
  <2>5. m - 1 \in Nat /\ m - 1 \in 0..N /\ m \in 1..N /\ ~(m <= m - 1)
    BY <2>3, <2>4
  <2>6. m - 1 \notin Bad
    <3> HIDE DEF Bad
    <3> QED BY <2>2, <2>5
  <2>7. W[m - 1] \subseteq U
    BY <2>5, <2>6
  <2> QED BY <1>1, <2>3, <2>5, <2>7 DEF Spread
<1> QED BY <1>2 DEF W

(* The rings of a search: a node is on one ring, at its distance.          *)
Distance(ring) == [x \in Reached(ring) |-> CHOOSE n \in DOMAIN ring : x \in ring[n]]
Nearer(ring, y, x) ==
    \/ Distance(ring)[y] < Distance(ring)[x]
    \/ Distance(ring)[y] = Distance(ring)[x] /\ Before(y, x)

LEMMA NodesKeptUnfolds ==
    ASSUME NEW ring, NEW q
    PROVE  NodesKept(ring, q) =
              {x \in Reached(ring) :
                  q.limit = 0 \/ Cardinality({y \in Reached(ring) : Nearer(ring, y, x)}) < q.limit}
BY DEF NodesKept, Nearer, Distance

LEMMA OneRing ==
    ASSUME NEW start, NEW edges, NEW N \in Nat, NEW n \in 0..N, NEW x,
           x \in Rings(Within(start, edges, N))[n]
    PROVE  /\ x \in Reached(Rings(Within(start, edges, N)))
           /\ Distance(Rings(Within(start, edges, N)))[x] = n
<1> DEFINE W == Within(start, edges, N)
           ring == Rings(W)
<1>1. /\ \A k \in 0..N : ring[k] = IF k = 0 THEN W[0] ELSE W[k] \ W[k - 1]
      /\ DOMAIN ring = 0..N
  <2>1. DOMAIN W = 0..N
    BY WithinUnfolds
  <2> HIDE DEF W
  <2> QED BY <2>1 DEF Rings
<1>2. \A i \in 0..N : \A j \in i..N : W[i] \subseteq W[j]
  BY WithinGrows
<1> HIDE DEF ring, W
<1>3. x \in ring[n]
  BY DEF ring, W
<1>4. \A k, m \in 0..N : k < m => ring[k] \cap ring[m] = {}
  <2> SUFFICES ASSUME NEW k \in 0..N, NEW m \in 0..N, k < m PROVE ring[k] \cap ring[m] = {}
    OBVIOUS
  <2>1. m # 0 /\ m - 1 \in k..N
    OBVIOUS
  <2>2. W[k] \subseteq W[m - 1]
    BY <1>2, <2>1
  <2>3. ring[k] \subseteq W[k] /\ ring[m] = W[m] \ W[m - 1]
    BY <1>1, <2>1
  <2> QED BY <2>2, <2>3
<1>5. \A m \in 0..N : x \in ring[m] => m = n
  <2> SUFFICES ASSUME NEW m \in 0..N, x \in ring[m], m # n PROVE FALSE
    OBVIOUS
  <2>1. m < n \/ n < m
    OBVIOUS
  <2> QED BY <1>3, <1>4, <2>1
<1>6. x \in Reached(ring)
  BY <1>1, <1>3 DEF Reached
<1>7. Distance(ring)[x] = n
  <2>1. Distance(ring)[x] = CHOOSE m \in DOMAIN ring : x \in ring[m]
    BY <1>6 DEF Distance
  <2> QED BY <1>1, <1>3, <1>5, <2>1
<1> QED BY <1>6, <1>7 DEF ring, W

LEMMA RingOf ==
    ASSUME NEW start, NEW edges, NEW N \in Nat, NEW x \in Reached(Rings(Within(start, edges, N)))
    PROVE  \E n \in 0..N : x \in Rings(Within(start, edges, N))[n]
<1>1. DOMAIN Rings(Within(start, edges, N)) = 0..N
  BY WithinUnfolds DEF Rings
<1> QED BY <1>1 DEF Reached

(* What max_nodes keeps of a search, and where it stands.                  *)
LEMMA KeptNearby ==
    ASSUME NEW start, NEW edges, NEW q, q.limit \in Nat, NEW N \in Nat, NEW U, IsFiniteSet(U),
           start \subseteq U, \A e \in edges : Ends(e) \subseteq U,
           NEW y, NEW x, NEW m \in 0..N, NEW n \in 0..N, m < n,
           y \in Rings(Within(start, edges, N))[m], x \in Rings(Within(start, edges, N))[n],
           x \in NodesKept(Rings(Within(start, edges, N)), q)
    PROVE  y \in NodesKept(Rings(Within(start, edges, N)), q)
<1> DEFINE ring == Rings(Within(start, edges, N))
           R == Reached(ring)
           before(z) == {w \in R : Nearer(ring, w, z)}
<1>1. x \in R /\ y \in R /\ Distance(ring)[x] = n /\ Distance(ring)[y] = m
  BY OneRing
<1>2. R \subseteq U
  <2>1. \A k \in 0..N : Within(start, edges, N)[k] \subseteq U
    BY WithinNodes
  <2>2. DOMAIN Within(start, edges, N) = 0..N
    BY WithinUnfolds
  <2>3. \A k \in 0..N : ring[k] \subseteq Within(start, edges, N)[k]
    BY <2>2 DEF Rings
  <2>4. \A w \in R : \E k \in 0..N : w \in ring[k]
    BY RingOf
  <2> QED BY <2>1, <2>3, <2>4
<1>3. \A w \in R : Distance(ring)[w] \in Nat
  <2> SUFFICES ASSUME NEW w \in R PROVE Distance(ring)[w] \in Nat
    OBVIOUS
  <2>1. PICK k \in 0..N : w \in ring[k]
    BY RingOf
  <2>2. Distance(ring)[w] = k
    BY <2>1, OneRing
  <2> QED BY <2>2
<1> HIDE DEF ring, R
<1>4. before(y) \subseteq before(x)
  <2> SUFFICES ASSUME NEW w \in R, Nearer(ring, w, y) PROVE Nearer(ring, w, x)
    OBVIOUS
  <2>1. Distance(ring)[w] <= m
    BY <1>1, <1>3 DEF Nearer
  <2>2. Distance(ring)[w] < n
    BY <1>3, <2>1
  <2> QED BY <1>1, <2>2 DEF Nearer
<1>5. IsFiniteSet(before(x)) /\ IsFiniteSet(before(y))
  BY <1>2, FS_Subset
<1>6. Cardinality(before(y)) <= Cardinality(before(x)) /\ Cardinality(before(y)) \in Nat /\ Cardinality(before(x)) \in Nat
  BY <1>4, <1>5, FS_Subset, FS_CardinalityType
<1>7. q.limit = 0 \/ Cardinality(before(x)) < q.limit
  BY NodesKeptUnfolds DEF ring, R
<1>8. q.limit = 0 \/ Cardinality(before(y)) < q.limit
  <2> HIDE DEF before
  <2> QED BY <1>6, <1>7
<1> QED BY <1>1, <1>8, NodesKeptUnfolds DEF ring, R

LEMMA StartsKept ==
    ASSUME NEW start, IsFiniteSet(start), \A x \in start : ~Before(x, x), NEW edges, NEW q, q.limit \in Nat,
           NEW N \in Nat, q.limit = 0 \/ Cardinality(start) <= q.limit
    PROVE  start \subseteq NodesKept(Rings(Within(start, edges, N)), q)
<1> DEFINE ring == Rings(Within(start, edges, N))
           R == Reached(ring)
<1>1. ring[0] = start
  BY WithinUnfolds DEF Rings
<1>2. SUFFICES ASSUME NEW x \in start PROVE x \in NodesKept(ring, q)
  OBVIOUS
<1>3. x \in R /\ Distance(ring)[x] = 0
  BY <1>1, OneRing
<1> DEFINE before == {w \in R : Nearer(ring, w, x)}
<1>4. before \subseteq start \ {x}
  <2> SUFFICES ASSUME NEW w \in R, Nearer(ring, w, x) PROVE w \in start \ {x}
    OBVIOUS
  <2>1. PICK k \in 0..N : w \in ring[k]
    BY RingOf
  <2>2. Distance(ring)[w] = k
    BY <2>1, OneRing
  <2> HIDE DEF ring, R
  <2>3. k = 0 /\ Before(w, x)
    BY <1>3, <2>2 DEF Nearer
  <2> QED BY <1>1, <1>2, <2>1, <2>3
<1> HIDE DEF before, ring, R
<1>5. IsFiniteSet(start \ {x}) /\ Cardinality(start \ {x}) = Cardinality(start) - 1
  BY FS_RemoveElement
<1>6. Cardinality(before) <= Cardinality(start) - 1 /\ Cardinality(before) \in Nat /\ Cardinality(start) \in Nat
  BY <1>4, <1>5, FS_Subset, FS_CardinalityType
<1>7. q.limit = 0 \/ Cardinality(before) < q.limit
  BY <1>6
<1> QED BY <1>3, <1>7, NodesKeptUnfolds DEF before, ring, R

(* A node that is kept is joined to a start by edges that are kept.        *)
LEMMA KeptConnected ==
    ASSUME NEW start, NEW edges, NEW q, q.limit \in Nat, Hops(q) \in Nat, NEW U, IsFiniteSet(U),
           start \subseteq U, \A e \in edges : Ends(e) \subseteq U
    PROVE  LET ring == Rings(Within(start, edges, Hops(q)))
               kept == Kept(edges, ring, NodesKept(ring, q), q)
           IN  kept.nodes \subseteq Within(start, kept.edges, Hops(q))[Hops(q)]
<1> DEFINE N == Hops(q)
           W == Within(start, edges, N)
           ring == Rings(W)
           K == NodesKept(ring, q)
           E == Kept(edges, ring, K, q).edges
           X == Within(start, E, N)
           Bad == {n \in Nat : n \in 0..N /\ ~(K \cap ring[n] \subseteq X[n])}
<1>0. N \in Nat
  OBVIOUS
<1>1. W[0] = start /\ (\A k \in 1..N : W[k] = Spread(edges, W[k - 1])) /\ DOMAIN W = 0..N
  BY <1>0, WithinUnfolds
<1>2. X[0] = start /\ (\A k \in 1..N : X[k] = Spread(E, X[k - 1])) /\ DOMAIN X = 0..N
  <2> HIDE DEF E
  <2> QED BY <1>0, WithinUnfolds
<1>3. \A k \in 0..N : ring[k] = IF k = 0 THEN W[0] ELSE W[k] \ W[k - 1]
  <2> HIDE DEF W
  <2> QED BY <1>1 DEF Rings
<1>4. \A k \in 0..N : X[k] \subseteq X[N]
  <2> HIDE DEF E
  <2> QED BY <1>0, WithinGrows
<1>5. \A m, n \in 0..N : \A y \in ring[m] : \A x \in ring[n] : m < n /\ x \in K => y \in K
  BY <1>0, KeptNearby
<1>6. \A e \in edges : \A k \in 0..(N - 1) :
          Ends(e) \cap ring[k] # {} /\ Ends(e) \subseteq K => e \in E
  BY DEF Kept
<1>7. \A x \in K : \E n \in 0..N : x \in ring[n]
  BY <1>0, RingOf, NodesKeptUnfolds
<1>8. Kept(edges, ring, K, q).nodes = K
  BY DEF Kept
<1> HIDE DEF W, ring, K, E, X, N
<1>9. Bad = {}
  <2>1. SUFFICES ASSUME Bad # {} PROVE FALSE
    OBVIOUS
  <2>2. PICK n \in Bad : \A m \in Bad : n <= m
    BY <2>1, LeastNumber
  <2>3. n \in Nat /\ n \in 0..N
    OBVIOUS
  <2>4. PICK x \in K : x \in ring[n] /\ x \notin X[n]
    OBVIOUS
  <2>5. n # 0
    BY <1>1, <1>2, <1>3, <2>3, <2>4
  <2>6. n - 1 \in Nat /\ n - 1 \in 0..N /\ n \in 1..N /\ n - 1 \in 0..(N - 1) /\ ~(n <= n - 1) /\ n - 1 < n
    BY <1>0, <2>3, <2>5
  <2>7. n - 1 \notin Bad
    <3> HIDE DEF Bad
    <3> QED BY <2>2, <2>6
  <2>8. K \cap ring[n - 1] \subseteq X[n - 1]
    BY <2>6, <2>7
  <2>9. x \in W[n] /\ x \notin W[n - 1]
    BY <1>3, <2>3, <2>4, <2>5
  <2>10. PICK e \in edges : Ends(e) \cap W[n - 1] # {} /\ x \in Ends(e)
    BY <1>1, <2>6, <2>9 DEF Spread
  <2>11. PICK y \in Ends(e) : y \in W[n - 1]
    BY <2>10
  <2>12. y \in ring[n - 1]
    <3>1. CASE n = 1
      <4>1. n - 1 = 0
        BY <3>1
      <4>2. ring[0] = W[0]
        BY <1>3, <2>6, <4>1
      <4> QED BY <2>11, <4>1, <4>2
    <3>2. CASE n # 1
      <4>1. n - 1 \in 1..N /\ n - 1 # 0 /\ (n - 1) - 1 \in Nat
        BY <2>3, <2>5, <2>6, <3>2
      <4>2. W[n - 1] = Spread(edges, W[(n - 1) - 1])
        BY <1>1, <4>1
      <4>3. y \notin W[(n - 1) - 1]
        BY <2>9, <2>10, <2>11, <4>2 DEF Spread
      <4> QED BY <1>3, <2>6, <2>11, <4>1, <4>3
    <3> QED BY <3>1, <3>2
  <2>13. y \in K
    BY <1>5, <2>3, <2>4, <2>6, <2>12
  <2>14. y \in X[n - 1]
    BY <2>8, <2>12, <2>13
  <2>15. Ends(e) \subseteq K
    BY <2>4, <2>9, <2>10, <2>11, <2>13 DEF Ends
  <2>16. e \in E
    BY <1>6, <2>6, <2>12, <2>15
  <2>17. x \in X[n]
    BY <1>2, <2>6, <2>10, <2>14, <2>16 DEF Spread
  <2> QED BY <2>4, <2>17
<1>10. K \subseteq X[N]
  <2> SUFFICES ASSUME NEW x \in K PROVE x \in X[N]
    OBVIOUS
  <2>1. PICK n \in 0..N : x \in ring[n]
    BY <1>7
  <2>2. n \in Nat
    BY <2>1
  <2>3. x \in X[n]
    BY <1>9, <2>1, <2>2
  <2> QED BY <1>4, <2>1, <2>3
<1> QED BY <1>8, <1>10 DEF N, W, ring, K, E, X

LEMMA GraphNodesFinite ==
    ASSUME NEW d, IsFinite(d), NEW q
    PROVE  IsFiniteSet(GraphNodes(d, q))
<1>1. /\ EntitiesSeen(d, q) \subseteq DOMAIN d.entities /\ SourcesSeen(d, q) \subseteq DOMAIN d.sources
      /\ EpisodesSeen(d, q) \subseteq DOMAIN d.episodes /\ FactsSeen(d, q) \subseteq DOMAIN d.facts
  BY DEF EntitiesSeen, SourcesSeen, EpisodesSeen, FactsSeen
<1>2. /\ IsFiniteSet(EntitiesSeen(d, q)) /\ IsFiniteSet(SourcesSeen(d, q))
      /\ IsFiniteSet(EpisodesSeen(d, q)) /\ IsFiniteSet(FactsSeen(d, q))
  BY <1>1, FS_Subset DEF IsFinite
<1> QED BY <1>2, FS_Union DEF GraphNodes

(* An id is a prefix with a rank and a number: none comes before itself.   *)
LEMMA NotBeforeItself ==
    ASSUME NEW id \in ID
    PROVE  ~Before(id, id)
<1>1. id[1] \in DOMAIN PrefixRank /\ id[2] \in Nat
  BY RequestAssumption DEF ID
<1>2. PrefixRank[id[1]] \in Nat
  BY <1>1, RequestAssumption
<1> QED BY <1>1, <1>2 DEF Before

(* Cutting a neighborhood down to max_nodes (Neighborhood in graph.go)     *)
(* leaves a graph context: no edge to a node that was dropped, anchors     *)
(* first, and every node joined to an anchor by what is left.              *)
THEOREM NeighborhoodsConnect == QueriesSpec => []NeighborhoodStaysConnected
<1>1. TypeOK /\ FiniteInv => NeighborhoodStaysConnected
  <2> SUFFICES ASSUME TypeOK, FiniteInv, NEW q \in Requests.graph
               PROVE  Connected(Neighborhood(db, q), CanonicalIDs(db, q.ids, q) \cap GraphNodes(db, q), q)
    BY DEF NeighborhoodStaysConnected
  <2> DEFINE U == GraphNodes(db, q)
             start == CanonicalIDs(db, q.ids, q) \cap U
             edges == GraphEdges(db, q)
             ring == Ring(db, q)
             graph == Kept(edges, ring, NodesKept(ring, q), q)
  <2>1. q.limit \in Nat /\ Hops(q) \in Nat
    BY RequestAssumption DEF Request, Hops
  <2>2. IsFiniteSet(U) /\ start \subseteq U /\ IsFiniteSet(start)
    <3>1. IsFiniteSet(U)
      BY GraphNodesFinite DEF FiniteInv
    <3> QED BY <3>1, FS_Subset
  <2>3. \A e \in edges : Ends(e) \subseteq U
    BY DEF GraphEdges, Ends
  <2>4. \A x \in start : ~Before(x, x)
    <3>1. U \subseteq ID
      BY DEF GraphNodes, EntitiesSeen, SourcesSeen, EpisodesSeen, FactsSeen, TypeOK, IsDB, IsMap
    <3> QED BY <3>1, NotBeforeItself
  <2>5. ring = Rings(Within(start, edges, Hops(q)))
    BY DEF Ring
  <2>6. Neighborhood(db, q) = graph
    BY DEF Neighborhood
  <2> HIDE DEF U, start, edges, ring
  <2>7. \A e \in graph.edges : Ends(e) \subseteq graph.nodes
    BY DEF Kept
  <2>8. q.limit = 0 \/ Cardinality(start) <= q.limit => start \subseteq graph.nodes
    <3>1. graph.nodes = NodesKept(ring, q)
      BY DEF Kept
    <3> QED BY <2>1, <2>2, <2>4, <2>5, <3>1, StartsKept
  <2>9. graph.nodes \subseteq Within(start, graph.edges, Hops(q))[Hops(q)]
    BY <2>1, <2>2, <2>3, <2>5, KeptConnected
  <2> QED BY <2>6, <2>7, <2>8, <2>9 DEF Connected, start, U
<1> QED BY <1>1, QueriesAreReads, TypeCorrect, FiniteInvariance, PTL

-----------------------------------------------------------------------------
(* Where records belong: whatever one refers to is stored, in its space,   *)
(* and its versions never leave it.                                        *)

SourcesPlaced(d) ==
    \A ep \in DOMAIN d.episodes :
        /\ d.episodes[ep].source \in DOMAIN d.sources
        /\ d.sources[d.episodes[ep].source].space = d.episodes[ep].space

Placed(d, f) ==
    /\ \A e \in {f.subject, f.object} \ {None} :
          e \in DOMAIN d.entities /\ d.entities[e].space = f.space
    /\ \A ep \in f.support : ep \in DOMAIN d.episodes /\ d.episodes[ep].space = f.space
FactsPlaced(d) == (\A id \in DOMAIN d.facts : Placed(d, d.facts[id])) /\ StatementsAreLogged(d)

EntitiesPlaced(d) ==
    /\ \A r \in DOMAIN d.entityRevisions :
        /\ \E n \in 1..d.sequence : r = GeneratedID("entityrev", n)
        /\ d.entityRevisions[r].entity \in DOMAIN d.entities
        /\ d.entityRevisions[r].record.space = d.entities[d.entityRevisions[r].entity].space
    /\ \A id \in DOMAIN d.entities : \A at \in Nat :
        EntityVersions(d, id, at) # {}
            => \E v \in EntityVersions(d, id, at) : IsLast(v, EntityVersions(d, id, at))

PlacesHold(d) == SourcesPlaced(d) /\ FactsPlaced(d) /\ EntitiesPlaced(d)
PlacesInv == PlacesHold(db) /\ PlacesHold(snapshot)

LEMMA EntitiesPlacedUnderOtherWrites ==
    ASSUME NEW d, NEW e, d.sequence \in Nat, e.sequence \in Nat, EntitiesPlaced(d),
           e.entities = d.entities, e.entityRevisions = d.entityRevisions, e.sequence >= d.sequence
    PROVE  EntitiesPlaced(e)
<1>1. \A m \in 1..d.sequence : m \in 1..e.sequence
  OBVIOUS
<1>2. \A id, at : EntityVersions(e, id, at) = EntityVersions(d, id, at)
  BY DEF EntityVersions
<1>3. \A r \in DOMAIN e.entityRevisions : \E n \in 1..e.sequence : r = GeneratedID("entityrev", n)
  BY <1>1 DEF EntitiesPlaced
<1>4. \A id \in DOMAIN e.entities : \A at \in Nat :
        EntityVersions(e, id, at) # {}
            => \E v \in EntityVersions(e, id, at) : IsLast(v, EntityVersions(e, id, at))
  BY <1>2 DEF EntitiesPlaced
<1> QED BY <1>3, <1>4 DEF EntitiesPlaced

LEMMA FactsPlacedUnderOtherWrites ==
    ASSUME NEW d, NEW e, FactsPlaced(d), e.facts = d.facts, e.factRevisions = d.factRevisions,
           \A x \in DOMAIN d.entities :
              x \in DOMAIN e.entities /\ e.entities[x].space = d.entities[x].space,
           \A ep \in DOMAIN d.episodes : ep \in DOMAIN e.episodes /\ e.episodes[ep] = d.episodes[ep]
    PROVE  FactsPlaced(e)
<1>1. \A f : Placed(d, f) => Placed(e, f)
  BY DEF Placed
<1> QED BY <1>1 DEF FactsPlaced, StatementsAreLogged

(* Of two versions the one that comes after is settled by stamps and       *)
(* numbers; a new version has the greatest number, not always the latest   *)
(* stamp.                                                                  *)
LEMMA LastWithOneMore ==
    ASSUME NEW versions, NEW v,
           \A w \in versions \cup {v} : w.order \in Nat /\ w.txTime \in Nat,
           \A w \in versions : w.order < v.order,
           versions # {} => \E u \in versions : IsLast(u, versions)
    PROVE  \E u \in versions \cup {v} : IsLast(u, versions \cup {v})
<1>1. CASE versions = {}
  BY <1>1 DEF IsLast
<1>2. CASE versions # {}
  <2>1. PICK u \in versions : IsLast(u, versions)
    BY <1>2
  <2>2. CASE u.txTime <= v.txTime
    <3>1. \A w \in versions : ComesAfter(v, w)
      BY <2>1, <2>2 DEF IsLast, ComesAfter
    <3> QED BY <3>1 DEF IsLast
  <2>3. CASE ~(u.txTime <= v.txTime)
    <3>1. ComesAfter(u, v)
      BY <2>3 DEF ComesAfter
    <3> QED BY <2>1, <3>1 DEF IsLast
  <2> QED BY <2>2, <2>3
<1> QED BY <1>1, <1>2

LEMMA UpsertKeepsEntitiesPlaced ==
    ASSUME IsDB(db), txTime \in Nat, EntitiesPlaced(db), NEW id, NEW new, UpsertsEntity(id, new)
    PROVE  /\ EntitiesPlaced(db')
           /\ \A x \in DOMAIN db.entities :
                 x \in DOMAIN db'.entities /\ db'.entities[x].space = db.entities[x].space
<1> DEFINE e == db'
           entity == e.entities[id]
           v == Version(new, e.entityRevisions[new])
<1>1. /\ IsDB(e) /\ e.sequence \in Nat /\ db.sequence \in Nat /\ e.sequence > db.sequence
      /\ new = GeneratedID("entityrev", e.sequence) /\ new \notin DOMAIN db.entityRevisions
      /\ entity.updatedAt = txTime
      /\ id \in DOMAIN db.entities => entity.space = db.entities[id].space
  BY DEF UpsertsEntity, IDExists, IsDB
<1>2. /\ DOMAIN e.entities = DOMAIN db.entities \cup {id}
      /\ \A x \in DOMAIN db.entities \ {id} : e.entities[x] = db.entities[x]
      /\ DOMAIN e.entityRevisions = DOMAIN db.entityRevisions \cup {new}
      /\ e.entityRevisions[new] = [entity |-> id, txTime |-> entity.updatedAt, record |-> entity]
      /\ \A r \in DOMAIN db.entityRevisions : e.entityRevisions[r] = db.entityRevisions[r]
  <2>1. e.entities = Put(db.entities, id, entity)
    BY DEF UpsertsEntity
  <2>2. e.entityRevisions = Put(db.entityRevisions, new, EntityRevisionOf(id, entity))
    BY DEF UpsertsEntity
  <2> HIDE DEF e, entity
  <2> QED BY <1>1, <2>1, <2>2 DEF Put, EntityRevisionOf
<1>3. \A r \in DOMAIN db.entityRevisions :
         /\ db.entityRevisions[r].txTime \in Nat
         /\ db.entityRevisions[r].entity \in DOMAIN db.entities
         /\ db.entityRevisions[r].record.space = db.entities[db.entityRevisions[r].entity].space
         /\ \E n \in 1..db.sequence : r = GeneratedID("entityrev", n)
  BY DEF EntitiesPlaced, IsDB, IsMap, EntityRevision
<1> HIDE DEF e, entity
<1>4. \A x \in DOMAIN db.entities : x \in DOMAIN e.entities /\ e.entities[x].space = db.entities[x].space
  BY <1>1, <1>2 DEF entity
<1>5. ASSUME NEW r \in DOMAIN e.entityRevisions
      PROVE  /\ \E n \in 1..e.sequence : r = GeneratedID("entityrev", n)
             /\ e.entityRevisions[r].entity \in DOMAIN e.entities
             /\ e.entityRevisions[r].record.space = e.entities[e.entityRevisions[r].entity].space
  <2>1. CASE r = new
    <3>1. e.sequence \in 1..e.sequence
      BY <1>1
    <3> QED BY <1>1, <1>2, <2>1, <3>1 DEF entity
  <2>2. CASE r # new
    <3>1. r \in DOMAIN db.entityRevisions /\ e.entityRevisions[r] = db.entityRevisions[r]
      BY <1>2, <2>2
    <3>2. PICK n \in 1..db.sequence : r = GeneratedID("entityrev", n)
      BY <1>3, <3>1
    <3>3. n \in 1..e.sequence
      BY <1>1
    <3> QED BY <1>3, <1>4, <3>1, <3>2, <3>3
  <2> QED BY <2>1, <2>2
<1>6. v.order = e.sequence /\ v.txTime = txTime
  BY <1>1, <1>2 DEF Version, RevisionOrder, GeneratedID
<1>7. ASSUME NEW y \in DOMAIN db.entityRevisions
      PROVE  /\ Version(y, db.entityRevisions[y]).order \in Nat
             /\ Version(y, db.entityRevisions[y]).order < e.sequence
             /\ Version(y, db.entityRevisions[y]).txTime \in Nat
  <2>1. PICK m \in 1..db.sequence : y = GeneratedID("entityrev", m)
    BY <1>3
  <2> QED BY <1>1, <1>3, <2>1 DEF Version, RevisionOrder, GeneratedID
<1>8. ASSUME NEW x \in DOMAIN e.entities, NEW at \in Nat, EntityVersions(e, x, at) # {}
      PROVE  \E u \in EntityVersions(e, x, at) : IsLast(u, EntityVersions(e, x, at))
  <2> DEFINE old == EntityVersions(db, x, at)
  <2>1. old # {} => \E u \in old : IsLast(u, old)
    <3>1. ASSUME old # {} PROVE x \in DOMAIN db.entities
      <4>1. PICK r \in DOMAIN db.entityRevisions : db.entityRevisions[r].entity = x
        BY <3>1 DEF EntityVersions
      <4> QED BY <1>3, <4>1
    <3> QED BY <3>1 DEF EntitiesPlaced
  <2>2. old = {Version(y, e.entityRevisions[y]) :
                  y \in {z \in DOMAIN db.entityRevisions :
                           db.entityRevisions[z].entity = x /\ db.entityRevisions[z].txTime <= at}}
    BY <1>2 DEF EntityVersions
  <2>3. CASE x = id /\ txTime <= at
    <3>1. EntityVersions(e, x, at) = old \cup {v}
      <4>1. {y \in DOMAIN e.entityRevisions :
               e.entityRevisions[y].entity = x /\ e.entityRevisions[y].txTime <= at}
            = {y \in DOMAIN db.entityRevisions :
               db.entityRevisions[y].entity = x /\ db.entityRevisions[y].txTime <= at} \cup {new}
        BY <1>1, <1>2, <2>3
      <4> QED BY <2>2, <4>1 DEF EntityVersions
    <3>2. \A w \in old : w.order \in Nat /\ w.order < v.order /\ w.txTime \in Nat
      BY <1>6, <1>7 DEF EntityVersions
    <3>3. v.order \in Nat /\ v.txTime \in Nat
      BY <1>1, <1>6
    <3> HIDE DEF v, old
    <3>4. \A w \in old \cup {v} : w.order \in Nat /\ w.txTime \in Nat
      BY <3>2, <3>3
    <3>5. \A w \in old : w.order < v.order
      BY <3>2
    <3>6. \E u \in old \cup {v} : IsLast(u, old \cup {v})
      BY <2>1, <3>4, <3>5, LastWithOneMore, Zenon
    <3> QED BY <3>1, <3>6
  <2>4. CASE ~(x = id /\ txTime <= at)
    <3>1. EntityVersions(e, x, at) = old
      <4>1. {y \in DOMAIN e.entityRevisions :
               e.entityRevisions[y].entity = x /\ e.entityRevisions[y].txTime <= at}
            = {y \in DOMAIN db.entityRevisions :
               db.entityRevisions[y].entity = x /\ db.entityRevisions[y].txTime <= at}
        BY <1>1, <1>2, <2>4
      <4> QED BY <2>2, <4>1 DEF EntityVersions
    <3> HIDE DEF old
    <3> QED BY <1>8, <2>1, <3>1
  <2> QED BY <2>3, <2>4
<1>9. EntitiesPlaced(e)
  BY <1>5, <1>8 DEF EntitiesPlaced
<1> QED BY <1>4, <1>9 DEF e

(* An operation on facts writes each statement where it belongs.           *)
LEMMA RecordsKeepsPlaced ==
    ASSUME NEW d, IsDB(d), RevisionsAreGrounded(d), FactsPlaced(d),
           NEW id, NEW fact, NEW n, NEW e, NEW now, Records(d, id, fact, n, e),
           Introduces(d, id, fact, now) \/ Restates(d, id, fact)
    PROVE  FactsPlaced(e)
<1> DEFINE new == GeneratedID("factrev", n)
<1>1. /\ new \notin DOMAIN d.factRevisions
      /\ DOMAIN e.factRevisions = DOMAIN d.factRevisions \cup {new}
      /\ e.factRevisions[new] = [fact |-> id, txTime |-> fact.updatedAt, record |-> fact]
      /\ \A r \in DOMAIN d.factRevisions : e.factRevisions[r] = d.factRevisions[r]
      /\ DOMAIN e.facts = DOMAIN d.facts \cup {id}
      /\ e.facts[id] = fact
      /\ \A x \in DOMAIN d.facts \ {id} : e.facts[x] = d.facts[x]
  BY RecordsMaps
<1> HIDE DEF new
<1>2. e.episodes = d.episodes /\ e.entities = d.entities
  BY FactWritesKeepStamps
<1>3. \A r \in DOMAIN d.factRevisions : d.factRevisions[r].fact \in DOMAIN d.facts
  BY DEF RevisionsAreGrounded
<1>4. id \in DOMAIN d.facts => SameStatement(d.facts[id], fact)
  BY DEF Introduces, Restates, SameStatement
<1>5. Placed(d, fact)
  <2>1. CASE Introduces(d, id, fact, now)
    BY <2>1 DEF Introduces, FactAccepted, EndpointKnown, Placed
  <2>2. CASE Restates(d, id, fact)
    <3>1. id \in DOMAIN d.facts /\ Placed(d, d.facts[id])
      BY <2>2 DEF Restates, FactsPlaced
    <3> QED BY <1>4, <3>1 DEF Placed, SameStatement
  <2> QED BY <2>1, <2>2
<1>6. \A x \in DOMAIN e.facts : Placed(d, e.facts[x])
  BY <1>1, <1>5 DEF FactsPlaced
<1>7. \A x \in DOMAIN e.facts : Placed(e, e.facts[x])
  BY <1>2, <1>6 DEF Placed
<1>8. StatementsAreLogged(e)
  <2> SUFFICES ASSUME NEW r \in DOMAIN e.factRevisions
               PROVE  SameStatement(e.factRevisions[r].record, e.facts[e.factRevisions[r].fact])
    BY DEF StatementsAreLogged
  <2>1. CASE r = new
    BY <1>1, <2>1, SMTT(30) DEF SameStatement
  <2>2. CASE r # new
    <3>1. r \in DOMAIN d.factRevisions /\ e.factRevisions[r] = d.factRevisions[r]
      BY <1>1, <2>2
    <3>2. SameStatement(d.factRevisions[r].record, d.facts[d.factRevisions[r].fact])
      BY <3>1 DEF FactsPlaced, StatementsAreLogged
    <3> QED BY <1>1, <1>3, <1>4, <3>1, <3>2 DEF SameStatement
  <2> QED BY <2>1, <2>2
<1> QED BY <1>7, <1>8 DEF FactsPlaced

LEMMA FactOperationsKeepPlaces ==
    ASSUME IInv, PlacesInv, AssertFact \/ SupersedeFact \/ RetractFact
    PROVE  PlacesHold(db')
<1>1. OthersKept
  BY FactOperationsKeepOthers
<1>2. IsDB(db) /\ FactsPlaced(db) /\ db.sequence \in Nat
  BY DEF IInv, TypeOK, IsDB, PlacesInv, PlacesHold
<1>3. ASSUME NEW s \in Nat, s >= db.sequence
      PROVE  FactsPlaced(SetSequence(db, s))
  <2> DEFINE d == SetSequence(db, s)
  <2>1. /\ d.facts = db.facts /\ d.factRevisions = db.factRevisions
        /\ d.entities = db.entities /\ d.episodes = db.episodes
    BY <1>2, SetSequenceFields
  <2> HIDE DEF d
  <2>2. FactsPlaced(d)
    BY <1>2, <2>1, FactsPlacedUnderOtherWrites
  <2> QED BY <2>2 DEF d
<1>4. FactsPlaced(db') /\ IsDB(db')
  <2>1. CASE AssertFact
    <3>1. PICK d, id, fact, n : AssertsOne(txTime, d, id, fact, n)
      BY <2>1, AssertFactWrites
    <3>2. FactsPlaced(d)
      BY <1>3, <3>1 DEF AssertsOne
    <3> QED BY <3>1, <3>2, RecordsKeepsPlaced, RecordsFields DEF AssertsOne
  <2>2. CASE SupersedeFact
    <3>1. PICK d, new, fact, n1, a, old, gone, n2, b, link, n3 :
             SupersedesOne(txTime', d, new, fact, n1, a, old, gone, n2, b, link, n3)
      BY <2>2, SupersedeFactWrites
    <3>2. FactsPlaced(d)
      BY <1>3, <3>1 DEF SupersedesOne
    <3>3. FactsPlaced(a)
      BY <3>1, <3>2, RecordsKeepsPlaced DEF SupersedesOne
    <3>4. FactsPlaced(b)
      BY <3>1, <3>3, RecordsKeepsPlaced DEF SupersedesOne
    <3> QED BY <3>1, <3>4, RecordsKeepsPlaced, RecordsFields DEF SupersedesOne
  <2>3. CASE RetractFact
    <3>1. CASE db' = db
      BY <1>2, <3>1
    <3>2. CASE db' # db
      <4>1. PICK id, fact, n : RetractsOne(id, fact, n)
        BY <2>3, <3>2, RetractFactWrites
      <4> QED BY <1>2, <4>1, RecordsKeepsPlaced, RecordsFields DEF RetractsOne
    <3> QED BY <3>1, <3>2
  <2> QED BY <2>1, <2>2, <2>3
<1>5. db'.sequence \in Nat
  BY <1>4 DEF IsDB
<1>6. EntitiesPlaced(db')
  BY <1>1, <1>2, <1>5, EntitiesPlacedUnderOtherWrites DEF OthersKept, PlacesInv, PlacesHold
<1>7. SourcesPlaced(db')
  BY <1>1 DEF OthersKept, SourcesPlaced, PlacesInv, PlacesHold
<1> QED BY <1>4, <1>6, <1>7 DEF PlacesHold

LEMMA IngestEpisodeKeepsPlaces ==
    ASSUME IInv, PlacesInv, IngestEpisode
    PROVE  PlacesHold(db')
<1>1. PICK source, id : IngestsEpisode(source, id)
  BY IngestEpisodeStep DEF IInv
<1>2. db.sequence \in Nat /\ db'.sequence \in Nat
  BY <1>1 DEF IInv, TypeOK, IngestsEpisode, IsDB
<1>3. EntitiesPlaced(db') /\ FactsPlaced(db')
  BY <1>1, <1>2, EntitiesPlacedUnderOtherWrites, FactsPlacedUnderOtherWrites
     DEF IngestsEpisode, PlacesInv, PlacesHold
<1>4. SourcesPlaced(db')
  <2> SUFFICES ASSUME NEW ep \in DOMAIN db'.episodes
               PROVE  /\ db'.episodes[ep].source \in DOMAIN db'.sources
                      /\ db'.sources[db'.episodes[ep].source].space = db'.episodes[ep].space
    BY DEF SourcesPlaced
  <2>1. CASE ep \in DOMAIN db.episodes
    BY <1>1, <2>1 DEF IngestsEpisode, PlacesInv, PlacesHold, SourcesPlaced
  <2>2. CASE ep \notin DOMAIN db.episodes
    BY <1>1, <2>2 DEF IngestsEpisode
  <2> QED BY <2>1, <2>2
<1> QED BY <1>3, <1>4 DEF PlacesHold

LEMMA UpsertEntityKeepsPlaces ==
    ASSUME IInv, PlacesInv, UpsertEntity
    PROVE  PlacesHold(db')
<1>1. PICK id, revision : UpsertsEntity(id, revision)
  BY UpsertEntityStep DEF IInv
<1>2. /\ EntitiesPlaced(db')
      /\ \A x \in DOMAIN db.entities :
            x \in DOMAIN db'.entities /\ db'.entities[x].space = db.entities[x].space
  BY <1>1, UpsertKeepsEntitiesPlaced DEF IInv, TypeOK, PlacesInv, PlacesHold
<1>3. FactsPlaced(db')
  BY <1>1, <1>2, FactsPlacedUnderOtherWrites DEF UpsertsEntity, PlacesInv, PlacesHold
<1>4. SourcesPlaced(db')
  BY <1>1 DEF UpsertsEntity, SourcesPlaced, PlacesInv, PlacesHold
<1> QED BY <1>2, <1>3, <1>4 DEF PlacesHold

LEMMA PlacesInit == Init => PlacesInv
BY DEF Init, PlacesInv, PlacesHold, SourcesPlaced, FactsPlaced, StatementsAreLogged,
       EntitiesPlaced, EmptyDB

LEMMA PlacesStep ==
    ASSUME IInv, PlacesInv, [Next]_vars
    PROVE  PlacesInv'
<1>1. CASE Tick \/ BeginMutation \/ Abort \/ Commit
  BY <1>1 DEF Tick, BeginMutation, Abort, Commit, PlacesInv
<1>2. CASE IngestEpisode
  BY <1>2, IngestEpisodeKeepsPlaces DEF IngestEpisode, PlacesInv
<1>3. CASE UpsertEntity
  BY <1>3, UpsertEntityKeepsPlaces DEF UpsertEntity, PlacesInv
<1>4. CASE AssertFact \/ SupersedeFact \/ RetractFact
  BY <1>4, FactOperationsKeepPlaces DEF AssertFact, SupersedeFact, RetractFact, PlacesInv
<1>5. CASE UNCHANGED vars
  BY <1>5 DEF vars, PlacesInv
<1> QED BY <1>1, <1>2, <1>3, <1>4, <1>5 DEF Next

LEMMA PlacesInvariance == Spec => []PlacesInv
BY InvariantHolds, PlacesInit, PlacesStep, PTL DEF Spec
-----------------------------------------------------------------------------
(* What a query reads of records in their place.                           *)

(* What a state the proofs read must promise.                              *)
Sound(d) ==
    /\ IsDB(d) /\ RevisionsAreGrounded(d) /\ FactsAreLogged(d)
    /\ LineageHolds(d) /\ UniqueIDs(d) /\ PlacesHold(d)

LEMMA FactReadInPlace ==
    ASSUME NEW d, Sound(d), NEW id \in DOMAIN d.facts, NEW q \in Request, FactAt(d, id, q) # None
    PROVE  /\ FactVisible(FactAt(d, id, q), q)
           /\ SameStatement(FactAt(d, id, q), d.facts[id])
           /\ Placed(d, FactAt(d, id, q))
<1> DEFINE f == FactAt(d, id, q)
           known == IF q.asOf = 0 THEN d.facts[id] ELSE FactVersionAt(d, id, q.asOf)
<1>1. f = IfVisible(known, q)
  BY DEF FactAt
<1> HIDE DEF known, f
<1>2. f = known /\ FactVisible(f, q) /\ known # None
  BY <1>1 DEF IfVisible, f
<1>3. SameStatement(known, d.facts[id])
  <2>1. CASE q.asOf = 0
    BY <2>1 DEF known, SameStatement
  <2>2. CASE q.asOf # 0
    <3>1. /\ IsDB(d) /\ RevisionsAreGrounded(d) /\ FactsAreLogged(d) /\ ChainsAreLogged(d)
          /\ StatementsAreLogged(d) /\ q.asOf \in Nat /\ d.facts[id].createdAt \in Nat
      BY StampTypes DEF Sound, LineageHolds, PlacesHold, FactsPlaced, Request
    <3>2. known = FactVersionAt(d, id, q.asOf)
      BY <2>2 DEF known
    <3>3. ~(q.asOf < d.facts[id].createdAt)
      BY <1>2, <3>1, <3>2, CutReadsALast
    <3>4. q.asOf >= d.facts[id].createdAt
      BY <3>1, <3>3
    <3>5. PICK r \in DOMAIN d.factRevisions :
            /\ d.factRevisions[r].fact = id
            /\ FactVersionAt(d, id, q.asOf) = d.factRevisions[r].record
      BY <3>1, <3>4, CutReadsALast
    <3> QED BY <3>1, <3>2, <3>5 DEF StatementsAreLogged
  <2> QED BY <2>1, <2>2
<1>4. Placed(d, d.facts[id])
  BY DEF Sound, PlacesHold, FactsPlaced
<1>5. Placed(d, f)
  BY <1>2, <1>3, <1>4 DEF Placed, SameStatement
<1> QED BY <1>2, <1>3, <1>5 DEF f

LEMMA EntityReadInPlace ==
    ASSUME NEW d, IsDB(d), EntitiesPlaced(d), NEW id \in DOMAIN d.entities, NEW q \in Request,
           EntityAt(d, id, q) # None
    PROVE  EntityAt(d, id, q).space = d.entities[id].space
<1>1. CASE q.asOf = 0
  BY <1>1 DEF EntityAt
<1>2. CASE q.asOf # 0
  <2> DEFINE known == EntityVersions(d, id, q.asOf)
  <2>1. EntityAt(d, id, q) = EntityVersionAt(d, id, q.asOf) /\ q.asOf \in Nat
    BY <1>2 DEF EntityAt, Request
  <2>2. CASE known = {}
    BY <2>1, <2>2 DEF EntityVersionAt
  <2>3. CASE known # {}
    <3>1. EntityAt(d, id, q) = Latest(known).record
      BY <2>1, <2>3 DEF EntityVersionAt
    <3>2. \E v \in known : \A w \in known \ {v} : ComesAfter(v, w)
      BY <2>1, <2>3 DEF EntitiesPlaced, IsLast
    <3>3. \A v \in known : v.record.space = d.entities[id].space
      BY DEF EntityVersions, Version, EntitiesPlaced
    <3> HIDE DEF known
    <3>4. Latest(known) \in known
      BY <3>2 DEF Latest
    <3> QED BY <3>1, <3>3, <3>4
  <2> QED BY <2>2, <2>3
<1> QED BY <1>1, <1>2

(* An entity of the space of the request that can be read is one it sees.  *)
LEMMA ReadableIsSeen ==
    ASSUME NEW d, IsDB(d), EntitiesPlaced(d), NEW q \in Request, NEW id,
           id \in DOMAIN d.entities => d.entities[id].space = q.space
    PROVE  EntityReadable(d, id, q) <=> id \in EntitiesSeen(d, q)
<1>1. EntityReadable(d, id, q) => EntityAt(d, id, q).space = d.entities[id].space
  BY EntityReadInPlace DEF EntityReadable
<1> QED BY <1>1 DEF EntitiesSeen, EntityReadable

(* A request that asks for other records, through the same filters.        *)
SameFilters(q, r) ==
    /\ r.space = q.space /\ r.asOf = q.asOf /\ r.inactive = q.inactive
    /\ r.validAt = q.validAt /\ r.validFrom = q.validFrom /\ r.validTo = q.validTo
    /\ r.observedFrom = q.observedFrom /\ r.observedTo = q.observedTo
    /\ r.statuses = q.statuses /\ r.types = q.types /\ r.sources = q.sources

LEMMA SameFiltersSee ==
    ASSUME NEW d, NEW q, NEW r, SameFilters(q, r)
    PROVE  /\ \A id : FactAt(d, id, r) = FactAt(d, id, q)
           /\ FactsSeen(d, r) = FactsSeen(d, q) /\ EpisodesSeen(d, r) = EpisodesSeen(d, q)
           /\ EntitiesSeen(d, r) = EntitiesSeen(d, q)
           /\ \A id : /\ Marked(d, id, r) <=> Marked(d, id, q)
                      /\ TypeMatches(EntityAt(d, id, r), r) <=> TypeMatches(EntityAt(d, id, q), q)
<1>1. \A f : FactVisible(f, r) <=> FactVisible(f, q)
  BY DEF SameFilters, FactVisible, Observable, DomainValid
<1>2. \A f : IfVisible(f, r) = IfVisible(f, q)
  BY <1>1 DEF IfVisible
<1>3. \A id : FactAt(d, id, r) = FactAt(d, id, q)
  BY <1>2 DEF FactAt, SameFilters
<1>4. \A id : EntityAt(d, id, r) = EntityAt(d, id, q)
  BY DEF EntityAt, SameFilters
<1>5. \A id : EntityReadable(d, id, r) <=> EntityReadable(d, id, q)
  BY <1>4 DEF EntityReadable
<1>6. \A id : EpisodeReadable(d, id, r) <=> EpisodeReadable(d, id, q)
  BY DEF EpisodeReadable, Observable, SameFilters
<1>7. \A ep : EpisodeInScope(d, ep, r) <=> EpisodeInScope(d, ep, q)
  BY DEF EpisodeInScope, SameFilters
<1>8. \A e : TypeMatches(e, r) <=> TypeMatches(e, q)
  BY DEF TypeMatches, SameFilters
<1>9. \A f : FactInScope(d, f, r) <=> FactInScope(d, f, q)
  BY <1>4, <1>5, <1>6, <1>7, <1>8 DEF FactInScope, SameFilters
<1>10. \A f : FactSeen(d, f, r) <=> FactSeen(d, f, q)
  BY <1>9 DEF FactSeen, SameFilters
<1>11. FactsSeen(d, r) = FactsSeen(d, q)
  BY <1>3, <1>10 DEF FactsSeen
<1>12. EpisodesSeen(d, r) = EpisodesSeen(d, q)
  BY <1>6, <1>7 DEF EpisodesSeen, SameFilters
<1>13. EntitiesSeen(d, r) = EntitiesSeen(d, q)
  BY <1>4, <1>5 DEF EntitiesSeen, SameFilters
<1>14. \A id : Marked(d, id, r) <=> Marked(d, id, q)
  BY <1>4 DEF Marked, Mark
<1> QED BY <1>3, <1>4, <1>8, <1>11, <1>12, <1>13, <1>14

(* A request that names no instant reads the present.                      *)
LEMMA NoInstant ==
    ASSUME NEW q \in Request, ~TemporalSet(q)
    PROVE  /\ q.asOf = 0 /\ q.validAt = 0 /\ q.validFrom = 0 /\ q.validTo = 0
           /\ q.observedFrom = 0 /\ q.observedTo = 0 /\ ~q.inactive
<1> DEFINE t == q.asOf
           u == q.validAt
           v == q.validFrom
           w == q.validTo
           x == q.observedFrom
           y == q.observedTo
<1>1. t \in Nat /\ u \in Nat /\ v \in Nat /\ w \in Nat /\ x \in Nat /\ y \in Nat
  BY DEF Request
<1>2. ~q.inactive /\ t + u + v + w + x + y = 0
  BY Zenon DEF TemporalSet
<1> HIDE DEF t, u, v, w, x, y
<1>3. t + u + v + w + x + y = 0
  BY <1>2, Zenon
<1>4. t = 0 /\ u = 0 /\ v = 0 /\ w = 0 /\ x = 0 /\ y = 0
  BY <1>1, <1>3
<1> QED BY <1>2, <1>4, Zenon DEF t, u, v, w, x, y

(* The exported filter accepts a fact exactly when a query sees it and it  *)
(* touches the anchors.                                                    *)
LEMMA FactPasses ==
    ASSUME NEW d, Sound(d), NEW q \in Request, NEW id \in DOMAIN d.facts
    PROVE  RecordPasses(d, Hit("fact", id), q) <=>
              /\ id \in FactsSeen(d, q)
              /\ MatchesAnchors(CanonicalIDs(d, q.ids, q), FactAnchorIDs(d, id, FactAt(d, id, q), q))
              /\ q.predicates = {} \/ FactAt(d, id, q).predicate \in q.predicates
<1> DEFINE f == FactAt(d, id, q)
           read == IF TemporalSet(q) THEN f ELSE d.facts[id]
           anchored(g) == MatchesAnchors(CanonicalIDs(d, q.ids, q), FactAnchorIDs(d, id, g, q))
           typed(g) == \E e \in {g.subject, g.object} \cap EntitiesSeen(d, q) :
                          TypeMatches(EntityAt(d, e, q), q)
           sourced(g) == \E ep \in g.support :
                           /\ EpisodeReadable(d, ep, q) /\ d.episodes[ep].space = q.space
                           /\ d.episodes[ep].source \in q.sources
           passes(g) == /\ g # None
                        /\ g.space = q.space
                        /\ q.inactive \/ g.status = "active"
                        /\ anchored(g)
                        /\ q.predicates = {} \/ g.predicate \in q.predicates
                        /\ q.statuses = {} \/ g.status \in q.statuses
                        /\ q.types = {} \/ typed(g)
                        /\ q.sources = {} \/ sourced(g)
<1>1. RecordPasses(d, Hit("fact", id), q) <=> passes(read)
  BY DEF RecordPasses, Hit
<1>2. /\ d.facts[id] \in Fact /\ d.facts[id] # None
      /\ q.asOf \in Nat /\ q.validAt \in Nat /\ q.validFrom \in Nat /\ q.validTo \in Nat
      /\ q.observedFrom \in Nat /\ q.observedTo \in Nat
  BY RecordAssumption DEF Sound, IsDB, IsMap, Request
<1>3. passes(read) <=> passes(f)
  <2>1. CASE TemporalSet(q)
    <3>1. read = f
      <4> HIDE DEF f
      <4> QED BY <2>1
    <3> HIDE DEF f, read, passes
    <3> QED BY <3>1
  <2>2. CASE ~TemporalSet(q)
    <3>1. /\ q.asOf = 0 /\ q.validAt = 0 /\ q.validFrom = 0 /\ q.validTo = 0
          /\ q.observedFrom = 0 /\ q.observedTo = 0 /\ ~q.inactive
      BY <2>2, NoInstant
    <3>2. FactVisible(d.facts[id], q) <=> d.facts[id].status = "active"
      BY <3>1 DEF FactVisible, Observable, DomainValid
    <3>3. f = IF d.facts[id].status = "active" THEN d.facts[id] ELSE None
      BY <1>2, <3>1, <3>2 DEF FactAt, IfVisible
    <3>4. read = d.facts[id]
      BY <2>2
    <3>5. CASE d.facts[id].status = "active"
      <4>1. read = f
        BY <3>3, <3>4, <3>5
      <4> HIDE DEF f, read
      <4> QED BY <4>1
    <3>6. CASE d.facts[id].status # "active"
      <4>1. f = None
        BY <3>3, <3>6
      <4>2. read.status # "active"
        BY <3>4, <3>6
      <4> HIDE DEF f, read, anchored, typed, sourced
      <4> QED BY <3>1, <4>1, <4>2
    <3> HIDE DEF passes
    <3> QED BY <3>5, <3>6
  <2> QED BY <2>1, <2>2
<1>4. ASSUME f # None, f.space = q.space
      PROVE  /\ q.inactive \/ f.status = "active"
             /\ typed(f) <=> \E e \in {f.subject, f.object} :
                               EntityReadable(d, e, q) /\ TypeMatches(EntityAt(d, e, q), q)
             /\ q.sources # {} =>
                   (sourced(f) <=> \E ep \in f.support :
                                     EpisodeReadable(d, ep, q) /\ EpisodeInScope(d, d.episodes[ep], q))
  <2>1. FactVisible(f, q) /\ Placed(d, f)
    BY <1>4, FactReadInPlace
  <2> HIDE DEF f
  <2>2. IsDB(d) /\ EntitiesPlaced(d) /\ SourcesPlaced(d) /\ None \notin DOMAIN d.entities
    BY InputAssumption DEF Sound, PlacesHold, IsDB, IsMap
  <2>3. ASSUME NEW e \in {f.subject, f.object}
        PROVE  EntityReadable(d, e, q) <=> e \in EntitiesSeen(d, q)
    <3>1. e \in DOMAIN d.entities => d.entities[e].space = q.space
      BY <1>4, <2>1, <2>2 DEF Placed
    <3> QED BY <2>2, <3>1, ReadableIsSeen
  <2>4. ASSUME NEW ep \in f.support, q.sources # {}
        PROVE  EpisodeInScope(d, d.episodes[ep], q)
                 <=> d.episodes[ep].space = q.space /\ d.episodes[ep].source \in q.sources
    BY <1>4, <2>1, <2>2, <2>4 DEF Placed, SourcesPlaced, EpisodeInScope
  <2> QED BY <2>1, <2>3, <2>4 DEF FactVisible
<1>5. id \in FactsSeen(d, q) <=> f # None /\ f.space = q.space /\ FactInScope(d, f, q)
  BY DEF FactsSeen, FactSeen
<1>6. ASSUME f # None, f.space = q.space
      PROVE  FactInScope(d, f, q) <=>
                /\ q.statuses = {} \/ f.status \in q.statuses
                /\ q.types = {} \/ typed(f)
                /\ q.sources = {} \/ sourced(f)
  <2> HIDE DEF f, typed, sourced
  <2> QED BY <1>4, <1>6 DEF FactInScope
<1> HIDE DEF f, read, typed, sourced
<1> QED BY <1>1, <1>3, <1>4, <1>5, <1>6 DEF f

(* Anchors that name an episode or its source stand for themselves.        *)
LEMMA EpisodePasses ==
    ASSUME NEW d, Sound(d), NEW q \in Request, NEW id \in DOMAIN d.episodes
    PROVE  RecordPasses(d, Hit("episode", id), q) <=>
              /\ id \in EpisodesSeen(d, q)
              /\ MatchesAnchors(CanonicalIDs(d, q.ids, q), {id, d.episodes[id].source})
              /\ q.predicates = {}
<1> DEFINE source == d.episodes[id].source
<1>1. RecordPasses(d, Hit("episode", id), q) <=>
        /\ EpisodeReadable(d, id, q) /\ d.episodes[id].space = q.space
        /\ MatchesAnchors(q.ids, {id, source})
        /\ q.predicates = {}
        /\ q.sources = {} \/ source \in q.sources
  BY DEF RecordPasses, Hit
<1>2. source \in DOMAIN d.sources /\ d.sources[source].space = d.episodes[id].space
  BY DEF Sound, PlacesHold, SourcesPlaced
<1>3. id \notin DOMAIN d.entities /\ source \notin DOMAIN d.entities /\ None \notin DOMAIN d.entities
  BY <1>2, InputAssumption DEF Sound, UniqueIDs, Disjoint, IsDB, IsMap
<1>4. id \in EpisodesSeen(d, q) <=>
        /\ EpisodeReadable(d, id, q) /\ d.episodes[id].space = q.space
        /\ q.sources = {} \/ source \in q.sources
  BY <1>2 DEF EpisodesSeen, EpisodeInScope
<1> HIDE DEF source
<1>5. ASSUME NEW x \in {id, source} PROVE x \in CanonicalIDs(d, q.ids, q) <=> x \in q.ids
  <2>1. x \notin DOMAIN d.entities
    BY <1>3
  <2>2. \A y : Canonical(d, y, q) = y \/ Canonical(d, y, q) \in DOMAIN d.entities
    BY CanonicalForm DEF EntityReadable
  <2>3. Canonical(d, x, q) = x
    BY <1>3, <2>1, CanonicalOfOthers
  <2> QED BY <2>1, <2>2, <2>3 DEF CanonicalIDs
<1>6. CanonicalIDs(d, q.ids, q) = {} <=> q.ids = {}
  BY DEF CanonicalIDs
<1>7. MatchesAnchors(CanonicalIDs(d, q.ids, q), {id, source}) <=> MatchesAnchors(q.ids, {id, source})
  BY <1>5, <1>6 DEF MatchesAnchors
<1> QED BY <1>1, <1>4, <1>7 DEF source

(* An entity that bears no mark, or a blank one, stands for itself.        *)
LEMMA UnmarkedStandsForItself ==
    ASSUME NEW d, IsDB(d), NEW q, NEW id, EntityReadable(d, id, q), ~Marked(d, id, q)
    PROVE  Canonical(d, id, q) = id
<1>1. None \notin DOMAIN d.entities /\ Blank \notin DOMAIN d.entities
  BY InputAssumption, RequestAssumption DEF IsDB, IsMap
<1>2. Redirect(d, id, q) = None
  BY <1>1 DEF Redirect, MarkLeads, Marked, Mark, EntityReadable
<1>3. Chain(d, id, q) \subseteq {id, None}
  BY <1>1, <1>2, ChainOfOne
<1>4. Unmarked(d, Chain(d, id, q), q) \subseteq {id}
  BY <1>1, <1>3 DEF Unmarked, EntityReadable
<1> QED BY <1>4 DEF Canonical, AnyOr

LEMMA EntityPasses ==
    ASSUME NEW d, Sound(d), NEW q \in Request, NEW id \in DOMAIN d.entities
    PROVE  RecordPasses(d, Hit("entity", id), q) <=>
              /\ id \in EntitiesSeen(d, q)
              /\ ~Marked(d, id, q) /\ TypeMatches(EntityAt(d, id, q), q)
              /\ q.predicates = {}
              /\ MatchesAnchors(CanonicalIDs(d, q.ids, q), {id})
<1>1. RecordPasses(d, Hit("entity", id), q) <=>
        /\ id \in EntitiesSeen(d, q)
        /\ ~Marked(d, id, q)
        /\ MatchesAnchors(CanonicalIDs(d, q.ids, q), {Canonical(d, id, q)})
        /\ q.predicates = {} /\ TypeMatches(EntityAt(d, id, q), q)
  BY DEF RecordPasses, Hit
<1>2. id \in EntitiesSeen(d, q) /\ ~Marked(d, id, q) => Canonical(d, id, q) = id
  BY UnmarkedStandsForItself DEF EntitiesSeen, Sound
<1> QED BY <1>1, <1>2

-----------------------------------------------------------------------------
(* The direct hits are what the filter accepts.                            *)

LEMMA SearchedAndFiltered ==
    ASSUME NEW d, Sound(d), NEW q \in Request
    PROVE  Direct(d, q) =
              {h \in AllHits(d) :
                 h.kind \in q.kinds /\ RecordPasses(d, h, q) /\ MatchesText(d, h, q)}
<1> DEFINE passing == {h \in AllHits(d) :
                         h.kind \in q.kinds /\ RecordPasses(d, h, q) /\ MatchesText(d, h, q)}
           facts == IF "fact" \in q.kinds THEN DirectFacts(d, q) ELSE {}
           episodes == IF "episode" \in q.kinds THEN DirectEpisodes(d, q) ELSE {}
           entities == IF "entity" \in q.kinds THEN DirectEntities(d, q) ELSE {}
<1>1. \A kind, id : Hit(kind, id).kind = kind /\ Hit(kind, id).id = id
  BY DEF Hit
<1>2. ASSUME NEW id \in DOMAIN d.facts
      PROVE  id \in facts <=> "fact" \in q.kinds /\ RecordPasses(d, Hit("fact", id), q)
                               /\ MatchesText(d, Hit("fact", id), q)
  <2>1. MatchesText(d, Hit("fact", id), q) <=> FactAt(d, id, q).predicate \in Matching
    BY <1>1 DEF MatchesText
  <2> QED BY <2>1, FactPasses DEF DirectFacts
<1>3. ASSUME NEW id \in DOMAIN d.episodes
      PROVE  id \in episodes <=> "episode" \in q.kinds /\ RecordPasses(d, Hit("episode", id), q)
                                  /\ MatchesText(d, Hit("episode", id), q)
  <2>1. MatchesText(d, Hit("episode", id), q) <=> d.episodes[id].content \in Matching
    BY <1>1 DEF MatchesText
  <2> QED BY <2>1, EpisodePasses DEF DirectEpisodes
<1>4. ASSUME NEW id \in DOMAIN d.entities
      PROVE  id \in entities <=> "entity" \in q.kinds /\ RecordPasses(d, Hit("entity", id), q)
                                  /\ MatchesText(d, Hit("entity", id), q)
  <2>1. MatchesText(d, Hit("entity", id), q) <=> EntityAt(d, id, q).value \in Matching
    BY <1>1 DEF MatchesText
  <2> QED BY <2>1, EntityPasses DEF DirectEntities
<1>5. /\ facts \subseteq DOMAIN d.facts /\ episodes \subseteq DOMAIN d.episodes
      /\ entities \subseteq DOMAIN d.entities
  BY DEF DirectFacts, DirectEpisodes, DirectEntities, FactsSeen, EpisodesSeen, EntitiesSeen
<1>6. Direct(d, q) = {Hit("fact", id) : id \in facts} \cup {Hit("episode", id) : id \in episodes}
                       \cup {Hit("entity", id) : id \in entities}
  BY DEF Direct
<1> HIDE DEF facts, episodes, entities
<1>7. ASSUME NEW h \in Direct(d, q) PROVE h \in passing
  <2>1. CASE \E id \in facts : h = Hit("fact", id)
    BY <1>1, <1>2, <1>5, <2>1 DEF AllHits
  <2>2. CASE \E id \in episodes : h = Hit("episode", id)
    BY <1>1, <1>3, <1>5, <2>2 DEF AllHits
  <2>3. CASE \E id \in entities : h = Hit("entity", id)
    BY <1>1, <1>4, <1>5, <2>3 DEF AllHits
  <2> QED BY <1>6, <1>7, <2>1, <2>2, <2>3
<1>8. ASSUME NEW h \in passing PROVE h \in Direct(d, q)
  <2>1. CASE \E id \in DOMAIN d.facts : h = Hit("fact", id)
    BY <1>1, <1>2, <1>6, <1>8, <2>1
  <2>2. CASE \E id \in DOMAIN d.episodes : h = Hit("episode", id)
    BY <1>1, <1>3, <1>6, <1>8, <2>2
  <2>3. CASE \E id \in DOMAIN d.entities : h = Hit("entity", id)
    BY <1>1, <1>4, <1>6, <1>8, <2>3
  <2>4. h \in AllHits(d)
    BY <1>8
  <2> QED BY <2>1, <2>2, <2>3, <2>4 DEF AllHits
<1> QED BY <1>7, <1>8

(* What a search returns is seen, whatever its anchors.                    *)
Alone(q) == [q EXCEPT !.ids = {}]

LEMMA AloneFilters ==
    ASSUME NEW q \in Request
    PROVE  /\ Alone(q) \in Request /\ SameFilters(q, Alone(q))
           /\ Alone(q).ids = {} /\ Alone(q).predicates = q.predicates
           /\ LET open == [Alone(q) EXCEPT !.predicates = {}]
              IN  open \in Request /\ SameFilters(q, open) /\ open.ids = {} /\ open.predicates = {}
BY DEF Alone, Request, SameFilters

LEMMA AnyAnchor == \A d, q, ids : MatchesAnchors(CanonicalIDs(d, {}, q), ids)
BY DEF CanonicalIDs, MatchesAnchors

LEMMA SearchSees ==
    ASSUME NEW d, NEW q, NEW h \in Search(d, q)
    PROVE  \/ h \in Direct(d, q)
           \/ \E id \in FactsSeen(d, q) :
                 /\ h = Hit("fact", id)
                 /\ q.predicates = {} \/ FactAt(d, id, q).predicate \in q.predicates
<1>1. \A seeds, found : \A id \in Expanded(d, seeds, found, q) :
        id \in FactsSeen(d, q) /\ (q.predicates = {} \/ FactAt(d, id, q).predicate \in q.predicates)
  BY DEF Expanded
<1>2. \A direct : \A id \in TwoRounds(d, direct, q) :
        \E seeds, found : id \in Expanded(d, seeds, found, q)
  BY DEF TwoRounds, SecondRound
<1>3. h \in WithNeighbors(d, Direct(d, q), q)
  BY DEF Search
<1>4. h \in Direct(d, q) \/ \E id \in TwoRounds(d, Direct(d, q), q) : h = Hit("fact", id)
  BY <1>3 DEF WithNeighbors
<1> QED BY <1>1, <1>2, <1>4

LEMMA SearchPasses ==
    ASSUME NEW d, Sound(d), NEW q \in Request, NEW h \in Search(d, q)
    PROVE  h \in AllHits(d) /\ RecordPasses(d, h, Alone(q))
<1> DEFINE r == Alone(q)
<1>1. r \in Request /\ SameFilters(q, r) /\ r.ids = {} /\ r.predicates = q.predicates
  BY AloneFilters
<1> HIDE DEF r
<1>2. /\ \A id : FactAt(d, id, r) = FactAt(d, id, q)
      /\ FactsSeen(d, r) = FactsSeen(d, q) /\ EpisodesSeen(d, r) = EpisodesSeen(d, q)
      /\ EntitiesSeen(d, r) = EntitiesSeen(d, q)
      /\ \A id : /\ Marked(d, id, r) <=> Marked(d, id, q)
                 /\ TypeMatches(EntityAt(d, id, r), r) <=> TypeMatches(EntityAt(d, id, q), q)
  BY <1>1, SameFiltersSee
<1>3. \A ids : MatchesAnchors(CanonicalIDs(d, r.ids, r), ids)
  BY <1>1, AnyAnchor
<1>4. /\ FactsSeen(d, q) \subseteq DOMAIN d.facts /\ EpisodesSeen(d, q) \subseteq DOMAIN d.episodes
      /\ EntitiesSeen(d, q) \subseteq DOMAIN d.entities
  BY DEF FactsSeen, EpisodesSeen, EntitiesSeen
<1>5. ASSUME NEW id \in FactsSeen(d, q), h = Hit("fact", id),
             q.predicates = {} \/ FactAt(d, id, q).predicate \in q.predicates
      PROVE  h \in AllHits(d) /\ RecordPasses(d, h, r)
  <2>1. h \in AllHits(d)
    BY <1>4, <1>5 DEF AllHits
  <2>2. RecordPasses(d, Hit("fact", id), r)
    BY <1>1, <1>2, <1>3, <1>4, <1>5, FactPasses
  <2> QED BY <1>5, <2>1, <2>2
<1>6. ASSUME NEW id \in DirectEpisodes(d, q), h = Hit("episode", id)
      PROVE  h \in AllHits(d) /\ RecordPasses(d, h, r)
  <2>1. id \in EpisodesSeen(d, q) /\ q.predicates = {}
    BY DEF DirectEpisodes
  <2>2. h \in AllHits(d)
    BY <1>4, <1>6, <2>1 DEF AllHits
  <2>3. RecordPasses(d, Hit("episode", id), r)
    BY <1>1, <1>2, <1>3, <1>4, <2>1, EpisodePasses
  <2> QED BY <1>6, <2>2, <2>3
<1>7. ASSUME NEW id \in DirectEntities(d, q), h = Hit("entity", id)
      PROVE  h \in AllHits(d) /\ RecordPasses(d, h, r)
  <2>1. /\ id \in EntitiesSeen(d, q) /\ q.predicates = {}
        /\ ~Marked(d, id, q) /\ TypeMatches(EntityAt(d, id, q), q)
    BY DEF DirectEntities
  <2>2. h \in AllHits(d)
    BY <1>4, <1>7, <2>1 DEF AllHits
  <2>3. RecordPasses(d, Hit("entity", id), r)
    BY <1>1, <1>2, <1>3, <1>4, <2>1, EntityPasses
  <2> QED BY <1>7, <2>2, <2>3
<1>8. CASE h \in Direct(d, q)
  <2>1. \/ \E id \in DirectFacts(d, q) : h = Hit("fact", id)
        \/ \E id \in DirectEpisodes(d, q) : h = Hit("episode", id)
        \/ \E id \in DirectEntities(d, q) : h = Hit("entity", id)
    BY <1>8 DEF Direct
  <2>2. \A id \in DirectFacts(d, q) :
          /\ id \in FactsSeen(d, q)
          /\ q.predicates = {} \/ FactAt(d, id, q).predicate \in q.predicates
    BY DEF DirectFacts
  <2> QED BY <1>5, <1>6, <1>7, <2>1, <2>2 DEF r
<1> QED BY <1>5, <1>8, SearchSees DEF r

-----------------------------------------------------------------------------
(* What is included beside a page of hits.                                 *)

LEMMA IncludedIsSeen ==
    ASSUME NEW d, NEW q, NEW page
    PROVE  LET included == Included(d, q, page)
           IN  /\ \A id \in included.facts : id \in FactsSeen(d, q) /\ \E h \in page : h.kind = "fact" /\ h.id = id
               /\ included.episodes \subseteq EpisodesSeen(d, q)
               /\ \A id \in included.entities :
                     id \in EntitiesSeen(d, q) /\ ~Marked(d, id, q) /\ TypeMatches(EntityAt(d, id, q), q)
               /\ included.sources \subseteq SourcesSeen(d, q)
BY DEF Included, IncludedWith, IncludedEntities, IDs

LEMMA IncludedPass ==
    ASSUME NEW d, Sound(d), NEW q \in Request
    PROVE  LET included == Included(d, q, Search(d, q))
               alone == Alone(q)
           IN  /\ \A id \in included.facts : RecordPasses(d, Hit("fact", id), alone)
               /\ \A h \in {Hit("episode", id) : id \in included.episodes}
                           \cup {Hit("entity", id) : id \in included.entities} :
                     RecordPasses(d, h, [alone EXCEPT !.predicates = {}])
               /\ \A id \in included.sources : SourceReadable(d, id, q)
<1> DEFINE included == Included(d, q, Search(d, q))
           open == [Alone(q) EXCEPT !.predicates = {}]
<1>1. /\ \A id \in included.facts :
            id \in FactsSeen(d, q) /\ \E h \in Search(d, q) : h.kind = "fact" /\ h.id = id
      /\ included.episodes \subseteq EpisodesSeen(d, q)
      /\ \A id \in included.entities :
            id \in EntitiesSeen(d, q) /\ ~Marked(d, id, q) /\ TypeMatches(EntityAt(d, id, q), q)
      /\ included.sources \subseteq SourcesSeen(d, q)
  BY IncludedIsSeen
<1>2. open \in Request /\ SameFilters(q, open) /\ open.ids = {} /\ open.predicates = {}
  BY AloneFilters
<1> HIDE DEF open, included
<1>3. /\ EpisodesSeen(d, open) = EpisodesSeen(d, q) /\ EntitiesSeen(d, open) = EntitiesSeen(d, q)
      /\ \A id : /\ Marked(d, id, open) <=> Marked(d, id, q)
                 /\ TypeMatches(EntityAt(d, id, open), open) <=> TypeMatches(EntityAt(d, id, q), q)
  BY <1>2, SameFiltersSee
<1>4. \A ids : MatchesAnchors(CanonicalIDs(d, open.ids, open), ids)
  BY <1>2, AnyAnchor
<1>5. ASSUME NEW id \in included.facts PROVE RecordPasses(d, Hit("fact", id), Alone(q))
  <2>1. PICK h \in Search(d, q) : h.kind = "fact" /\ h.id = id
    BY <1>1
  <2>2. h \in AllHits(d) /\ RecordPasses(d, h, Alone(q))
    BY SearchPasses
  <2>3. h = Hit("fact", id)
    BY <2>1, <2>2 DEF AllHits, Hit
  <2> QED BY <2>2, <2>3
<1>6. ASSUME NEW id \in included.episodes PROVE RecordPasses(d, Hit("episode", id), open)
  <2>1. id \in EpisodesSeen(d, q) /\ id \in DOMAIN d.episodes
    BY <1>1 DEF EpisodesSeen
  <2> QED BY <1>2, <1>3, <1>4, <2>1, EpisodePasses
<1>7. ASSUME NEW id \in included.entities PROVE RecordPasses(d, Hit("entity", id), open)
  <2>1. /\ id \in EntitiesSeen(d, q) /\ id \in DOMAIN d.entities
        /\ ~Marked(d, id, q) /\ TypeMatches(EntityAt(d, id, q), q)
    BY <1>1 DEF EntitiesSeen
  <2> QED BY <1>2, <1>3, <1>4, <2>1, EntityPasses
<1>8. \A id \in included.sources : SourceReadable(d, id, q)
  BY <1>1 DEF SourcesSeen
<1> QED BY <1>5, <1>6, <1>7, <1>8 DEF open, included

-----------------------------------------------------------------------------
(* Provenance from both ends.                                              *)

Shown(d, id, q) == FactAt(d, id, q) # None /\ FactAt(d, id, q).space = q.space

LEMMA AssertsFromBothEnds ==
    ASSUME NEW d, NEW q, NEW ep \in EpisodesSeen(d, q), NEW id \in DOMAIN d.facts
    PROVE  Edge("ASSERTS", ep, id) \in EpisodeProvenance(d, ep, q).edges
             <=> Edge("ASSERTS", ep, id) \in FactProvenance(d, id, q).edges
<1> DEFINE asserts == Shown(d, id, q) /\ ep \in FactAt(d, id, q).support
<1>1. \A a, b, s, t, x, y : Edge(s, a, b) = Edge(t, x, y) <=> s = t /\ a = x /\ b = y
  BY DEF Edge
<1>2. EpisodeReadable(d, ep, q) /\ d.episodes[ep].space = q.space
  BY DEF EpisodesSeen
<1>3. Edge("ASSERTS", ep, id) \in EpisodeProvenance(d, ep, q).edges <=> asserts
  BY <1>1, <1>2 DEF EpisodeProvenance, Shown
<1>4. Edge("ASSERTS", ep, id) \in FactProvenance(d, id, q).edges <=> asserts
  <2>1. CASE ~Shown(d, id, q)
    BY <2>1 DEF FactProvenance, Shown, NotFound
  <2>2. CASE Shown(d, id, q)
    BY <1>1, <1>2, <2>2, SMTT(30) DEF FactProvenance, Shown, Supports
  <2> QED BY <2>1, <2>2
<1> QED BY <1>3, <1>4

(* A fact names its successor, or what it replaces, once and for good: a   *)
(* revision names the same, or is from before.                             *)
NamesAreLogged(d) ==
    \A r \in DOMAIN d.factRevisions :
        LET known == d.factRevisions[r].record
            f == d.facts[d.factRevisions[r].fact]
        IN  known.supersededBy \in {None, f.supersededBy} /\ known.supersedes \in {None, f.supersedes}

LEMMA RecordsKeepsNames ==
    ASSUME NEW d, IsDB(d), RevisionsAreGrounded(d), NamesAreLogged(d),
           NEW id, NEW fact, NEW n, NEW e, Records(d, id, fact, n, e),
           id \in DOMAIN d.facts =>
              /\ d.facts[id].supersededBy \in {None, fact.supersededBy}
              /\ d.facts[id].supersedes \in {None, fact.supersedes}
    PROVE  NamesAreLogged(e)
<1> DEFINE new == GeneratedID("factrev", n)
<1>1. /\ new \notin DOMAIN d.factRevisions
      /\ DOMAIN e.factRevisions = DOMAIN d.factRevisions \cup {new}
      /\ e.factRevisions[new] = [fact |-> id, txTime |-> fact.updatedAt, record |-> fact]
      /\ \A r \in DOMAIN d.factRevisions : e.factRevisions[r] = d.factRevisions[r]
      /\ e.facts[id] = fact
      /\ \A x \in DOMAIN d.facts \ {id} : e.facts[x] = d.facts[x]
  BY RecordsMaps
<1> HIDE DEF new
<1>2. \A r \in DOMAIN d.factRevisions : d.factRevisions[r].fact \in DOMAIN d.facts
  BY SMTT(30) DEF RevisionsAreGrounded
<1> SUFFICES ASSUME NEW r \in DOMAIN e.factRevisions
             PROVE  /\ e.factRevisions[r].record.supersededBy
                         \in {None, e.facts[e.factRevisions[r].fact].supersededBy}
                    /\ e.factRevisions[r].record.supersedes
                         \in {None, e.facts[e.factRevisions[r].fact].supersedes}
  BY SMTT(30) DEF NamesAreLogged
<1>3. CASE r = new
  BY <1>1, <1>3, SMTT(30)
<1>4. CASE r # new
  <2>1. r \in DOMAIN d.factRevisions /\ e.factRevisions[r] = d.factRevisions[r]
    BY <1>1, <1>4
  <2>2. /\ d.factRevisions[r].record.supersededBy
             \in {None, d.facts[d.factRevisions[r].fact].supersededBy}
        /\ d.factRevisions[r].record.supersedes
             \in {None, d.facts[d.factRevisions[r].fact].supersedes}
    BY <2>1, SMTT(30) DEF NamesAreLogged
  <2> QED BY <1>1, <1>2, <2>1, <2>2
<1> QED BY <1>3, <1>4

(* A fact leaves the active state in revisions of their own, one for each  *)
(* status, in that order, after every other revision that the fact had; a  *)
(* supersession bears the instant at which the successor was created.      *)
Transition(d, r) ==
    LET v == d.factRevisions[r]
    IN  /\ v.record.createdAt < v.txTime
        /\ \A x \in DOMAIN d.factRevisions \ {r} : d.factRevisions[x].fact = v.fact =>
             \/ d.factRevisions[x].txTime < v.txTime
             \/ /\ v.record.status = "superseded"
                /\ d.factRevisions[x].record.status = "retracted"
                /\ v.txTime < d.factRevisions[x].txTime
        /\ v.record.status = "superseded" =>
             /\ v.record.supersededBy \in DOMAIN d.facts
             /\ d.facts[v.record.supersededBy].createdAt = v.txTime
TransitionsAreLogged(d) ==
    /\ \A r \in DOMAIN d.factRevisions :
          LET v == d.factRevisions[r]
          IN  /\ v.record.status # "active" => Transition(d, r)
              /\ Rank(v.record.status) <= Rank(d.facts[v.fact].status)
    /\ \A id \in DOMAIN d.facts : d.facts[id].supersededBy # None =>
          \E r \in DOMAIN d.factRevisions :
              d.factRevisions[r].fact = id /\ d.factRevisions[r].record.status = "superseded"

(* How a write moves a fact along its lifecycle, if at all.                *)
Transits(d, id, fact) ==
    \/ /\ fact.status = "active" /\ fact.supersededBy = None
       /\ id \in DOMAIN d.facts =>
            d.facts[id].status = "active" /\ fact.createdAt = d.facts[id].createdAt
    \/ /\ id \in DOMAIN d.facts
       /\ fact.createdAt = d.facts[id].createdAt /\ fact.createdAt <= d.facts[id].updatedAt
       /\ d.facts[id].updatedAt < fact.updatedAt
       /\ \/ /\ fact.status = "superseded" /\ d.facts[id].status = "active"
             /\ fact.supersededBy \in DOMAIN d.facts \ {id}
             /\ d.facts[fact.supersededBy].createdAt = fact.updatedAt
          \/ /\ fact.status = "retracted" /\ d.facts[id].status # "retracted"
             /\ fact.supersededBy = d.facts[id].supersededBy

LEMMA RecordsKeepsTransitions ==
    ASSUME NEW d, IsDB(d), RevisionsAreGrounded(d), TransitionsAreLogged(d),
           NEW id, NEW fact, NEW n, NEW e, Records(d, id, fact, n, e), Transits(d, id, fact)
    PROVE  TransitionsAreLogged(e)
<1> DEFINE new == GeneratedID("factrev", n)
<1>1. /\ new \notin DOMAIN d.factRevisions
      /\ DOMAIN e.factRevisions = DOMAIN d.factRevisions \cup {new}
      /\ e.factRevisions[new] = [fact |-> id, txTime |-> fact.updatedAt, record |-> fact]
      /\ \A r \in DOMAIN d.factRevisions : e.factRevisions[r] = d.factRevisions[r]
      /\ DOMAIN e.facts = DOMAIN d.facts \cup {id}
      /\ e.facts[id] = fact
      /\ \A x \in DOMAIN d.facts \ {id} : e.facts[x] = d.facts[x]
      /\ fact \in Fact /\ fact.updatedAt \in Nat /\ fact.createdAt \in Nat
  BY RecordsMaps
<1> HIDE DEF new
<1>2. /\ \A x \in DOMAIN d.facts :
           /\ d.facts[x] \in Fact /\ d.facts[x].createdAt \in Nat /\ d.facts[x].updatedAt \in Nat
      /\ \A r \in DOMAIN d.factRevisions :
           /\ d.factRevisions[r].txTime \in Nat /\ d.factRevisions[r].record \in Fact
           /\ d.factRevisions[r].fact \in DOMAIN d.facts
           /\ d.factRevisions[r].txTime <= d.facts[d.factRevisions[r].fact].updatedAt
  BY StampTypes
<1>3. /\ e.factRevisions[new].fact = id /\ e.factRevisions[new].txTime = fact.updatedAt
      /\ e.factRevisions[new].record = fact
  BY <1>1
<1>4. \A s \in {"active", "superseded", "retracted"} : Rank(s) \in 0..2
  BY DEF Rank
<1>5. \A s, t \in {"active", "superseded", "retracted"} :
        Rank(s) <= Rank(t) <=> s = "active" \/ s = t \/ t = "retracted"
  BY DEF Rank
<1>6. \A f \in Fact : f.status \in {"active", "superseded", "retracted"}
  BY DEF Fact
<1>7. id \in DOMAIN d.facts => Rank(d.facts[id].status) <= Rank(fact.status)
  BY <1>1, <1>2, <1>5, <1>6 DEF Transits
<1>8. ASSUME NEW r \in DOMAIN d.factRevisions
      PROVE  Rank(d.factRevisions[r].record.status) <= Rank(e.facts[d.factRevisions[r].fact].status)
  <2>1. Rank(d.factRevisions[r].record.status) <= Rank(d.facts[d.factRevisions[r].fact].status)
    BY DEF TransitionsAreLogged
  <2>2. CASE d.factRevisions[r].fact = id
    BY <1>1, <1>2, <1>4, <1>6, <1>7, <2>1, <2>2
  <2>3. CASE d.factRevisions[r].fact # id
    BY <1>1, <1>2, <2>1, <2>3
  <2> QED BY <2>2, <2>3
<1>9. \A x \in DOMAIN d.facts : x \in DOMAIN e.facts /\ e.facts[x].createdAt = d.facts[x].createdAt
  BY <1>1 DEF Transits
<1>10. ASSUME NEW r \in DOMAIN d.factRevisions, d.factRevisions[r].record.status # "active"
       PROVE  Transition(e, r)
  <2> DEFINE v == d.factRevisions[r]
  <2>1. Transition(d, r)
    BY <1>10 DEF TransitionsAreLogged
  <2>2. e.factRevisions[r] = v
    BY <1>1
  <2>3. v.record.createdAt < v.txTime
    BY <2>1 DEF Transition
  <2>4. v.record.status = "superseded" =>
           /\ v.record.supersededBy \in DOMAIN e.facts
           /\ e.facts[v.record.supersededBy].createdAt = v.txTime
    BY <1>9, <2>1 DEF Transition
  <2>5. ASSUME v.fact = id
        PROVE  v.record.status = "superseded" /\ fact.status = "retracted" /\ v.txTime < fact.updatedAt
    <3>1. Rank(v.record.status) <= Rank(d.facts[id].status) /\ id \in DOMAIN d.facts
      BY <1>2, <2>5 DEF TransitionsAreLogged
    <3>2. d.facts[id].status # "active"
      BY <1>2, <1>5, <1>6, <1>10, <3>1
    <3>3. /\ fact.status = "retracted" /\ d.facts[id].status # "retracted"
          /\ d.facts[id].updatedAt < fact.updatedAt
      BY <3>1, <3>2 DEF Transits
    <3>4. v.record.status = "superseded"
      BY <1>2, <1>5, <1>6, <1>10, <3>1, <3>3
    <3> QED BY <1>1, <1>2, <2>5, <3>1, <3>3, <3>4
  <2>6. ASSUME NEW x \in DOMAIN e.factRevisions \ {r}, e.factRevisions[x].fact = v.fact
        PROVE  \/ e.factRevisions[x].txTime < v.txTime
               \/ /\ v.record.status = "superseded"
                  /\ e.factRevisions[x].record.status = "retracted"
                  /\ v.txTime < e.factRevisions[x].txTime
    <3>1. CASE x = new
      BY <1>3, <2>5, <2>6, <3>1
    <3>2. CASE x # new
      <4>1. x \in DOMAIN d.factRevisions \ {r} /\ e.factRevisions[x] = d.factRevisions[x]
        BY <1>1, <3>2
      <4> QED BY <2>1, <2>6, <4>1 DEF Transition
    <3> QED BY <3>1, <3>2
  <2> HIDE DEF v
  <2> QED BY <2>2, <2>3, <2>4, <2>6 DEF Transition
<1>11. ASSUME fact.status # "active" PROVE Transition(e, new)
  <2>1. /\ id \in DOMAIN d.facts
        /\ fact.createdAt <= d.facts[id].updatedAt /\ d.facts[id].updatedAt < fact.updatedAt
        /\ fact.status = "superseded" =>
             /\ fact.supersededBy \in DOMAIN d.facts
             /\ d.facts[fact.supersededBy].createdAt = fact.updatedAt
    BY <1>11 DEF Transits
  <2>2. fact.createdAt < fact.updatedAt
    BY <1>1, <1>2, <2>1
  <2>3. ASSUME NEW x \in DOMAIN e.factRevisions \ {new}, e.factRevisions[x].fact = id
        PROVE  e.factRevisions[x].txTime < fact.updatedAt
    <3>1. x \in DOMAIN d.factRevisions /\ e.factRevisions[x] = d.factRevisions[x]
      BY <1>1
    <3>2. d.factRevisions[x].txTime \in Nat /\ d.factRevisions[x].txTime <= d.facts[id].updatedAt
      BY <1>2, <2>3, <3>1
    <3> QED BY <1>1, <1>2, <2>1, <3>1, <3>2
  <2>4. fact.status = "superseded" =>
             /\ fact.supersededBy \in DOMAIN e.facts
             /\ e.facts[fact.supersededBy].createdAt = fact.updatedAt
    BY <1>9, <2>1
  <2> QED BY <1>3, <2>2, <2>3, <2>4 DEF Transition
<1>12. ASSUME NEW x \in DOMAIN e.facts, e.facts[x].supersededBy # None
       PROVE  \E r \in DOMAIN e.factRevisions :
                 e.factRevisions[r].fact = x /\ e.factRevisions[r].record.status = "superseded"
  <2>1. CASE x \in DOMAIN d.facts /\ d.facts[x].supersededBy # None
    <3>1. PICK r \in DOMAIN d.factRevisions :
             d.factRevisions[r].fact = x /\ d.factRevisions[r].record.status = "superseded"
      BY <2>1 DEF TransitionsAreLogged
    <3> QED BY <1>1, <3>1
  <2>2. CASE ~(x \in DOMAIN d.facts /\ d.facts[x].supersededBy # None)
    <3>1. x = id /\ fact.supersededBy # None
      BY <1>1, <1>12, <2>2
    <3>2. fact.status = "superseded"
      BY <2>2, <3>1 DEF Transits
    <3> QED BY <1>1, <1>3, <3>1, <3>2
  <2> QED BY <2>1, <2>2
<1>13. ASSUME NEW r \in DOMAIN e.factRevisions
       PROVE  LET v == e.factRevisions[r]
              IN  /\ v.record.status # "active" => Transition(e, r)
                  /\ Rank(v.record.status) <= Rank(e.facts[v.fact].status)
  <2>1. CASE r = new
    BY <1>1, <1>3, <1>4, <1>6, <1>11, <2>1
  <2>2. CASE r # new
    <3>1. r \in DOMAIN d.factRevisions /\ e.factRevisions[r] = d.factRevisions[r]
      BY <1>1, <2>2
    <3> QED BY <1>8, <1>10, <3>1
  <2> QED BY <2>1, <2>2
<1> QED BY <1>12, <1>13 DEF TransitionsAreLogged

LinksAreLogged(d) == NamesAreLogged(d) /\ TransitionsAreLogged(d)
LinksInv == LinksAreLogged(db) /\ LinksAreLogged(snapshot)

LEMMA RecordsKeepsLinks ==
    ASSUME NEW d, IsDB(d), RevisionsAreGrounded(d), LinksAreLogged(d),
           NEW id, NEW fact, NEW n, NEW e, Records(d, id, fact, n, e), Transits(d, id, fact),
           id \in DOMAIN d.facts =>
              /\ d.facts[id].supersededBy \in {None, fact.supersededBy}
              /\ d.facts[id].supersedes \in {None, fact.supersedes}
    PROVE  LinksAreLogged(e)
BY RecordsKeepsNames, RecordsKeepsTransitions, SMTT(30) DEF LinksAreLogged

LEMMA LinksUnderOtherWrites ==
    ASSUME NEW d, NEW e, LinksAreLogged(d), e.facts = d.facts, e.factRevisions = d.factRevisions
    PROVE  LinksAreLogged(e)
BY DEF LinksAreLogged, NamesAreLogged, TransitionsAreLogged, Transition

LEMMA AssertFactKeepsLinks ==
    ASSUME IInv, LinksInv, AssertFact
    PROVE  LinksAreLogged(db')
<1>1. PICK in, s, n : AssertsFact(in, s, n)
  BY AssertFactStep DEF IInv
<1> DEFINE id == RecordID(in.id, "fact", s)
           fact == NewFact(in, in.single, txTime)
           d == SetSequence(db, s)
<1>2. /\ s \in Nat /\ s >= db.sequence /\ ~IDExists(db, id) /\ Records(d, id, fact, n, db')
      /\ IsDB(db)
  BY <1>1 DEF AssertsFact, IInv, TypeOK
<1>3. IsDB(d) /\ RevisionsAreGrounded(d) /\ d.facts = db.facts /\ d.factRevisions = db.factRevisions
  BY <1>2, SetSequenceFields, SetSequenceKeepsHistory DEF IInv
<1>4. LinksAreLogged(d)
  BY <1>3, LinksUnderOtherWrites DEF LinksInv
<1>5. fact.status = "active" /\ fact.supersededBy = None
  BY DEF NewFact
<1> HIDE DEF id, fact, d
<1>6. id \notin DOMAIN d.facts
  BY <1>2, <1>3 DEF IDExists
<1>7. Transits(d, id, fact)
  BY <1>5, <1>6 DEF Transits
<1> QED BY <1>2, <1>3, <1>4, <1>6, <1>7, RecordsKeepsLinks

LEMMA SupersedeFactKeepsLinks ==
    ASSUME IInv, LineageInv, LinksInv, SupersedeFact
    PROVE  LinksAreLogged(db')
<1>1. PICK old, in, s, a, b, n1, n2, n3 : SupersedesFact(old, in, s, a, b, n1, n2, n3)
  BY SupersedeFactStep DEF IInv
<1> DEFINE new  == RecordID(in.id, "fact", s)
           now  == txTime'
           fact == NewFact(in, FALSE, now)
           gone == Retired(db.facts[old], in, now, new)
           link == Succeeding(fact, old)
           d    == SetSequence(db, s)
<1>2. /\ s \in Nat /\ s >= db.sequence /\ ~IDExists(db, new) /\ in \in FactInputs
      /\ old \in DOMAIN db.facts /\ db.facts[old].status = "active"
      /\ now = StrictlyAfter(txTime, db.facts[old].updatedAt)
      /\ Records(d, new, fact, n1, a) /\ Records(a, old, gone, n2, b) /\ Records(b, new, link, n3, db')
  BY <1>1 DEF SupersedesFact, FactAccepted
<1>3. IsDB(db) /\ IsDB(d) /\ IsDB(a) /\ IsDB(b) /\ now \in Nat
  BY <1>1, SupersedesIsDB DEF IInv, TypeOK
<1>4. d.facts = db.facts /\ d.factRevisions = db.factRevisions
  BY <1>2, <1>3, SetSequenceFields, SMTT(30)
<1>5. /\ db.facts[old] \in Fact /\ db.facts[old].updatedAt \in Nat /\ txTime \in Nat
      /\ db.facts[old].supersededBy = None
      /\ ValidInterval(db.facts[old].validFrom, db.facts[old].validTo)
  <2>1. db.facts[old] \in Fact
    BY <1>2, <1>3 DEF IsDB, IsMap
  <2> QED BY <1>2, <2>1 DEF Fact, IInv, TypeOK, LineageInv, LineageHolds, Lineage
<1>6. now > db.facts[old].updatedAt
  BY <1>2, <1>5, StrictlyAfterFacts
<1>7. /\ fact.supersedes = None /\ fact.supersededBy = None /\ fact.status = "active"
      /\ fact.createdAt = now
      /\ link.supersededBy = None /\ link.status = "active" /\ link.createdAt = now
  BY DEF NewFact, Succeeding
<1>8. /\ KeepsPlace(db.facts[old], gone) /\ gone.updatedAt = now
      /\ gone.status = "superseded" /\ gone.supersededBy = new
  BY <1>2, <1>5, RetiredFields
<1>9. old # new /\ new \notin DOMAIN db.facts
  BY <1>2 DEF IDExists
<1>10. RevisionsAreGrounded(d) /\ LinksAreLogged(d)
  <2>1. RevisionsAreGrounded(d)
    BY <1>2, <1>3, SetSequenceKeepsHistory DEF IInv
  <2> QED BY <1>4, <2>1, LinksUnderOtherWrites DEF LinksInv
<1> HIDE DEF new, now, fact, gone, link, d
<1>11. a.facts = Put(db.facts, new, fact) /\ b.facts = Put(a.facts, old, gone)
  BY <1>2, <1>3, <1>4, RecordsFields
<1>12. /\ a.facts[old] = db.facts[old] /\ old \in DOMAIN a.facts
       /\ new \in DOMAIN a.facts /\ a.facts[new] = fact /\ b.facts[new] = fact
  BY <1>2, <1>9, <1>11 DEF Put
<1>13. RevisionsAreGrounded(a) /\ LinksAreLogged(a)
  <2>1. RevisionsAreGrounded(a)
    BY <1>2, <1>3, <1>4, <1>9, <1>10, RecordsKeepsRevisionsGrounded
  <2>2. Transits(d, new, fact)
    BY <1>4, <1>7, <1>9 DEF Transits
  <2> QED BY <1>2, <1>3, <1>4, <1>9, <1>10, <2>1, <2>2, RecordsKeepsLinks
<1>14. RevisionsAreGrounded(b) /\ LinksAreLogged(b)
  <2>1. a.facts[old].updatedAt <= gone.updatedAt
    BY <1>3, <1>5, <1>6, <1>8, <1>12
  <2>2. RevisionsAreGrounded(b)
    BY <1>2, <1>3, <1>13, <2>1, RecordsKeepsRevisionsGrounded
  <2>3. /\ a.facts[old].supersededBy \in {None, gone.supersededBy}
        /\ a.facts[old].supersedes \in {None, gone.supersedes}
    BY <1>5, <1>8, <1>12 DEF KeepsPlace
  <2>4. gone.createdAt = db.facts[old].createdAt
    BY <1>8 DEF KeepsPlace
  <2>5. db.facts[old].createdAt <= db.facts[old].updatedAt
    BY <1>2 DEF IInv, FactsAreLogged
  <2>6. Transits(a, old, gone)
    BY <1>2, <1>6, <1>7, <1>8, <1>9, <1>12, <2>4, <2>5 DEF Transits
  <2> QED BY <1>2, <1>3, <1>13, <2>2, <2>3, <2>6, RecordsKeepsLinks
<1>15. /\ b.facts[new].supersededBy \in {None, link.supersededBy}
       /\ b.facts[new].supersedes \in {None, link.supersedes}
  BY <1>7, <1>12
<1>16. Transits(b, new, link)
  BY <1>7, <1>12 DEF Transits
<1> QED BY <1>2, <1>3, <1>14, <1>15, <1>16, RecordsKeepsLinks

LEMMA RetractFactKeepsLinks ==
    ASSUME IInv, LinksInv, RetractFact
    PROVE  LinksAreLogged(db')
<1>1. CASE db' = db
  BY <1>1 DEF LinksInv
<1>2. CASE db' # db
  <2>1. PICK id, n : RetractsFact(id, n)
    BY <1>2, RetractFactStep DEF IInv
  <2> DEFINE now  == StrictlyAfter(txTime, db.facts[id].updatedAt)
             gone == Retracted(db.facts[id], now)
  <2>2. /\ id \in DOMAIN db.facts /\ Records(db, id, gone, n, db')
        /\ IsDB(db) /\ RevisionsAreGrounded(db) /\ LinksAreLogged(db)
    BY <2>1 DEF RetractsFact, IInv, TypeOK, LinksInv
  <2>3. db.facts[id] \in Fact
    BY <2>2 DEF IsDB, IsMap
  <2>4. /\ db.facts[id].status # "retracted" /\ db.facts[id].updatedAt < now
        /\ db.facts[id].createdAt <= db.facts[id].updatedAt
    <3>1. txTime \in Nat /\ db.facts[id].updatedAt \in Nat
      BY <2>3 DEF Fact, IInv, TypeOK
    <3>2. now > db.facts[id].updatedAt
      BY <3>1, StrictlyAfterFacts
    <3> QED BY <2>1, <2>2, <3>1, <3>2 DEF RetractsFact, IInv, FactsAreLogged
  <2> HIDE DEF now
  <2>5. /\ gone.supersededBy = db.facts[id].supersededBy /\ gone.supersedes = db.facts[id].supersedes
        /\ gone.status = "retracted" /\ gone.createdAt = db.facts[id].createdAt
        /\ gone.updatedAt = now
    BY <2>3 DEF Retracted, Fact
  <2> HIDE DEF gone
  <2>6. Transits(db, id, gone)
    BY <2>2, <2>4, <2>5 DEF Transits
  <2> QED BY <2>2, <2>5, <2>6, RecordsKeepsLinks
<1> QED BY <1>1, <1>2

LEMMA LinksStep ==
    ASSUME IInv, LineageInv, LinksInv, [Next]_vars
    PROVE  LinksInv'
<1>1. CASE Tick \/ BeginMutation \/ Abort \/ Commit
  BY <1>1 DEF Tick, BeginMutation, Abort, Commit, LinksInv
<1>2. CASE IngestEpisode
  <2>1. db'.facts = db.facts /\ db'.factRevisions = db.factRevisions
    BY <1>2, IngestEpisodeStep DEF IInv, IngestsEpisode
  <2> QED BY <1>2, <2>1, LinksUnderOtherWrites DEF IngestEpisode, LinksInv
<1>3. CASE UpsertEntity
  <2>1. db'.facts = db.facts /\ db'.factRevisions = db.factRevisions
    BY <1>3, UpsertEntityStep DEF IInv, UpsertsEntity
  <2> QED BY <1>3, <2>1, LinksUnderOtherWrites DEF UpsertEntity, LinksInv
<1>4. CASE AssertFact
  BY <1>4, AssertFactKeepsLinks DEF AssertFact, LinksInv
<1>5. CASE SupersedeFact
  <2>1. LinksAreLogged(db')
    BY <1>5, SupersedeFactKeepsLinks
  <2>2. snapshot' = snapshot
    BY <1>5 DEF SupersedeFact
  <2> QED BY <2>1, <2>2 DEF LinksInv
<1>6. CASE RetractFact
  BY <1>6, RetractFactKeepsLinks DEF RetractFact, LinksInv
<1>7. CASE UNCHANGED vars
  BY <1>7 DEF vars, LinksInv
<1> QED BY <1>1, <1>2, <1>3, <1>4, <1>5, <1>6, <1>7 DEF Next

LEMMA LinksInvariance == Spec => []LinksInv
<1>1. Init => LinksInv
  BY DEF Init, LinksInv, LinksAreLogged, NamesAreLogged, TransitionsAreLogged, EmptyDB
<1> QED BY <1>1, InvariantHolds, LineageInvariance, LinksStep, PTL DEF Spec

(* Where both facts can be read, one replaced the other or did not,        *)
(* whichever of them tells.                                                *)
LEMMA LinkedFromBothEnds ==
    ASSUME NEW d, Sound(d), LinksAreLogged(d), NEW q \in Request,
           NEW id \in DOMAIN d.facts, NEW next \in DOMAIN d.facts,
           FactAt(d, id, q) # None, FactAt(d, next, q) # None
    PROVE  FactAt(d, id, q).supersededBy = next
             <=> FactAt(d, next, q).supersedes = id \/ d.facts[id].supersededBy = next
<1>1. /\ IsDB(d) /\ RevisionsAreGrounded(d) /\ FactsAreLogged(d) /\ ChainsAreLogged(d)
      /\ Lineage(d.facts) /\ q.asOf \in Nat /\ None \notin DOMAIN d.facts
  BY InputAssumption DEF Sound, LineageHolds, Request, IsDB, IsMap
<1>2. d.facts[next].supersedes = id => d.facts[id].supersededBy = next
  BY <1>1 DEF Lineage
<1>3. CASE q.asOf = 0
  <2>1. FactAt(d, id, q) = d.facts[id] /\ FactAt(d, next, q) = d.facts[next]
    BY <1>3 DEF FactAt, IfVisible
  <2> QED BY <1>2, <2>1
<1>4. CASE q.asOf # 0
  <2> DEFINE at == q.asOf
  <2>1. FactAt(d, id, q) = FactVersionAt(d, id, at) /\ FactAt(d, next, q) = FactVersionAt(d, next, at)
    BY <1>4 DEF FactAt, IfVisible
  <2>2. /\ d.facts[id].createdAt \in Nat /\ d.facts[next].createdAt \in Nat
        /\ \A r \in DOMAIN d.factRevisions : d.factRevisions[r].txTime \in Nat
    BY <1>1, StampTypes
  <2> HIDE DEF at
  <2>3. at \in Nat
    BY <1>1 DEF at
  <2>4. at >= d.facts[id].createdAt /\ at >= d.facts[next].createdAt
    BY <1>1, <2>1, <2>2, <2>3, CutReadsALast
  <2>5. PICK r \in DOMAIN d.factRevisions :
          /\ d.factRevisions[r].fact = id /\ d.factRevisions[r].txTime <= at
          /\ FactAt(d, id, q) = d.factRevisions[r].record
          /\ \A x \in DOMAIN d.factRevisions :
                d.factRevisions[x].fact = id /\ d.factRevisions[x].txTime <= at
                  => d.factRevisions[x].txTime <= d.factRevisions[r].txTime
    BY <1>1, <2>1, <2>3, <2>4, CutReadsALast
  <2>6. PICK s \in DOMAIN d.factRevisions :
          d.factRevisions[s].fact = next /\ FactAt(d, next, q) = d.factRevisions[s].record
    BY <1>1, <2>1, <2>3, <2>4, CutReadsALast
  <2>7. FactAt(d, id, q).supersededBy = next => d.facts[id].supersededBy = next
    BY <1>1, <2>5 DEF LinksAreLogged, NamesAreLogged
  <2>8. FactAt(d, next, q).supersedes = id => d.facts[next].supersedes = id
    BY <1>1, <2>6 DEF LinksAreLogged, NamesAreLogged
  <2>9. ASSUME d.facts[id].supersededBy = next PROVE FactAt(d, id, q).supersededBy = next
    <3>1. PICK x \in DOMAIN d.factRevisions :
            d.factRevisions[x].fact = id /\ d.factRevisions[x].txTime = d.facts[next].createdAt
      BY <1>1, <2>9 DEF ChainsAreLogged, SupersessionIsLogged
    <3>2. d.facts[next].createdAt <= d.factRevisions[r].txTime
      BY <2>4, <2>5, <3>1
    <3> QED BY <1>1, <2>5, <2>9, <3>2 DEF ChainsAreLogged, SupersessionIsLogged
  <2> QED BY <1>2, <2>7, <2>8, <2>9
<1> QED BY <1>3, <1>4

LEMMA SupersedesFromBothEnds ==
    ASSUME NEW d, Sound(d), LinksAreLogged(d), NEW q \in Request,
           NEW id \in DOMAIN d.facts, NEW next \in DOMAIN d.facts
    PROVE  Edge("SUPERSEDES", next, id) \in FactProvenance(d, id, q).edges
             <=> Edge("SUPERSEDES", next, id) \in FactProvenance(d, next, q).edges
<1>1. \A a, b, s, t, x, y : Edge(s, a, b) = Edge(t, x, y) <=> s = t /\ a = x /\ b = y
  BY DEF Edge
<1>2. CASE next = id
  BY <1>2
<1>3. CASE next # id
  <2> DEFINE seen == /\ Shown(d, id, q) /\ Shown(d, next, q)
             named == FactAt(d, id, q).supersededBy = next
             names == FactAt(d, next, q).supersedes = id \/ d.facts[id].supersededBy = next
  <2>1. \A x \in DOMAIN d.facts :
          FactAt(d, x, q) # None => (FactAt(d, x, q).space = q.space <=> d.facts[x].space = q.space)
    BY FactReadInPlace DEF SameStatement
  <2>2. Edge("SUPERSEDES", next, id) \in FactProvenance(d, id, q).edges <=> seen /\ named
    <3>1. CASE ~Shown(d, id, q)
      BY <3>1 DEF FactProvenance, Shown, NotFound
    <3>2. CASE Shown(d, id, q)
      <4>1. Edge("SUPERSEDES", next, id) \in FactProvenance(d, id, q).edges
              <=> next \in Successors(d, FactAt(d, id, q), q)
        BY <1>1, <1>3, <3>2 DEF FactProvenance, Shown
      <4> QED BY <2>1, <3>2, <4>1 DEF Successors, Shown
    <3> QED BY <3>1, <3>2
  <2>3. Edge("SUPERSEDES", next, id) \in FactProvenance(d, next, q).edges <=> seen /\ names
    <3>1. CASE ~Shown(d, next, q)
      BY <3>1 DEF FactProvenance, Shown, NotFound
    <3>2. CASE Shown(d, next, q)
      <4>1. Edge("SUPERSEDES", next, id) \in FactProvenance(d, next, q).edges
              <=> id \in Predecessors(d, next, FactAt(d, next, q), q)
        BY <1>1, <1>3, <3>2 DEF FactProvenance, Shown
      <4> QED BY <2>1, <3>2, <4>1 DEF Predecessors, Shown
    <3> QED BY <3>1, <3>2
  <2>4. seen => (named <=> names)
    BY LinkedFromBothEnds DEF Shown
  <2> QED BY <2>2, <2>3, <2>4
<1> QED BY <1>2, <1>3

(* What is included beside a page can be read alone, the exported filter   *)
(* accepts what the search finds, and provenance reads the same from both  *)
(* ends (includes.go, search.go, graph.go).                                *)
THEOREM RoutesAgree == QueriesSpec => []EveryRouteAgrees
<1>1. IInv /\ UniqueInv /\ LineageInv /\ PlacesInv => Sound(db)
  BY DEF IInv, TypeOK, UniqueInv, LineageInv, PlacesInv, Sound
<1>2. ASSUME Sound(db), LinksInv PROVE EveryRouteAgrees
  <2>1. LinksAreLogged(db) /\ Requests.search \subseteq Request /\ Requests.graph \subseteq Request
    BY <1>2, RequestAssumption DEF LinksInv
  <2>2. IncludedRecordsAreReadable
    <3> SUFFICES ASSUME NEW q \in Requests.search
                 PROVE  ReadableAlone(Included(db, q, Search(db, q)), q)
      BY DEF IncludedRecordsAreReadable
    <3> DEFINE included == Included(db, q, Search(db, q))
    <3>1. /\ \A id \in included.facts : RecordPasses(db, Hit("fact", id), Alone(q))
          /\ \A h \in {Hit("episode", id) : id \in included.episodes}
                      \cup {Hit("entity", id) : id \in included.entities} :
                RecordPasses(db, h, [Alone(q) EXCEPT !.predicates = {}])
          /\ \A id \in included.sources : SourceReadable(db, id, q)
      BY <1>2, <2>1, IncludedPass
    <3> HIDE DEF included
    <3>2. ReadableAlone(included, q)
      BY <3>1 DEF ReadableAlone, Alone
    <3> QED BY <3>2 DEF included
  <2>3. FilterAgreesWithSearch
    <3> SUFFICES ASSUME NEW q \in Requests.search
                 PROVE  /\ Direct(db, q) =
                             {h \in AllHits(db) :
                                h.kind \in q.kinds /\ RecordPasses(db, h, q) /\ MatchesText(db, h, q)}
                        /\ \A h \in Search(db, q) : RecordPasses(db, h, [q EXCEPT !.ids = {}])
      BY DEF FilterAgreesWithSearch
    <3>1. q \in Request
      BY <2>1
    <3>2. Direct(db, q) =
             {h \in AllHits(db) :
                h.kind \in q.kinds /\ RecordPasses(db, h, q) /\ MatchesText(db, h, q)}
      BY <1>2, <3>1, SearchedAndFiltered
    <3>3. \A h \in Search(db, q) : RecordPasses(db, h, Alone(q))
      BY <1>2, <3>1, SearchPasses
    <3> QED BY <3>2, <3>3 DEF Alone
  <2>4. ProvenanceAgreesFromBothEnds
    <3> SUFFICES ASSUME NEW q \in Requests.graph
                 PROVE  /\ \A ep \in EpisodesSeen(db, q), id \in DOMAIN db.facts :
                              Edge("ASSERTS", ep, id) \in EpisodeProvenance(db, ep, q).edges
                                <=> Edge("ASSERTS", ep, id) \in FactProvenance(db, id, q).edges
                        /\ \A id, next \in DOMAIN db.facts :
                              Edge("SUPERSEDES", next, id) \in FactProvenance(db, id, q).edges
                                <=> Edge("SUPERSEDES", next, id) \in FactProvenance(db, next, q).edges
      BY DEF ProvenanceAgreesFromBothEnds
    <3>1. q \in Request
      BY <2>1
    <3> QED BY <1>2, <2>1, <3>1, AssertsFromBothEnds, SupersedesFromBothEnds
  <2> QED BY <2>2, <2>3, <2>4 DEF EveryRouteAgrees
<1>3. Spec => []UniqueInv
  BY TypeCorrect, UniqueInit, UniqueStep, PTL DEF Spec
<1>4. Spec => []EveryRouteAgrees
  BY <1>1, <1>2, <1>3, InvariantHolds, LineageInvariance, PlacesInvariance, LinksInvariance, PTL
<1> QED BY <1>4, QueriesAreReads, PTL

-----------------------------------------------------------------------------
(* Sorting.                                                                *)

StrictlyOrders(order, S) ==
    /\ \A x \in S : <<x, x>> \notin order
    /\ \A x, y, z \in S : <<x, y>> \in order /\ <<y, z>> \in order => <<x, z>> \in order
    /\ \A x, y \in S : x # y => <<x, y>> \in order \/ <<y, x>> \in order

(* The members of S, each once, in order.                                  *)
Lists(s, n, S, order) ==
    /\ n \in Nat /\ s \in [1..n -> S]
    /\ \A x \in S : \E i \in 1..n : s[i] = x
    /\ \A i, j \in 1..n : i < j => <<s[i], s[j]>> \in order

(* Sorted lists a finite set (sort.Slice by a strict order).               *)
LEMMA SortedLists ==
    ASSUME NEW S, IsFiniteSet(S), NEW order, StrictlyOrders(order, S)
    PROVE  Lists(Sorted(S, order), Cardinality(S), S, order)
<1> DEFINE before == [x \in S |-> {y \in S : <<y, x>> \in order}]
           rank == [x \in S |-> Cardinality(before[x])]
           n == Cardinality(S)
           s == Sorted(S, order)
<1>1. n \in Nat
  BY FS_CardinalityType
<1>2. ASSUME NEW x \in S
      PROVE  IsFiniteSet(before[x]) /\ rank[x] \in Nat /\ rank[x] < n
  <2>1. before[x] \subseteq S /\ x \notin before[x]
    BY DEF StrictlyOrders
  <2>2. before[x] # S
    BY <2>1
  <2> HIDE DEF before
  <2>3. IsFiniteSet(before[x]) /\ Cardinality(before[x]) <= n
        /\ (Cardinality(before[x]) = n => before[x] = S)
    BY <2>1, FS_Subset
  <2>4. Cardinality(before[x]) \in Nat
    BY <2>3, FS_CardinalityType
  <2>5. rank[x] = Cardinality(before[x])
    OBVIOUS
  <2> HIDE DEF n, rank
  <2> QED BY <1>1, <2>2, <2>3, <2>4, <2>5
<1>3. ASSUME NEW x \in S, NEW y \in S, <<x, y>> \in order
      PROVE  rank[x] < rank[y]
  <2>1. before[x] \subseteq before[y] /\ x \in before[y] /\ x \notin before[x]
    BY <1>3 DEF StrictlyOrders
  <2>2. /\ rank[x] = Cardinality(before[x]) /\ rank[y] = Cardinality(before[y])
        /\ IsFiniteSet(before[y]) /\ rank[x] \in Nat /\ rank[y] \in Nat
    BY <1>2
  <2> HIDE DEF before, rank, n
  <2>3. Cardinality(before[x]) <= Cardinality(before[y])
        /\ (Cardinality(before[x]) = Cardinality(before[y]) => before[x] = before[y])
    BY <2>1, <2>2, FS_Subset
  <2> QED BY <2>1, <2>2, <2>3
<1> DEFINE ranked(i) == CHOOSE x \in S : rank[x] = i - 1
           placed(i) == CHOOSE x \in S : Cardinality({y \in S : <<y, x>> \in order}) = i - 1
<1>4. s = [i \in 1..n |-> ranked(i)]
  <2>1. \A x \in S : rank[x] = Cardinality({y \in S : <<y, x>> \in order})
    OBVIOUS
  <2>2. s = [i \in 1..n |-> placed(i)]
    BY Zenon DEF Sorted
  <2> HIDE DEF rank, before, n, s
  <2>3. \A i : ranked(i) = placed(i)
    BY <2>1
  <2> HIDE DEF ranked, placed
  <2> QED BY <2>2, <2>3
<1> HIDE DEF before, n, s
<1>5. \A x \in S : Cardinality(before[x]) \in 0..(n - 1)
  BY <1>1, <1>2
<1>6. rank \in [S -> 0..(n - 1)]
  BY <1>5
<1> HIDE DEF rank
<1>7. \A x, y \in S : rank[x] < rank[y] => <<x, y>> \in order
  <2> TAKE x \in S, y \in S
  <2> HAVE rank[x] < rank[y]
  <2>1. rank[x] \in Nat /\ rank[y] \in Nat
    BY <1>2
  <2>2. x # y
    BY <2>1
  <2>3. ~(<<y, x>> \in order)
    BY <1>3, <2>1
  <2> QED BY <2>2, <2>3 DEF StrictlyOrders
<1>8. rank \in Injection(S, 0..(n - 1))
  <2>1. \A x, y \in S : rank[x] = rank[y] => x = y
    <3> TAKE x \in S, y \in S
    <3> HAVE rank[x] = rank[y]
    <3>1. rank[x] \in Nat /\ rank[y] \in Nat
      BY <1>2
    <3>2. ~(<<x, y>> \in order) /\ ~(<<y, x>> \in order)
      BY <1>3, <3>1
    <3> QED BY <3>2 DEF StrictlyOrders
  <2> QED BY <1>6, <2>1 DEF Injection, IsInjective
<1>9. rank \in Surjection(S, 0..(n - 1))
  <2>1. IsFiniteSet(0..(n - 1)) /\ Cardinality(0..(n - 1)) = n
    <3>1. 0 \in Int /\ n - 1 \in Int /\ (0 > n - 1 => n = 0)
      BY <1>1
    <3>2. Cardinality(0..(n - 1)) = IF 0 > n - 1 THEN 0 ELSE (n - 1) - 0 + 1
      BY <3>1, FS_Interval
    <3>3. IsFiniteSet(0..(n - 1))
      BY <3>1, FS_Interval
    <3> QED BY <1>1, <3>1, <3>2, <3>3
  <2> QED BY <1>8, <2>1, FS_Injection DEF n
<1>10. ASSUME NEW i \in 1..n
       PROVE  s[i] \in S /\ rank[s[i]] = i - 1
  <2>1. i - 1 \in 0..(n - 1)
    BY <1>1
  <2>2. \E x \in S : rank[x] = i - 1
    BY <1>9, <2>1 DEF Surjection
  <2>3. s[i] = CHOOSE x \in S : rank[x] = i - 1
    BY <1>4
  <2> QED BY <2>2, <2>3
<1>11. s \in [1..n -> S]
  BY <1>4, <1>10
<1>12. ASSUME NEW x \in S PROVE \E i \in 1..n : s[i] = x
  <2> DEFINE i == rank[x] + 1
  <2>1. rank[x] \in Nat /\ rank[x] < n
    BY <1>2
  <2>2. i \in 1..n /\ i - 1 = rank[x]
    BY <1>1, <2>1
  <2>3. s[i] \in S /\ rank[s[i]] = rank[x]
    BY <1>10, <2>2
  <2>4. s[i] = x
    BY <1>8, <2>3 DEF Injection, IsInjective
  <2> QED BY <2>2, <2>4
<1>13. ASSUME NEW i \in 1..n, NEW j \in 1..n, i < j PROVE <<s[i], s[j]>> \in order
  <2>1. rank[s[i]] < rank[s[j]]
    BY <1>1, <1>10, <1>13
  <2> QED BY <1>7, <1>10, <2>1
<1> QED BY <1>1, <1>11, <1>12, <1>13 DEF Lists, s, n

(* There is one such list.                                                 *)
LEMMA ListsAgree ==
    ASSUME NEW S, NEW order, StrictlyOrders(order, S),
           NEW s, NEW n, Lists(s, n, S, order), NEW t, NEW m, Lists(t, m, S, order)
    PROVE  n = m /\ s = t
<1>1. /\ n \in Nat /\ s \in [1..n -> S] /\ m \in Nat /\ t \in [1..m -> S]
      /\ \A x \in S : (\E i \in 1..n : s[i] = x) /\ \E i \in 1..m : t[i] = x
      /\ \A i, j \in 1..n : i < j => <<s[i], s[j]>> \in order
      /\ \A i, j \in 1..m : i < j => <<t[i], t[j]>> \in order
  BY DEF Lists
<1>2. /\ \A x, y \in S : <<x, y>> \in order => x # y /\ <<y, x>> \notin order
  BY DEF StrictlyOrders
<1>3. \A i \in 1..n : i \in 1..m /\ s[i] = t[i]
  <2> DEFINE Bad == {i \in 1..n : ~(i \in 1..m /\ s[i] = t[i])}
  <2> SUFFICES ASSUME Bad # {} PROVE FALSE
    OBVIOUS
  <2>1. Bad \subseteq Nat
    BY <1>1
  <2> HIDE DEF Bad
  <2>2. PICK k \in Bad : \A i \in Bad : k <= i
    BY <2>1, LeastNumber
  <2>3. k \in 1..n /\ ~(k \in 1..m /\ s[k] = t[k])
    BY DEF Bad
  <2>4. \A i \in 1..(k - 1) : i \in 1..m /\ s[i] = t[i]
    BY <1>1, <2>1, <2>2, <2>3 DEF Bad
  <2>5. s[k] \in S
    BY <1>1, <2>3
  <2>6. PICK j \in 1..m : t[j] = s[k]
    BY <1>1, <2>5
  <2>7. ~(j < k)
    <3> SUFFICES ASSUME j < k PROVE FALSE
      OBVIOUS
    <3>1. j \in 1..(k - 1) /\ j \in 1..n
      BY <1>1, <2>3
    <3>2. s[j] = s[k] /\ <<s[j], s[k]>> \in order
      BY <1>1, <2>3, <2>4, <2>6, <3>1
    <3> QED BY <1>2, <2>5, <3>2
  <2>8. k \in 1..m /\ k < j
    BY <1>1, <2>3, <2>6, <2>7
  <2>9. t[k] \in S
    BY <1>1, <2>8
  <2>10. PICK l \in 1..n : s[l] = t[k]
    BY <1>1, <2>9
  <2>11. ~(l < k)
    <3> SUFFICES ASSUME l < k PROVE FALSE
      OBVIOUS
    <3>1. l \in 1..(k - 1) /\ l \in 1..m
      BY <1>1, <2>3, <2>8
    <3>2. t[l] = t[k] /\ <<t[l], t[k]>> \in order
      BY <1>1, <2>4, <2>8, <2>10, <3>1
    <3> QED BY <1>2, <2>9, <3>2
  <2>12. k < l
    BY <1>1, <2>3, <2>8, <2>10, <2>11
  <2>13. <<t[k], s[k]>> \in order /\ <<s[k], t[k]>> \in order
    BY <1>1, <2>3, <2>6, <2>8, <2>10, <2>12
  <2> QED BY <1>2, <2>5, <2>9, <2>13
<1>4. ~(n < m)
  <2> SUFFICES ASSUME n < m PROVE FALSE
    OBVIOUS
  <2>1. m \in 1..m /\ t[m] \in S
    BY <1>1
  <2>2. PICK i \in 1..n : s[i] = t[m]
    BY <1>1, <2>1
  <2>3. i \in 1..m /\ i < m /\ t[i] = t[m]
    BY <1>1, <1>3, <2>2
  <2> QED BY <1>1, <1>2, <2>1, <2>3
<1>5. n = m
  <2>1. n <= m
    <3>1. CASE n = 0
      BY <1>1, <3>1
    <3>2. CASE n # 0
      BY <1>1, <1>3, <3>2
    <3> QED BY <3>1, <3>2
  <2> QED BY <1>1, <1>4, <2>1
<1> QED BY <1>1, <1>3, <1>5

(* A part of a list, by the places it stands at, lists that part.          *)
LEMMA PartLists ==
    ASSUME NEW S, NEW order, NEW s, NEW n, Lists(s, n, S, order), NEW T \in SUBSET S
    PROVE  \E m : Lists(At(s, Places({i \in DOMAIN s : s[i] \in T})), m, T, order)
<1> DEFINE mine == {i \in DOMAIN s : s[i] \in T}
           less == {p \in mine \X mine : p[1] < p[2]}
           places == Places(mine)
           m == Cardinality(mine)
           part == At(s, places)
<1>1. /\ n \in Nat /\ s \in [1..n -> S]
      /\ \A x \in S : \E i \in 1..n : s[i] = x
      /\ \A i, j \in 1..n : i < j => <<s[i], s[j]>> \in order
  BY DEF Lists
<1>2. mine \subseteq 1..n /\ mine = {i \in 1..n : s[i] \in T}
  BY <1>1
<1>3. IsFiniteSet(mine)
  <2>1. 1 \in Int /\ n \in Int
    BY <1>1
  <2>2. IsFiniteSet(1..n)
    BY <2>1, FS_Interval
  <2> QED BY <1>2, <2>2, FS_Subset
<1> HIDE DEF mine
<1>4. \A x, y \in mine : <<x, y>> \in less <=> x < y
  OBVIOUS
<1> HIDE DEF less
<1>5. StrictlyOrders(less, mine)
  <2>1. \A x \in mine : x \in Int
    BY <1>1, <1>2
  <2> QED BY <1>4, <2>1 DEF StrictlyOrders
<1>6. Lists(places, m, mine, less)
  BY <1>3, <1>5, SortedLists DEF Places, less
<1> HIDE DEF places, m
<1>7. /\ m \in Nat /\ places \in [1..m -> mine]
      /\ \A i \in mine : \E k \in 1..m : places[k] = i
      /\ \A k, l \in 1..m : k < l => places[k] < places[l]
  BY <1>4, <1>6 DEF Lists
<1>8. part = [k \in 1..m |-> s[places[k]]]
  BY <1>7 DEF At
<1>9. \A k \in 1..m : places[k] \in 1..n /\ s[places[k]] \in T
  BY <1>2, <1>7
<1> HIDE DEF part
<1>10. part \in [1..m -> T]
  BY <1>8, <1>9
<1>11. ASSUME NEW x \in T PROVE \E k \in 1..m : part[k] = x
  <2>1. PICK i \in 1..n : s[i] = x
    BY <1>1
  <2>2. i \in mine
    BY <1>2, <2>1
  <2> QED BY <1>7, <1>8, <2>1, <2>2
<1>12. ASSUME NEW k \in 1..m, NEW l \in 1..m, k < l PROVE <<part[k], part[l]>> \in order
  BY <1>1, <1>7, <1>8, <1>9, <1>12
<1>13. Lists(part, m, T, order)
  BY <1>7, <1>10, <1>11, <1>12 DEF Lists
<1> QED BY <1>13 DEF part, places, mine

-----------------------------------------------------------------------------
(* The events of a timeline.                                               *)

OnlyACut(q) ==
    /\ q.ids = {} /\ q.kinds = {} /\ q.statuses = {} /\ q.types = {} /\ q.sources = {}
    /\ q.validAt = 0 /\ q.validFrom = 0 /\ q.validTo = 0
    /\ q.observedFrom = 0 /\ q.observedTo = 0

Chronicled(d) ==
    /\ Sound(d) /\ LinksAreLogged(d) /\ IsFinite(d)
    /\ \A r \in DOMAIN d.factRevisions : IsStamped(d.factRevisions[r])

WithinCut(at, q) == q.asOf # 0 => at <= q.asOf

(* The timeline reads facts of every status.                               *)
LEMMA InactiveToo ==
    ASSUME NEW q \in Request, OnlyACut(q)
    PROVE  LET w == WithInactive(q)
           IN  w \in Request /\ OnlyACut(w) /\ w.asOf = q.asOf /\ w.space = q.space /\ w.inactive
BY DEF WithInactive, Request, OnlyACut

(* Such a request sees a version by its creation alone, whenever it was    *)
(* observed.                                                               *)
LEMMA VisibleInCut ==
    ASSUME NEW q \in Request, OnlyACut(q), q.inactive, NEW f
    PROVE  FactVisible(f, q) <=> WithinCut(f.createdAt, q)
<1>1. (\A at : Observable(at, q)) /\ DomainValid(f, q)
  BY DEF OnlyACut, Observable, DomainValid
<1> QED BY <1>1, Zenon DEF FactVisible, WithinCut

(* A fact is seen from its creation on.                                    *)
LEMMA SeenInCut ==
    ASSUME NEW d, Sound(d), NEW q \in Request, OnlyACut(q), q.inactive, NEW id \in DOMAIN d.facts
    PROVE  /\ id \in FactsSeen(d, q) <=> d.facts[id].space = q.space /\ WithinCut(d.facts[id].createdAt, q)
           /\ id \in FactsSeen(d, q) =>
                /\ q.asOf = 0 => FactAt(d, id, q) = d.facts[id]
                /\ q.asOf # 0 => FactAt(d, id, q) = FactVersionAt(d, id, q.asOf)
<1> DEFINE f == IF q.asOf = 0 THEN d.facts[id] ELSE FactVersionAt(d, id, q.asOf)
           at == q.asOf
<1>1. /\ IsDB(d) /\ RevisionsAreGrounded(d) /\ FactsAreLogged(d) /\ ChainsAreLogged(d)
      /\ d.facts[id] \in Fact /\ d.facts[id].createdAt \in Nat /\ q.asOf \in Nat
      /\ StatementsAreLogged(d)
  BY StampTypes DEF Sound, LineageHolds, Request, PlacesHold, FactsPlaced
<1>2. FactAt(d, id, q) = IfVisible(f, q)
  BY DEF FactAt
<1>3. f # None => (FactVisible(f, q) <=> WithinCut(f.createdAt, q))
  BY VisibleInCut
<1>4. f # None => SameStatement(f, d.facts[id])
  <2>1. CASE q.asOf = 0
    BY <2>1 DEF SameStatement
  <2>2. CASE q.asOf # 0
    <3>1. f = FactVersionAt(d, id, at)
      BY <2>2
    <3> HIDE DEF f
    <3>2. f # None => ~(at < d.facts[id].createdAt)
      BY <1>1, <3>1, CutReadsALast
    <3>3. f # None => at >= d.facts[id].createdAt
      BY <1>1, <3>2
    <3>4. f # None => \E r \in DOMAIN d.factRevisions :
            d.factRevisions[r].fact = id /\ f = d.factRevisions[r].record
      BY <1>1, <3>1, <3>3, CutReadsALast
    <3> QED BY <1>1, <3>4 DEF StatementsAreLogged
  <2> QED BY <2>1, <2>2
<1>5. WithinCut(d.facts[id].createdAt, q) => f # None
  <2>1. CASE q.asOf = 0
    BY <1>1, <2>1, RecordAssumption
  <2>2. CASE q.asOf # 0
    <3>1. f = FactVersionAt(d, id, at)
      BY <2>2
    <3> HIDE DEF f
    <3> SUFFICES ASSUME WithinCut(d.facts[id].createdAt, q) PROVE f # None
      OBVIOUS
    <3>2. at >= d.facts[id].createdAt
      BY <1>1, <2>2 DEF WithinCut
    <3>3. \E r \in DOMAIN d.factRevisions : f = d.factRevisions[r].record
      BY <1>1, <3>1, <3>2, CutReadsALast
    <3> QED BY <1>1, <3>3, StampTypes, RecordAssumption
  <2> QED BY <2>1, <2>2
<1> HIDE DEF f
<1>6. FactAt(d, id, q) # None <=> WithinCut(d.facts[id].createdAt, q)
  BY <1>2, <1>3, <1>4, <1>5 DEF IfVisible, SameStatement
<1>7. FactAt(d, id, q) # None => FactAt(d, id, q) = f /\ FactAt(d, id, q).space = d.facts[id].space
  BY <1>2, <1>4 DEF IfVisible, SameStatement
<1>8. FactInScope(d, FactAt(d, id, q), q)
  BY DEF FactInScope, OnlyACut
<1>9. id \in FactsSeen(d, q) <=> FactAt(d, id, q) # None /\ FactAt(d, id, q).space = q.space
  BY <1>8 DEF FactsSeen, FactSeen
<1> QED BY <1>6, <1>7, <1>9 DEF f

(* The revision log is finite, and a place in it is a positive number.     *)
LEMMA RevisionsFinite ==
    ASSUME NEW d, IsDB(d), RevisionsAreGrounded(d)
    PROVE  /\ IsFiniteSet(DOMAIN d.factRevisions)
           /\ \A r \in DOMAIN d.factRevisions : Position(d, r) \in Nat \ {0}
<1> DEFINE n == d.sequence
           ids == {GeneratedID("factrev", k) : k \in 1..n}
           g == [k \in 1..n |-> GeneratedID("factrev", k)]
<1>1. n \in Nat
  BY DEF IsDB
<1>2. DOMAIN d.factRevisions \subseteq ids
  BY DEF RevisionsAreGrounded
<1>3. g \in Surjection(1..n, ids) /\ \A r \in ids : r[2] \in Nat
  BY DEF Surjection, GeneratedID
<1>4. IsFiniteSet(1..n)
  <2>1. 1 \in Int /\ n \in Int
    BY <1>1
  <2> QED BY <2>1, FS_Interval
<1> HIDE DEF n, ids, g
<1>5. IsFiniteSet(ids)
  BY <1>3, <1>4, FS_Surjection
<1>6. IsFiniteSet(DOMAIN d.factRevisions)
  BY <1>2, <1>5, FS_Subset
<1>7. ASSUME NEW r \in DOMAIN d.factRevisions PROVE Position(d, r) \in Nat \ {0}
  <2> DEFINE upto == {x \in DOMAIN d.factRevisions :
        /\ d.factRevisions[x].fact = d.factRevisions[r].fact
        /\ ~ComesAfter(Version(x, d.factRevisions[x]), Version(r, d.factRevisions[r]))}
  <2>1. upto \subseteq DOMAIN d.factRevisions
    OBVIOUS
  <2>2. r \in upto
    <3>1. r[2] \in Nat /\ d.factRevisions[r].txTime \in Nat
      BY <1>2, <1>3, StampTypes
    <3> QED BY <3>1 DEF ComesAfter, Version, RevisionOrder
  <2> HIDE DEF upto
  <2>3. Cardinality(upto) \in Nat /\ Cardinality(upto) # 0
    BY <1>6, <2>1, <2>2, FS_Subset, FS_CardinalityType, FS_EmptySet
  <2> QED BY <2>3 DEF Position, upto
<1> QED BY <1>6, <1>7

(* The revision that left the active state, and the event that tells it.   *)
Departures(d, id) ==
    {r \in DOMAIN d.factRevisions :
        d.factRevisions[r].fact = id /\ d.factRevisions[r].record.status # "active"}
DepartureEvent(d, r) ==
    Event(IF d.factRevisions[r].record.status = "superseded" THEN "fact_superseded" ELSE "fact_retracted",
          d.factRevisions[r].fact, d.factRevisions[r].txTime, Position(d, r))

(* A fact departs after its creation, superseded before it is retracted.   *)
LEMMA DeparturesInTurn ==
    ASSUME NEW d, Chronicled(d), NEW id \in DOMAIN d.facts, NEW r \in Departures(d, id)
    PROVE  /\ d.factRevisions[r].txTime \in Nat /\ d.facts[id].createdAt < d.factRevisions[r].txTime
           /\ d.factRevisions[r].record.status \in {"superseded", "retracted"}
           /\ \A x \in Departures(d, id) \ {r} :
                \/ /\ d.factRevisions[r].record.status = "superseded"
                   /\ d.factRevisions[x].record.status = "retracted"
                   /\ d.factRevisions[r].txTime < d.factRevisions[x].txTime
                \/ /\ d.factRevisions[x].record.status = "superseded"
                   /\ d.factRevisions[r].record.status = "retracted"
                   /\ d.factRevisions[x].txTime < d.factRevisions[r].txTime
<1>1. /\ IsDB(d) /\ RevisionsAreGrounded(d) /\ TransitionsAreLogged(d) /\ SupersessionIsLogged(d)
  BY DEF Chronicled, Sound, LinksAreLogged, LineageHolds, ChainsAreLogged
<1>2. \A x \in DOMAIN d.factRevisions :
         d.factRevisions[x].txTime \in Nat /\ d.factRevisions[x].record \in Fact
  BY <1>1, StampTypes
<1>3. \A x \in Departures(d, id) :
        /\ x \in DOMAIN d.factRevisions /\ d.factRevisions[x].fact = id
        /\ d.factRevisions[x].record.status \in {"superseded", "retracted"}
        /\ Transition(d, x)
  BY <1>1, <1>2 DEF Departures, TransitionsAreLogged, Fact
<1>4. d.facts[id].createdAt = d.factRevisions[r].record.createdAt
  BY <1>1, <1>3 DEF SupersessionIsLogged
<1>5. d.factRevisions[r].record.createdAt < d.factRevisions[r].txTime
  BY <1>3 DEF Transition
<1>6. ASSUME NEW x \in Departures(d, id) \ {r}
      PROVE  \/ /\ d.factRevisions[r].record.status = "superseded"
                /\ d.factRevisions[x].record.status = "retracted"
                /\ d.factRevisions[r].txTime < d.factRevisions[x].txTime
             \/ /\ d.factRevisions[x].record.status = "superseded"
                /\ d.factRevisions[r].record.status = "retracted"
                /\ d.factRevisions[x].txTime < d.factRevisions[r].txTime
  <2>1. \/ d.factRevisions[x].txTime < d.factRevisions[r].txTime
        \/ /\ d.factRevisions[r].record.status = "superseded"
           /\ d.factRevisions[x].record.status = "retracted"
           /\ d.factRevisions[r].txTime < d.factRevisions[x].txTime
    BY <1>3 DEF Transition
  <2>2. \/ d.factRevisions[r].txTime < d.factRevisions[x].txTime
        \/ /\ d.factRevisions[x].record.status = "superseded"
           /\ d.factRevisions[r].record.status = "retracted"
           /\ d.factRevisions[x].txTime < d.factRevisions[r].txTime
    BY <1>3 DEF Transition
  <2>3. d.factRevisions[r].txTime \in Nat /\ d.factRevisions[x].txTime \in Nat
    BY <1>2, <1>3
  <2> QED BY <2>1, <2>2, <2>3
<1> QED BY <1>2, <1>3, <1>4, <1>5, <1>6

(* lifecycleEvents tells each departure once.                              *)
LEMMA LifecycleTold ==
    ASSUME NEW d, Chronicled(d), NEW q \in Request, OnlyACut(q), q.inactive,
           NEW id \in DOMAIN d.facts, WithinCut(d.facts[id].createdAt, q)
    PROVE  LifecycleEvents(d, id, q) = {DepartureEvent(d, r) : r \in Departures(d, id)}
<1> DEFINE of(status) == {r \in Departures(d, id) : d.factRevisions[r].record.status = status}
<1>1. \A r \in DOMAIN d.factRevisions : d.factRevisions[r].fact = id =>
         FactVisible(d.factRevisions[r].record, q)
  <2>1. SupersessionIsLogged(d)
    BY DEF Chronicled, Sound, LineageHolds, ChainsAreLogged
  <2>2. \A r \in DOMAIN d.factRevisions : d.factRevisions[r].fact = id =>
           WithinCut(d.factRevisions[r].record.createdAt, q)
    BY <2>1 DEF SupersessionIsLogged
  <2> QED BY <2>2, VisibleInCut
<1>2. ASSUME NEW status \in {"superseded", "retracted"}
      PROVE  First(d, Tellings(d, id, status, q)) = of(status)
  <2>1. Tellings(d, id, status, q) = of(status)
    BY <1>1 DEF Tellings, Departures
  <2>2. \A r, x \in of(status) : r = x
    BY DeparturesInTurn
  <2> QED BY <2>1, <2>2 DEF First
<1>3. \A r \in Departures(d, id) :
        /\ d.factRevisions[r].fact = id
        /\ d.factRevisions[r].record.updatedAt = d.factRevisions[r].txTime
        /\ d.factRevisions[r].record.status = "retracted" =>
             d.factRevisions[r].record.retractedAt = d.factRevisions[r].txTime
  BY DEF Departures, Chronicled, IsStamped
<1>4. Departures(d, id) = of("superseded") \cup of("retracted")
  BY DeparturesInTurn
<1>5. LifecycleEvents(d, id, q)
        = {Event("fact_superseded", id, d.factRevisions[r].record.updatedAt, Position(d, r)) : r \in of("superseded")}
            \cup {Event("fact_retracted", id, d.factRevisions[r].record.retractedAt, Position(d, r)) : r \in of("retracted")}
  BY <1>2, Zenon DEF LifecycleEvents
<1>6. /\ \A r \in of("superseded") :
            DepartureEvent(d, r) = Event("fact_superseded", id, d.factRevisions[r].record.updatedAt, Position(d, r))
      /\ \A r \in of("retracted") :
            DepartureEvent(d, r) = Event("fact_retracted", id, d.factRevisions[r].record.retractedAt, Position(d, r))
  BY <1>3 DEF DepartureEvent
<1> HIDE DEF of
<1> QED BY <1>4, <1>5, <1>6

(* What happened to a fact up to the cut: its transitions and, unless it   *)
(* is dated later, its creation.                                           *)
Departed(d, id, q) ==
    {DepartureEvent(d, r) : r \in {x \in Departures(d, id) : WithinCut(d.factRevisions[x].txTime, q)}}
Chronicle(d, id, q) ==
    {e \in {CreationEvent(d, id)} : WithinCut(e.at, q)} \cup Departed(d, id, q)

(* The events of a timeline: episodes, and the chronicle of each fact.     *)
LEMMA EventsTold ==
    ASSUME NEW d, Chronicled(d), NEW q \in Request, OnlyACut(q)
    PROVE  LET w == WithInactive(q)
           IN  TimelineEvents(d, q)
                 = {e \in {EpisodeEvent(d, ep) : ep \in EpisodesSeen(d, w)} : WithinCut(e.at, w)}
                     \cup UNION {Chronicle(d, id, w) : id \in FactsSeen(d, w)}
<1> DEFINE w == WithInactive(q)
           told == {EpisodeEvent(d, ep) : ep \in EpisodesSeen(d, w)}
                     \cup {CreationEvent(d, id) : id \in FactsSeen(d, w)}
                     \cup UNION {LifecycleEvents(d, id, w) : id \in FactsSeen(d, w)}
           all == {e \in {EpisodeEvent(d, ep) : ep \in EpisodesSeen(d, w)} : WithinCut(e.at, w)}
                    \cup UNION {Chronicle(d, id, w) : id \in FactsSeen(d, w)}
<1>1. /\ w \in Request /\ OnlyACut(w) /\ w.inactive /\ w.asOf = q.asOf
      /\ w.ids = {} /\ w.kinds = {}
  BY InactiveToo DEF OnlyACut
<1>2. \A ids : MatchesAnchors(CanonicalIDs(d, w.ids, w), ids)
  BY <1>1, AnyAnchor
<1>3. TimelineEvents(d, q) = {e \in told : EventVisible(e.at, w)}
  <2>1. {ep \in EpisodesSeen(d, w) : MatchesAnchors(CanonicalIDs(d, w.ids, w), {ep, d.episodes[ep].source})}
          = EpisodesSeen(d, w)
    BY <1>2
  <2>2. {id \in FactsSeen(d, w) : MatchesAnchors(CanonicalIDs(d, w.ids, w),
                                    FactAnchorIDs(d, id, FactAt(d, id, w), w))}
          = FactsSeen(d, w)
    BY <1>2
  <2>3. TimelineEvents(d, q) = {e \in told : EventVisible(e.at, w) /\ (w.kinds = {} \/ e.type \in w.kinds)}
    BY <2>1, <2>2, Zenon DEF TimelineEvents
  <2> HIDE DEF told, w
  <2> QED BY <1>1, <2>3
<1> HIDE DEF w
<1>4. \A at : EventVisible(at, w) <=> WithinCut(at, w)
  BY <1>1 DEF EventVisible, WithinCut, Observable, OnlyACut
<1>5. \A id \in FactsSeen(d, w) : id \in DOMAIN d.facts /\ WithinCut(d.facts[id].createdAt, w)
  BY <1>1, SeenInCut DEF FactsSeen, Chronicled
<1>6. \A id \in FactsSeen(d, w) : LifecycleEvents(d, id, w) = {DepartureEvent(d, r) : r \in Departures(d, id)}
  BY <1>1, <1>5, LifecycleTold
<1>7. \A r : DepartureEvent(d, r).at = d.factRevisions[r].txTime
  BY DEF DepartureEvent, Event
<1>8. ASSUME NEW e \in told, WithinCut(e.at, w) PROVE e \in all
  <2>1. CASE e \in {EpisodeEvent(d, ep) : ep \in EpisodesSeen(d, w)}
    BY <1>8, <2>1
  <2>2. CASE e \in {CreationEvent(d, id) : id \in FactsSeen(d, w)}
    BY <1>8, <2>2 DEF Chronicle
  <2>3. CASE e \in UNION {LifecycleEvents(d, id, w) : id \in FactsSeen(d, w)}
    <3>1. PICK id \in FactsSeen(d, w) : e \in LifecycleEvents(d, id, w)
      BY <2>3
    <3>2. PICK r \in Departures(d, id) : e = DepartureEvent(d, r)
      BY <1>6, <3>1
    <3>3. e \in Chronicle(d, id, w)
      BY <1>7, <1>8, <3>2 DEF Chronicle, Departed
    <3> QED BY <3>3
  <2> QED BY <2>1, <2>2, <2>3
<1>9. ASSUME NEW e \in all PROVE e \in told /\ WithinCut(e.at, w)
  <2>1. CASE e \in {EpisodeEvent(d, ep) : ep \in EpisodesSeen(d, w)} /\ WithinCut(e.at, w)
    BY <2>1
  <2>2. ASSUME NEW id \in FactsSeen(d, w), e \in Chronicle(d, id, w)
        PROVE  e \in told /\ WithinCut(e.at, w)
    <3>1. CASE e = CreationEvent(d, id) /\ WithinCut(e.at, w)
      BY <3>1
    <3>2. CASE e \in Departed(d, id, w)
      <4>1. PICK r \in Departures(d, id) :
              WithinCut(d.factRevisions[r].txTime, w) /\ e = DepartureEvent(d, r)
        BY <3>2 DEF Departed
      <4> QED BY <1>6, <1>7, <4>1
    <3> QED BY <2>2, <3>1, <3>2 DEF Chronicle
  <2> QED BY <2>1, <2>2
<1>10. TimelineEvents(d, q) = all
  <2> HIDE DEF told, all
  <2> QED BY <1>3, <1>4, <1>8, <1>9
<1> QED BY <1>10 DEF w

(* Identifiers are strictly ordered.                                       *)
LEMMA BeforeOrders ==
    /\ \A a \in ID : ~Before(a, a)
    /\ \A a, b, c \in ID : Before(a, b) /\ Before(b, c) => Before(a, c)
    /\ \A a, b \in ID : a # b => Before(a, b) \/ Before(b, a)
<1>1. \A a \in ID : a[1] \in DOMAIN PrefixRank /\ a[2] \in Nat /\ PrefixRank[a[1]] \in Nat /\ a = <<a[1], a[2]>>
  BY RequestAssumption DEF ID
<1>2. \A a, b, c \in ID : Before(a, b) /\ Before(b, c) => Before(a, c)
  BY <1>1 DEF Before
<1>3. ASSUME NEW a \in ID, NEW b \in ID, a # b PROVE Before(a, b) \/ Before(b, a)
  <2>1. CASE PrefixRank[a[1]] # PrefixRank[b[1]]
    BY <1>1, <2>1 DEF Before
  <2>2. CASE PrefixRank[a[1]] = PrefixRank[b[1]]
    <3>1. a[1] = b[1]
      BY <1>1, <2>2, RequestAssumption
    <3>2. a[2] # b[2]
      BY <1>1, <1>3, <3>1
    <3> QED BY <1>1, <2>2, <3>2 DEF Before
  <2> QED BY <2>1, <2>2
<1> QED BY <1>2, <1>3, NotBeforeItself

(* A record has one event of a type, and one at a place of its order; the  *)
(* first place is the creation's.                                          *)
LEMMA EventsApart ==
    ASSUME NEW d, Chronicled(d), NEW q \in Request, OnlyACut(q)
    PROVE  LET events == TimelineEvents(d, q)
               w == WithInactive(q)
           IN  /\ \A e \in events : e.record \in ID /\ e.at \in Nat /\ e.order \in Nat
               /\ \A a, b \in events :
                     a.record = b.record /\ ((a.at = b.at /\ a.order = b.order) \/ a.type = b.type) => a = b
               /\ \A id \in FactsSeen(d, w) :
                     /\ {e \in events : e.record = id /\ e.type = "fact_created"}
                          = {e \in {CreationEvent(d, id)} : WithinCut(e.at, w)}
                     /\ {e \in events : e.record = id /\ e.type # "fact_created"} = Departed(d, id, w)
                     /\ CreationEvent(d, id).at \in Nat /\ CreationEvent(d, id).order = 0
                     /\ \A e \in Departed(d, id, w) : e.order # 0
                     /\ \A a, b \in Departed(d, id, w) : a.at = b.at => a = b
               /\ \A e \in events : /\ e.record \in DOMAIN d.episodes \cup DOMAIN d.facts
                                    /\ e.type \in {"episode", "fact_created", "fact_superseded", "fact_retracted"}
<1> DEFINE w == WithInactive(q)
           E == TimelineEvents(d, q)
<1>1. E = {e \in {EpisodeEvent(d, ep) : ep \in EpisodesSeen(d, w)} : WithinCut(e.at, w)}
            \cup UNION {Chronicle(d, id, w) : id \in FactsSeen(d, w)}
  BY EventsTold
<1>2. /\ IsDB(d) /\ RevisionsAreGrounded(d) /\ UniqueIDs(d)
      /\ DOMAIN d.episodes \cap DOMAIN d.facts = {}
  BY DEF Chronicled, Sound, UniqueIDs, Disjoint
<1>3. EpisodesSeen(d, w) \subseteq DOMAIN d.episodes /\ FactsSeen(d, w) \subseteq DOMAIN d.facts
  BY DEF EpisodesSeen, FactsSeen
<1>4. ASSUME NEW ep \in DOMAIN d.episodes
      PROVE  /\ EpisodeEvent(d, ep).record = ep /\ ep \in ID /\ EpisodeEvent(d, ep).at \in Nat
             /\ EpisodeEvent(d, ep).order \in Nat /\ EpisodeEvent(d, ep).type = "episode"
  BY <1>2 DEF EpisodeEvent, ChooseTime, Event, IsDB, IsMap, Episode
<1>5. ASSUME NEW id \in DOMAIN d.facts
      PROVE  /\ CreationEvent(d, id).record = id /\ id \in ID /\ CreationEvent(d, id).at \in Nat
             /\ CreationEvent(d, id).order = 0 /\ CreationEvent(d, id).type = "fact_created"
  <2>1. id \in ID /\ d.facts[id].createdAt \in Nat /\ d.facts[id] \in Fact
    BY <1>2, StampTypes
  <2>2. ChooseTime(d.facts[id].observedAt, d.facts[id].createdAt) \in Nat
    BY <2>1 DEF ChooseTime, Fact
  <2> QED BY <2>1, <2>2 DEF CreationEvent, Event
<1>6. ASSUME NEW id \in DOMAIN d.facts, NEW e \in Departed(d, id, w)
      PROVE  \E r \in Departures(d, id) :
                /\ e = DepartureEvent(d, r) /\ e.record = id /\ e.at = d.factRevisions[r].txTime /\ e.at \in Nat
                /\ e.order \in Nat /\ e.order # 0
                /\ e.type \in {"fact_superseded", "fact_retracted"}
                /\ e.type = IF d.factRevisions[r].record.status = "superseded"
                            THEN "fact_superseded" ELSE "fact_retracted"
  <2>1. PICK r \in Departures(d, id) : e = DepartureEvent(d, r)
    BY <1>6 DEF Departed
  <2>2. r \in DOMAIN d.factRevisions /\ d.factRevisions[r].fact = id
    BY DEF Departures
  <2>3. d.factRevisions[r].txTime \in Nat /\ Position(d, r) \in Nat \ {0}
    BY <1>2, <2>2, DeparturesInTurn, RevisionsFinite
  <2>4. /\ e.record = id /\ e.at = d.factRevisions[r].txTime /\ e.order = Position(d, r)
        /\ e.type = IF d.factRevisions[r].record.status = "superseded"
                    THEN "fact_superseded" ELSE "fact_retracted"
    BY <2>1, <2>2 DEF DepartureEvent, Event
  <2> QED BY <2>1, <2>3, <2>4
<1>7. ASSUME NEW id \in DOMAIN d.facts, NEW a \in Departed(d, id, w), NEW b \in Departed(d, id, w),
             a.at = b.at \/ a.type = b.type
      PROVE  a = b
  <2>1. PICK r \in Departures(d, id) :
          /\ a = DepartureEvent(d, r) /\ a.at = d.factRevisions[r].txTime
          /\ a.type = IF d.factRevisions[r].record.status = "superseded"
                      THEN "fact_superseded" ELSE "fact_retracted"
    BY <1>6
  <2>2. PICK x \in Departures(d, id) :
          /\ b = DepartureEvent(d, x) /\ b.at = d.factRevisions[x].txTime
          /\ b.type = IF d.factRevisions[x].record.status = "superseded"
                      THEN "fact_superseded" ELSE "fact_retracted"
    BY <1>6
  <2>3. r = x
    BY <1>7, <2>1, <2>2, DeparturesInTurn
  <2> QED BY <2>1, <2>2, <2>3
<1> HIDE DEF E, w
<1>8. ASSUME NEW id \in DOMAIN d.facts, NEW e \in Chronicle(d, id, w)
      PROVE  /\ e.record = id /\ id \in ID /\ e.at \in Nat /\ e.order \in Nat
             /\ \/ /\ e = CreationEvent(d, id) /\ WithinCut(e.at, w)
                   /\ e.type = "fact_created" /\ e.order = 0
                \/ /\ e \in Departed(d, id, w)
                   /\ e.type \in {"fact_superseded", "fact_retracted"} /\ e.order # 0
  <2>1. CASE e = CreationEvent(d, id) /\ WithinCut(e.at, w)
    BY <1>5, <2>1
  <2>2. CASE e \in Departed(d, id, w)
    BY <1>5, <1>6, <2>2
  <2> QED BY <1>8, <2>1, <2>2 DEF Chronicle
<1>9. ASSUME NEW id \in DOMAIN d.facts, NEW a \in Chronicle(d, id, w), NEW b \in Chronicle(d, id, w),
             (a.at = b.at /\ a.order = b.order) \/ a.type = b.type
      PROVE  a = b
  <2>1. CASE a = CreationEvent(d, id) /\ a.type = "fact_created" /\ a.order = 0
    BY <1>8, <1>9, <2>1
  <2>2. CASE a \in Departed(d, id, w) /\ a.type \in {"fact_superseded", "fact_retracted"} /\ a.order # 0
    <3>1. b \in Departed(d, id, w)
      BY <1>8, <1>9, <2>2
    <3> QED BY <1>7, <1>9, <2>2, <3>1
  <2> QED BY <1>8, <2>1, <2>2
<1>10. ASSUME NEW e \in E
       PROVE  \/ \E ep \in DOMAIN d.episodes : e = EpisodeEvent(d, ep)
              \/ \E id \in FactsSeen(d, w) : id \in DOMAIN d.facts /\ e \in Chronicle(d, id, w)
  BY <1>1, <1>3
<1>11. \A e \in E : /\ e.record \in ID /\ e.at \in Nat /\ e.order \in Nat
                    /\ e.record \in DOMAIN d.episodes \cup DOMAIN d.facts
                    /\ e.type \in {"episode", "fact_created", "fact_superseded", "fact_retracted"}
  BY <1>4, <1>8, <1>10
<1>12. ASSUME NEW a \in E, NEW b \in E, a.record = b.record,
              (a.at = b.at /\ a.order = b.order) \/ a.type = b.type
       PROVE  a = b
  <2>1. ASSUME NEW ep \in DOMAIN d.episodes, a = EpisodeEvent(d, ep) PROVE a = b
    <3>1. b.record = ep /\ ep \notin DOMAIN d.facts
      BY <1>2, <1>4, <1>12, <2>1
    <3>2. \A id \in FactsSeen(d, w) : id \in DOMAIN d.facts => b \notin Chronicle(d, id, w)
      BY <1>8, <3>1
    <3>3. PICK other \in DOMAIN d.episodes : b = EpisodeEvent(d, other)
      BY <1>10, <3>2
    <3>4. other = ep
      BY <1>4, <3>1, <3>3
    <3> QED BY <2>1, <3>3, <3>4
  <2>2. ASSUME NEW id \in FactsSeen(d, w), id \in DOMAIN d.facts, a \in Chronicle(d, id, w) PROVE a = b
    <3>1. b \in Chronicle(d, id, w)
      BY <1>2, <1>4, <1>8, <1>10, <1>12, <2>2
    <3> QED BY <1>9, <1>12, <2>2, <3>1
  <2> QED BY <1>10, <2>1, <2>2
<1>13. ASSUME NEW id \in FactsSeen(d, w)
       PROVE  /\ {e \in E : e.record = id /\ e.type = "fact_created"}
                   = {e \in {CreationEvent(d, id)} : WithinCut(e.at, w)}
              /\ {e \in E : e.record = id /\ e.type # "fact_created"} = Departed(d, id, w)
              /\ CreationEvent(d, id).at \in Nat /\ CreationEvent(d, id).order = 0
              /\ \A e \in Departed(d, id, w) : e.order # 0
              /\ \A a, b \in Departed(d, id, w) : a.at = b.at => a = b
  <2>1. id \in DOMAIN d.facts /\ Chronicle(d, id, w) \subseteq E
    BY <1>1, <1>3
  <2>2. \A e \in E : e.record = id => e \in Chronicle(d, id, w)
    BY <1>2, <1>4, <1>8, <1>10, <2>1
  <2>3. /\ {e \in {CreationEvent(d, id)} : WithinCut(e.at, w)} \subseteq Chronicle(d, id, w)
        /\ Departed(d, id, w) \subseteq Chronicle(d, id, w)
    BY DEF Chronicle
  <2>4. {e \in E : e.record = id /\ e.type = "fact_created"}
          = {e \in {CreationEvent(d, id)} : WithinCut(e.at, w)}
    BY <1>5, <1>8, <2>1, <2>2, <2>3
  <2>5. {e \in E : e.record = id /\ e.type # "fact_created"} = Departed(d, id, w)
    <3>1. \A e \in Departed(d, id, w) : e \in E /\ e.record = id /\ e.type # "fact_created"
      BY <1>6, <2>1, <2>3
    <3> QED BY <1>8, <2>1, <2>2, <3>1
  <2> QED BY <1>5, <1>6, <1>7, <2>1, <2>4, <2>5
<1> QED BY <1>11, <1>12, <1>13 DEF E, w

(* A timeline is finite.                                                   *)
LEMMA EventsFinite ==
    ASSUME NEW d, Chronicled(d), NEW q \in Request, OnlyACut(q)
    PROVE  IsFiniteSet(TimelineEvents(d, q))
<1> DEFINE E == TimelineEvents(d, q)
           T == {"episode", "fact_created", "fact_superseded", "fact_retracted"}
           R == DOMAIN d.episodes \cup DOMAIN d.facts
           g == [e \in E |-> <<e.type, e.record>>]
<1>1. /\ \A a, b \in E : a.record = b.record /\ a.type = b.type => a = b
      /\ \A e \in E : e.record \in R /\ e.type \in T
  BY EventsApart
<1>2. IsFiniteSet(T)
  <2>1. IsFiniteSet({"episode"}) /\ T = (({"episode"} \cup {"fact_created"}) \cup {"fact_superseded"}) \cup {"fact_retracted"}
    BY FS_Singleton
  <2>2. IsFiniteSet({"episode"} \cup {"fact_created"})
    BY <2>1, FS_AddElement
  <2>3. IsFiniteSet(({"episode"} \cup {"fact_created"}) \cup {"fact_superseded"})
    BY <2>2, FS_AddElement
  <2>4. IsFiniteSet((({"episode"} \cup {"fact_created"}) \cup {"fact_superseded"}) \cup {"fact_retracted"})
    BY <2>3, FS_AddElement
  <2> QED BY <2>1, <2>4
<1>3. IsFiniteSet(R)
  BY FS_Union DEF Chronicled, IsFinite
<1> HIDE DEF E, T, R
<1>4. IsFiniteSet(T \X R)
  BY <1>2, <1>3, FS_Product
<1>5. g \in Injection(E, T \X R)
  BY <1>1 DEF Injection, IsInjective
<1> HIDE DEF g
<1>6. IsFiniteSet(E)
  BY <1>4, <1>5, FS_Injection
<1> QED BY <1>6 DEF E

(* timelineEntryBefore orders the events strictly.                         *)
LEMMA TimelineOrders ==
    ASSUME NEW d, Chronicled(d), NEW q \in Request, OnlyACut(q), NEW descending \in BOOLEAN
    PROVE  LET events == TimelineEvents(d, q)
           IN  StrictlyOrders({p \in events \X events : EventBefore(p[1], p[2], descending)}, events)
<1> DEFINE E == TimelineEvents(d, q)
           order == {p \in E \X E : EventBefore(p[1], p[2], descending)}
<1>1. /\ \A e \in E : e.record \in ID /\ e.at \in Nat /\ e.order \in Nat
      /\ \A a, b \in E : a.record = b.record /\ a.at = b.at /\ a.order = b.order => a = b
  BY EventsApart
<1> HIDE DEF E
<1>2. \A a, b \in E : <<a, b>> \in order <=> EventBefore(a, b, descending)
  OBVIOUS
<1> HIDE DEF order
<1>3. ASSUME NEW a \in E PROVE <<a, a>> \notin order
  BY <1>1, <1>2, BeforeOrders DEF EventBefore
<1>4. ASSUME NEW a \in E, NEW b \in E, NEW c \in E, <<a, b>> \in order, <<b, c>> \in order
      PROVE  <<a, c>> \in order
  <2>1. EventBefore(a, b, descending) /\ EventBefore(b, c, descending)
    BY <1>2, <1>4
  <2>2. /\ a.at \in Nat /\ b.at \in Nat /\ c.at \in Nat
        /\ a.order \in Nat /\ b.order \in Nat /\ c.order \in Nat
        /\ a.record \in ID /\ b.record \in ID /\ c.record \in ID
    BY <1>1
  <2>3. Before(a.record, b.record) /\ Before(b.record, c.record) => Before(a.record, c.record)
    BY <2>2, BeforeOrders
  <2>4. CASE descending
    BY <1>2, <2>1, <2>2, <2>3, <2>4 DEF EventBefore
  <2>5. CASE ~descending
    BY <1>2, <2>1, <2>2, <2>3, <2>5 DEF EventBefore
  <2> QED BY <2>4, <2>5
<1>5. ASSUME NEW a \in E, NEW b \in E, a # b PROVE <<a, b>> \in order \/ <<b, a>> \in order
  <2>1. /\ a.at \in Nat /\ b.at \in Nat /\ a.order \in Nat /\ b.order \in Nat
        /\ a.at = b.at /\ a.record = b.record => a.order # b.order
    BY <1>1, <1>5
  <2>2. a.record # b.record => Before(a.record, b.record) \/ Before(b.record, a.record)
    BY <1>1, <2>1, BeforeOrders
  <2> QED BY <1>2, <2>1, <2>2 DEF EventBefore
<1>6. StrictlyOrders(order, E)
  BY <1>3, <1>4, <1>5 DEF StrictlyOrders
<1> QED BY <1>6 DEF order, E

(* Some events of one record, by their instants.                           *)
ByTime(events, descending) ==
    {p \in events \X events : IF descending THEN p[1].at > p[2].at ELSE p[1].at < p[2].at}

(* Events at different instants are ordered by them.                       *)
LEMMA ByTimeOrders ==
    ASSUME NEW events, \A e \in events : e.at \in Nat, \A a, b \in events : a.at = b.at => a = b,
           NEW descending \in BOOLEAN
    PROVE  /\ StrictlyOrders(ByTime(events, descending), events)
           /\ \A a, b \in events :
                 <<a, b>> \in ByTime(events, descending)
                   <=> IF descending THEN a.at > b.at ELSE a.at < b.at
<1>1. \A a, b \in events :
         <<a, b>> \in ByTime(events, descending)
           <=> IF descending THEN a.at > b.at ELSE a.at < b.at
  BY DEF ByTime
<1> QED BY <1>1 DEF StrictlyOrders

(* A timeline lists its events.                                            *)
LEMMA TimelineLists ==
    ASSUME NEW d, Chronicled(d), NEW q \in Request, OnlyACut(q), NEW descending \in BOOLEAN
    PROVE  LET events == TimelineEvents(d, q)
               order == {p \in events \X events : EventBefore(p[1], p[2], descending)}
           IN  /\ Lists(Timeline(d, q, descending), Cardinality(events), events, order)
               /\ StrictlyOrders(order, events)
<1> DEFINE E == TimelineEvents(d, q)
           order == {p \in E \X E : EventBefore(p[1], p[2], descending)}
           all == Timeline(d, q, descending)
<1>1. StrictlyOrders(order, E) /\ IsFiniteSet(E)
  BY TimelineOrders, EventsFinite
<1>2. all = Sorted(E, order)
  BY DEF Timeline
<1> HIDE DEF E, order, all
<1>3. Lists(all, Cardinality(E), E, order)
  BY <1>1, <1>2, SortedLists
<1> QED BY <1>1, <1>3 DEF all, order, E

(* What a timeline tells of one fact's transitions is their list in order. *)
LEMMA ToldLists ==
    ASSUME NEW d, Chronicled(d), NEW q \in Request, OnlyACut(q), NEW descending \in BOOLEAN,
           NEW id \in FactsSeen(d, WithInactive(q))
    PROVE  LET C == Departed(d, id, WithInactive(q))
           IN  /\ \E m : Lists(Told(Timeline(d, q, descending), id), m, C, ByTime(C, descending))
               /\ \A e \in C : e.at \in Nat
               /\ \A a, b \in C : a.at = b.at => a = b
<1> DEFINE C == Departed(d, id, WithInactive(q))
           E == TimelineEvents(d, q)
           order == {p \in E \X E : EventBefore(p[1], p[2], descending)}
           all == Timeline(d, q, descending)
           mine == {i \in DOMAIN all : all[i] \in C}
           part == At(all, Places(mine))
<1>1. /\ C = {e \in E : e.record = id /\ e.type # "fact_created"}
      /\ \A e \in E : e.record \in ID /\ e.at \in Nat /\ e.order \in Nat
      /\ \A a, b \in C : a.at = b.at => a = b
  BY EventsApart
<1>2. Lists(all, Cardinality(E), E, order) /\ StrictlyOrders(order, E)
  BY TimelineLists
<1>3. \A a, b \in E : <<a, b>> \in order => EventBefore(a, b, descending)
  OBVIOUS
<1> HIDE DEF E, order, all, C
<1>4. \E m : Lists(part, m, C, order)
  <2>1. C \in SUBSET E
    BY <1>1
  <2> QED BY <1>2, <2>1, PartLists, Zenon
<1>5. mine = Transitions(all, id)
  <2>1. \A i \in DOMAIN all : all[i] \in E
    BY <1>2 DEF Lists
  <2> QED BY <1>1, <2>1 DEF Transitions
<1>6. Told(all, id) = part
  BY <1>5, Zenon DEF Told
<1> HIDE DEF part
<1>7. \A a, b \in C : <<a, b>> \in order => <<a, b>> \in ByTime(C, descending)
  <2> SUFFICES ASSUME NEW a \in C, NEW b \in C, <<a, b>> \in order
               PROVE  <<a, b>> \in ByTime(C, descending)
    OBVIOUS
  <2>1. /\ a.record = id /\ b.record = id /\ EventBefore(a, b, descending) /\ id \in ID
        /\ a.at \in Nat /\ b.at \in Nat /\ a.order \in Nat
    BY <1>1, <1>3
  <2>2. a # b
    BY <1>1, <1>2 DEF StrictlyOrders
  <2>3. a.at # b.at
    BY <1>1, <2>2
  <2>4. IF descending THEN a.at > b.at ELSE a.at < b.at
    BY <2>1, <2>3, BeforeOrders DEF EventBefore
  <2> QED BY <2>4 DEF ByTime
<1>8. \E m : Lists(part, m, C, ByTime(C, descending))
  <2>1. PICK m : Lists(part, m, C, order)
    BY <1>4
  <2>2. m \in Nat /\ part \in [1..m -> C]
    BY <2>1 DEF Lists
  <2>3. Lists(part, m, C, ByTime(C, descending))
    BY <1>7, <2>1, <2>2 DEF Lists
  <2> QED BY <2>3
<1>9. (\A e \in C : e.at \in Nat) /\ \A a, b \in C : a.at = b.at => a = b
  BY <1>1
<1> QED BY <1>6, <1>8, <1>9 DEF C, all

(* The creation is told once unless it is dated after the cut, and stands  *)
(* before the transitions it is dated no later than.                       *)
LEMMA CreationTold ==
    ASSUME NEW d, Chronicled(d), NEW q \in Request, OnlyACut(q), NEW descending \in BOOLEAN,
           NEW id \in FactsSeen(d, WithInactive(q))
    PROVE  LET all == Timeline(d, q, descending)
           IN  /\ CreationIsTold(Creations(all, id), all, CreationEvent(d, id), q)
               /\ CreationIsPlaced(all, id, descending)
<1> DEFINE w == WithInactive(q)
           E == TimelineEvents(d, q)
           order == {p \in E \X E : EventBefore(p[1], p[2], descending)}
           all == Timeline(d, q, descending)
           n == Cardinality(E)
           c == CreationEvent(d, id)
           gone == Departed(d, id, w)
<1>1. /\ \A e \in E : e.record \in ID /\ e.at \in Nat /\ e.order \in Nat
      /\ {e \in E : e.record = id /\ e.type = "fact_created"} = {e \in {c} : WithinCut(e.at, w)}
      /\ {e \in E : e.record = id /\ e.type # "fact_created"} = gone
      /\ c.at \in Nat /\ c.order = 0
      /\ \A e \in gone : e.order # 0
  BY EventsApart
<1>2. Lists(all, n, E, order) /\ StrictlyOrders(order, E)
  BY TimelineLists
<1>3. \A a, b \in E : <<a, b>> \in order <=> EventBefore(a, b, descending)
  OBVIOUS
<1>4. WithinCut(c.at, w) <=> ~(q.asOf # 0 /\ c.at > q.asOf)
  <2>1. w.asOf = q.asOf /\ q.asOf \in Nat
    BY InactiveToo DEF Request
  <2> HIDE DEF w, c
  <2> QED BY <1>1, <2>1 DEF WithinCut
<1> HIDE DEF E, order, all, n, c, gone, w
<1>5. /\ n \in Nat /\ all \in [1..n -> E] /\ DOMAIN all = 1..n
      /\ \A x \in E : \E i \in 1..n : all[i] = x
      /\ \A i, j \in 1..n : i < j => <<all[i], all[j]>> \in order
  BY <1>2 DEF Lists
<1>6. \A i \in Creations(all, id) : i \in 1..n /\ all[i] = c /\ all[i] \in E /\ WithinCut(c.at, w)
  BY <1>1, <1>5 DEF Creations
<1>7. \A j \in Transitions(all, id) : j \in 1..n /\ all[j] \in gone /\ all[j] \in E
  BY <1>1, <1>5 DEF Transitions
<1>8. CreationIsTold(Creations(all, id), all, c, q)
  <2>1. CASE WithinCut(c.at, w)
    <3>1. c \in E /\ c.record = id /\ c.type = "fact_created"
      BY <1>1, <2>1
    <3>2. PICK i \in 1..n : all[i] = c
      BY <1>5, <3>1
    <3>3. i \in Creations(all, id)
      BY <1>5, <3>1, <3>2 DEF Creations
    <3>4. \A j \in Creations(all, id) : j = i
      <4> TAKE j \in Creations(all, id)
      <4>1. j \in 1..n /\ all[j] = c /\ <<c, c>> \notin order
        BY <1>2, <1>6, <3>1 DEF StrictlyOrders
      <4>2. ~(i < j) /\ ~(j < i)
        BY <1>5, <3>2, <4>1
      <4> QED BY <4>1, <4>2
    <3>5. Creations(all, id) = {i}
      BY <3>3, <3>4
    <3> QED BY <1>4, <2>1, <3>2, <3>3, <3>5 DEF CreationIsTold
  <2>2. CASE ~WithinCut(c.at, w)
    <3>1. Creations(all, id) = {}
      BY <1>6, <2>2
    <3> QED BY <1>4, <2>2, <3>1 DEF CreationIsTold
  <2> QED BY <2>1, <2>2
<1>9. CreationIsPlaced(all, id, descending)
  <2> SUFFICES ASSUME NEW i \in Creations(all, id), NEW j \in Transitions(all, id)
               PROVE  i < j <=> IF descending THEN all[i].at >= all[j].at ELSE all[i].at <= all[j].at
    BY DEF CreationIsPlaced
  <2> DEFINE a == all[i]
             b == all[j]
  <2>1. /\ i \in 1..n /\ j \in 1..n /\ a = c /\ a \in E /\ b \in gone /\ b \in E
    BY <1>6, <1>7
  <2>2. /\ a.record = id /\ b.record = id /\ a.at \in Nat /\ b.at \in Nat
        /\ a.order = 0 /\ b.order \in Nat /\ b.order # 0 /\ id \in ID
    BY <1>1, <2>1 DEF Creations
  <2>3. i # j
    BY <2>1, <2>2
  <2>4. (i < j => EventBefore(a, b, descending)) /\ (j < i => EventBefore(b, a, descending))
    BY <1>3, <1>5, <2>1
  <2> HIDE DEF a, b
  <2>5. ~Before(id, id)
    BY <2>2, BeforeOrders
  <2>6. i < j \/ j < i
    BY <2>1, <2>3
  <2>7. CASE descending
    BY <2>1, <2>2, <2>4, <2>5, <2>6, <2>7 DEF EventBefore, a, b
  <2>8. CASE ~descending
    BY <2>1, <2>2, <2>4, <2>5, <2>6, <2>8 DEF EventBefore, a, b
  <2> QED BY <2>7, <2>8
<1> QED BY <1>8, <1>9 DEF all, c

-----------------------------------------------------------------------------
(* The version at the cut knows what happened up to the cut.               *)

(* The version at the cut is the last one logged by then.                  *)
LEMMA LastSeen ==
    ASSUME NEW d, Sound(d), NEW q \in Request, OnlyACut(q), q.inactive, NEW id \in FactsSeen(d, q)
    PROVE  \E r \in DOMAIN d.factRevisions :
              /\ d.factRevisions[r].fact = id /\ WithinCut(d.factRevisions[r].txTime, q)
              /\ FactAt(d, id, q) = d.factRevisions[r].record
              /\ \A x \in DOMAIN d.factRevisions :
                    d.factRevisions[x].fact = id /\ WithinCut(d.factRevisions[x].txTime, q)
                      => d.factRevisions[x].txTime <= d.factRevisions[r].txTime
<1> DEFINE at == q.asOf
<1>1. /\ IsDB(d) /\ RevisionsAreGrounded(d) /\ FactsAreLogged(d) /\ ChainsAreLogged(d)
      /\ at \in Nat /\ id \in DOMAIN d.facts
      /\ \A r \in DOMAIN d.factRevisions : d.factRevisions[r].txTime \in Nat
  BY StampTypes DEF Sound, LineageHolds, Request, FactsSeen
<1>2. /\ d.facts[id].createdAt \in Nat /\ WithinCut(d.facts[id].createdAt, q)
      /\ q.asOf = 0 => FactAt(d, id, q) = d.facts[id]
      /\ q.asOf # 0 => FactAt(d, id, q) = FactVersionAt(d, id, q.asOf)
  BY <1>1, SeenInCut, StampTypes
<1>3. CASE q.asOf = 0
  <2>1. PICK r \in DOMAIN d.factRevisions : IsLatestRevision(d, id, r)
    BY <1>1 DEF FactsAreLogged
  <2>2. d.factRevisions[r].fact = id /\ d.factRevisions[r].record = d.facts[id]
    BY <2>1 DEF IsLatestRevision
  <2>3. \A x \in DOMAIN d.factRevisions :
           d.factRevisions[x].fact = id => d.factRevisions[x].txTime <= d.factRevisions[r].txTime
    BY <1>1, <2>1 DEF IsLatestRevision, ComesAfter, Version
  <2> QED BY <1>2, <1>3, <2>2, <2>3 DEF WithinCut
<1>4. CASE q.asOf # 0
  <2>1. at >= d.facts[id].createdAt /\ FactAt(d, id, q) = FactVersionAt(d, id, at)
    BY <1>1, <1>2, <1>4 DEF WithinCut
  <2>2. \A t : WithinCut(t, q) <=> t <= at
    BY <1>4 DEF WithinCut
  <2> HIDE DEF at
  <2> QED BY <1>1, <2>1, <2>2, CutReadsALast
<1> QED BY <1>3, <1>4

Passed(d, id, status, q) ==
    {r \in Departures(d, id) : d.factRevisions[r].record.status = status
                                 /\ WithinCut(d.factRevisions[r].txTime, q)}

(* The version has left the active state exactly when a departure says so. *)
LEMMA VersionKnows ==
    ASSUME NEW d, Chronicled(d), NEW q \in Request, OnlyACut(q), q.inactive, NEW id \in FactsSeen(d, q)
    PROVE  LET f == FactAt(d, id, q)
           IN  /\ f.supersededBy # None <=> Passed(d, id, "superseded", q) # {}
               /\ f.status = "retracted" <=> Passed(d, id, "retracted", q) # {}
               /\ \A r \in Passed(d, id, "superseded", q) :
                     /\ f.supersededBy \in FactsSeen(d, q)
                     /\ d.facts[f.supersededBy].createdAt = d.factRevisions[r].txTime
<1> DEFINE f == FactAt(d, id, q)
           next == d.facts[id].supersededBy
<1>1. /\ Sound(d) /\ IsDB(d) /\ RevisionsAreGrounded(d) /\ SupersessionIsLogged(d) /\ Lineage(d.facts)
      /\ NamesAreLogged(d) /\ TransitionsAreLogged(d) /\ StatementsAreLogged(d)
      /\ id \in DOMAIN d.facts
  BY DEF Chronicled, Sound, LineageHolds, ChainsAreLogged, LinksAreLogged, FactsSeen, PlacesHold, FactsPlaced
<1>2. None \notin DOMAIN d.facts
  BY <1>1, InputAssumption DEF IsDB, IsMap
<1>3. \A r \in DOMAIN d.factRevisions : d.factRevisions[r].txTime \in Nat /\ d.factRevisions[r].record \in Fact
  BY <1>1, StampTypes
<1>4. PICK last \in DOMAIN d.factRevisions :
        /\ d.factRevisions[last].fact = id /\ WithinCut(d.factRevisions[last].txTime, q)
        /\ f = d.factRevisions[last].record
        /\ \A x \in DOMAIN d.factRevisions :
              d.factRevisions[x].fact = id /\ WithinCut(d.factRevisions[x].txTime, q)
                => d.factRevisions[x].txTime <= d.factRevisions[last].txTime
  BY <1>1, LastSeen
<1>5. \A t, u \in Nat : t <= u /\ WithinCut(u, q) => WithinCut(t, q)
  BY SMTT(30) DEF WithinCut, Request
<1> HIDE DEF f
<1>6. /\ f.supersededBy \in {None, next}
      /\ next # None => (f.supersededBy = next <=> d.facts[next].createdAt <= d.factRevisions[last].txTime)
  BY <1>1, <1>4 DEF NamesAreLogged, SupersessionIsLogged
<1>7. next # None => next \in DOMAIN d.facts /\ d.facts[next].space = d.facts[id].space
  BY <1>1 DEF Lineage, SameSlot
<1>8. ASSUME NEW r \in Departures(d, id), d.factRevisions[r].record.status = "superseded"
      PROVE  next # None /\ d.facts[next].createdAt = d.factRevisions[r].txTime
  <2>1. r \in DOMAIN d.factRevisions /\ d.factRevisions[r].fact = id /\ Transition(d, r)
    BY <1>1 DEF Departures, TransitionsAreLogged
  <2>2. /\ d.factRevisions[r].record.supersededBy \in DOMAIN d.facts
        /\ d.facts[d.factRevisions[r].record.supersededBy].createdAt = d.factRevisions[r].txTime
    BY <1>8, <2>1 DEF Transition
  <2>3. d.factRevisions[r].record.supersededBy \in {None, next}
    BY <1>1, <2>1 DEF NamesAreLogged
  <2> QED BY <1>2, <2>2, <2>3
<1>9. ASSUME NEW r \in Passed(d, id, "superseded", q)
      PROVE  f.supersededBy = next /\ next # None /\ d.facts[next].createdAt = d.factRevisions[r].txTime
  <2>1. /\ r \in DOMAIN d.factRevisions /\ d.factRevisions[r].fact = id /\ r \in Departures(d, id)
        /\ d.factRevisions[r].record.status = "superseded" /\ WithinCut(d.factRevisions[r].txTime, q)
    BY DEF Passed, Departures
  <2> QED BY <1>4, <1>6, <1>8, <2>1
<1>10. ASSUME f.supersededBy # None PROVE Passed(d, id, "superseded", q) # {}
  <2>1. next # None /\ f.supersededBy = next
    BY <1>6, <1>10
  <2>2. PICK r \in DOMAIN d.factRevisions :
           d.factRevisions[r].fact = id /\ d.factRevisions[r].record.status = "superseded"
    BY <1>1, <2>1 DEF TransitionsAreLogged
  <2>3. r \in Departures(d, id)
    BY <2>2 DEF Departures
  <2>4. d.facts[next].createdAt = d.factRevisions[r].txTime
    BY <1>8, <2>2, <2>3
  <2>5. WithinCut(d.factRevisions[r].txTime, q)
    BY <1>3, <1>4, <1>5, <1>6, <2>1, <2>4
  <2> QED BY <2>2, <2>3, <2>5 DEF Passed
<1>11. f.status = "retracted" => last \in Passed(d, id, "retracted", q)
  BY <1>4 DEF Passed, Departures
<1>12. ASSUME NEW r \in Passed(d, id, "retracted", q) PROVE f.status = "retracted"
  <2>1. /\ r \in DOMAIN d.factRevisions /\ d.factRevisions[r].fact = id
        /\ d.factRevisions[r].record.status = "retracted" /\ WithinCut(d.factRevisions[r].txTime, q)
    BY DEF Passed, Departures
  <2>2. Transition(d, r)
    BY <1>1, <2>1 DEF TransitionsAreLogged
  <2>3. d.factRevisions[r].txTime <= d.factRevisions[last].txTime
    BY <1>4, <2>1
  <2>4. r # last => d.factRevisions[last].txTime < d.factRevisions[r].txTime
    BY <1>4, <2>1, <2>2 DEF Transition
  <2>5. r = last
    BY <1>3, <2>1, <2>3, <2>4
  <2> QED BY <1>4, <2>1, <2>5
<1>13. ASSUME NEW r \in Passed(d, id, "superseded", q) PROVE next \in FactsSeen(d, q)
  <2>1. next \in DOMAIN d.facts /\ d.facts[next].space = d.facts[id].space
    BY <1>7, <1>9
  <2>2. WithinCut(d.facts[next].createdAt, q)
    BY <1>9 DEF Passed
  <2>3. d.facts[id].space = q.space
    BY <1>1, SeenInCut
  <2> QED BY <1>1, <2>1, <2>2, <2>3, SeenInCut
<1>14. \A r \in Passed(d, id, "superseded", q) :
          f.supersededBy \in FactsSeen(d, q) /\ d.facts[f.supersededBy].createdAt = d.factRevisions[r].txTime
  BY <1>9, <1>13
<1>15. f.supersededBy # None <=> Passed(d, id, "superseded", q) # {}
  BY <1>9, <1>10
<1>16. f.status = "retracted" <=> Passed(d, id, "retracted", q) # {}
  BY <1>11, <1>12
<1> QED BY <1>14, <1>15, <1>16 DEF f

(* A list is a sequence.                                                   *)
LEMMA ListIsASequence ==
    ASSUME NEW S, NEW order, NEW s, NEW n, Lists(s, n, S, order)
    PROVE  s \in Seq(S) /\ Len(s) = n
<1>1. n \in Nat /\ s \in [1..n -> S]
  BY DEF Lists
<1>2. s \in UNION {[1..k -> S] : k \in Nat}
  BY <1>1, Zenon
<1>3. s \in Seq(S)
  BY <1>2, SeqDef
<1>4. DOMAIN s = 1..Len(s) /\ Len(s) \in Nat
  BY <1>3, LenProperties
<1>5. DOMAIN s = 1..n
  BY <1>1
<1> QED BY <1>1, <1>3, <1>4, <1>5

(* Backwards, a list is in the opposite order.                             *)
LEMMA ReversedLists ==
    ASSUME NEW events, \A e \in events : e.at \in Nat, \A a, b \in events : a.at = b.at => a = b,
           NEW s, NEW n, Lists(s, n, events, ByTime(events, FALSE))
    PROVE  Lists(Seqs!Reverse(s), n, events, ByTime(events, TRUE))
<1> DEFINE t == Seqs!Reverse(s)
<1>1. Len(s) = n
  BY ListIsASequence
<1>2. /\ n \in Nat /\ s \in [1..n -> events]
      /\ \A x \in events : \E i \in 1..n : s[i] = x
      /\ \A i, j \in 1..n : i < j => s[i].at < s[j].at
  BY ByTimeOrders DEF Lists
<1>3. t = [i \in 1..n |-> s[(n - i) + 1]]
  BY <1>1 DEF Seqs!Reverse
<1>4. \A i \in 1..n : (n - i) + 1 \in 1..n
  BY <1>2
<1> HIDE DEF t
<1>5. t \in [1..n -> events]
  BY <1>2, <1>3, <1>4
<1>6. ASSUME NEW x \in events PROVE \E i \in 1..n : t[i] = x
  <2>1. PICK i \in 1..n : s[i] = x
    BY <1>2
  <2>2. (n - i) + 1 \in 1..n /\ (n - ((n - i) + 1)) + 1 = i
    BY <1>2
  <2>3. t[(n - i) + 1] = x
    BY <1>3, <2>1, <2>2
  <2> QED BY <2>2, <2>3
<1>7. ASSUME NEW i \in 1..n, NEW j \in 1..n, i < j PROVE <<t[i], t[j]>> \in ByTime(events, TRUE)
  <2>1. (n - i) + 1 \in 1..n /\ (n - j) + 1 \in 1..n /\ (n - j) + 1 < (n - i) + 1
    BY <1>2, <1>7
  <2>2. s[(n - j) + 1].at < s[(n - i) + 1].at
    BY <1>2, <2>1
  <2>3. t[i] = s[(n - i) + 1] /\ t[j] = s[(n - j) + 1] /\ t[i] \in events /\ t[j] \in events
    BY <1>3, <1>5
  <2>4. t[i].at > t[j].at
    BY <2>2, <2>3
  <2> QED BY <2>3, <2>4, ByTimeOrders
<1> QED BY <1>2, <1>5, <1>6, <1>7 DEF Lists, t

(* No event is a list.                                                     *)
LEMMA NoEvent == Lists(<< >>, 0, {}, ByTime({}, FALSE))
<1>1. << >> \in [1..0 -> {}]
  OBVIOUS
<1> QED BY <1>1 DEF Lists

(* A single event is a list.                                               *)
LEMMA OneEvent ==
    ASSUME NEW a
    PROVE  Lists(<<a>>, 1, {a}, ByTime({a}, FALSE))
BY DEF Lists

(* Two events at rising instants are a list.                               *)
LEMMA TwoEvents ==
    ASSUME NEW a, NEW b, a.at < b.at
    PROVE  Lists(<<a, b>>, 2, {a, b}, ByTime({a, b}, FALSE))
<1> DEFINE s == <<a, b>>
           S == {a, b}
<1>1. s \in [1..2 -> S] /\ s[1] = a /\ s[2] = b
  OBVIOUS
<1>2. <<a, b>> \in ByTime(S, FALSE)
  BY DEF ByTime
<1> HIDE DEF s, S
<1>3. \A i, j \in 1..2 : i < j => i = 1 /\ j = 2
  OBVIOUS
<1>4. \A i, j \in 1..2 : i < j => <<s[i], s[j]>> \in ByTime(S, FALSE)
  BY <1>1, <1>2, <1>3
<1>5. \A x \in S : \E i \in 1..2 : s[i] = x
  BY <1>1 DEF S
<1>6. Lists(s, 2, S, ByTime(S, FALSE))
  BY <1>1, <1>4, <1>5 DEF Lists
<1> QED BY <1>6 DEF s, S

(* A list of transitions in the order of time is the one a timeline tells. *)
LEMMA OnlyListing ==
    ASSUME NEW d, Chronicled(d), NEW q \in Request, OnlyACut(q),
           NEW id \in FactsSeen(d, WithInactive(q)), NEW s, NEW n,
           Lists(s, n, Departed(d, id, WithInactive(q)),
                 ByTime(Departed(d, id, WithInactive(q)), FALSE))
    PROVE  /\ Told(Timeline(d, q, FALSE), id) = s
           /\ Told(Timeline(d, q, TRUE), id) = Seqs!Reverse(s)
<1> DEFINE C == Departed(d, id, WithInactive(q))
           forth == Told(Timeline(d, q, FALSE), id)
           back == Told(Timeline(d, q, TRUE), id)
<1>1. /\ \E m : Lists(forth, m, C, ByTime(C, FALSE))
      /\ \E m : Lists(back, m, C, ByTime(C, TRUE))
      /\ \A e \in C : e.at \in Nat
      /\ \A a, b \in C : a.at = b.at => a = b
  <2>1. FALSE \in BOOLEAN /\ TRUE \in BOOLEAN
    OBVIOUS
  <2> QED BY <2>1, ToldLists, Zenon
<1>2. Lists(s, n, C, ByTime(C, FALSE))
  OBVIOUS
<1> HIDE DEF C, forth, back
<1>3. StrictlyOrders(ByTime(C, FALSE), C) /\ StrictlyOrders(ByTime(C, TRUE), C)
  BY <1>1, ByTimeOrders
<1>4. Lists(Seqs!Reverse(s), n, C, ByTime(C, TRUE))
  BY <1>1, <1>2, ReversedLists
<1>5. forth = s
  <2>1. PICK m : Lists(forth, m, C, ByTime(C, FALSE))
    BY <1>1
  <2> QED BY <1>2, <1>3, <2>1, ListsAgree, Zenon
<1>6. back = Seqs!Reverse(s)
  <2>1. PICK m : Lists(back, m, C, ByTime(C, TRUE))
    BY <1>1
  <2> QED BY <1>3, <1>4, <2>1, ListsAgree, Zenon
<1> QED BY <1>5, <1>6 DEF forth, back

(* The story of a fact, event by event.                                    *)
LEMMA StoryParts ==
    ASSUME NEW f
    PROVE  LET s == Story(f)
               gone == f.supersededBy # None
               ended == f.status = "retracted"
           IN  /\ ~gone /\ ~ended => Len(s) = 0
               /\ gone /\ ~ended => Len(s) = 1 /\ s[1] = "fact_superseded"
               /\ ~gone /\ ended => Len(s) = 1 /\ s[1] = "fact_retracted"
               /\ gone /\ ended => Len(s) = 2 /\ s[1] = "fact_superseded" /\ s[2] = "fact_retracted"
<1> DEFINE V == {"fact_superseded", "fact_retracted"}
           b == <<"fact_superseded">>
           c == <<"fact_retracted">>
           none == << >>
           gone == f.supersededBy # None
           ended == f.status = "retracted"
           y == IF f.supersededBy = None THEN none ELSE b
           z == IF f.status = "retracted" THEN c ELSE none
           s == Story(f)
<1>1. b \in Seq(V) /\ c \in Seq(V) /\ none \in Seq(V)
  OBVIOUS
<1>2. Len(b) = 1 /\ Len(c) = 1 /\ Len(none) = 0
  OBVIOUS
<1>3. b[1] = "fact_superseded" /\ c[1] = "fact_retracted"
  OBVIOUS
<1>4. s = y \o z
  BY Zenon DEF Story
<1>5. (gone => y = b) /\ (~gone => y = none) /\ (ended => z = c) /\ (~ended => z = none)
  OBVIOUS
<1> HIDE DEF V, b, c, none, gone, ended, y, z, s
<1>6. y \in Seq(V) /\ z \in Seq(V) /\ Len(y) \in {0, 1} /\ Len(z) \in {0, 1}
  BY <1>1, <1>2, <1>5
<1>7. /\ Len(s) = Len(y) + Len(z)
      /\ \A i \in 1..(Len(y) + Len(z)) : s[i] = IF i <= Len(y) THEN y[i] ELSE z[i - Len(y)]
  BY <1>4, <1>6, ConcatProperties
<1>8. ~gone /\ ~ended => Len(s) = 0
  BY <1>2, <1>5, <1>7
<1>9. gone /\ ~ended => Len(s) = 1 /\ s[1] = "fact_superseded"
  BY <1>2, <1>3, <1>5, <1>7
<1>10. ~gone /\ ended => Len(s) = 1 /\ s[1] = "fact_retracted"
  <2> SUFFICES ASSUME ~gone, ended PROVE Len(s) = 1 /\ s[1] = "fact_retracted"
    OBVIOUS
  <2>1. Len(y) = 0 /\ Len(z) = 1 /\ z[1] = "fact_retracted"
    BY <1>2, <1>3, <1>5
  <2>2. Len(s) = 1 /\ s[1] = z[1 - 0]
    BY <1>7, <2>1
  <2>3. 1 - 0 = 1
    OBVIOUS
  <2> QED BY <2>1, <2>2, <2>3
<1>11. gone /\ ended => Len(s) = 2 /\ s[1] = "fact_superseded" /\ s[2] = "fact_retracted"
  <2> SUFFICES ASSUME gone, ended
               PROVE  Len(s) = 2 /\ s[1] = "fact_superseded" /\ s[2] = "fact_retracted"
    OBVIOUS
  <2>1. Len(y) = 1 /\ Len(z) = 1 /\ y[1] = "fact_superseded" /\ z[1] = "fact_retracted"
    BY <1>2, <1>3, <1>5
  <2>2. Len(s) = 2 /\ s[1] = y[1] /\ s[2] = z[2 - 1]
    BY <1>7, <2>1
  <2>3. 2 - 1 = 1
    OBVIOUS
  <2> QED BY <2>1, <2>2, <2>3
<1> QED BY <1>8, <1>9, <1>10, <1>11 DEF gone, ended, s

(* The transitions a timeline tells are the story of the version at the    *)
(* cut.                                                                    *)
LEMMA StoryTold ==
    ASSUME NEW d, Chronicled(d), NEW q \in Request, OnlyACut(q), NEW id \in FactsSeen(d, WithInactive(q))
    PROVE  LET w == WithInactive(q)
               told == Told(Timeline(d, q, FALSE), id)
           IN  /\ Tells(told, Story(FactAt(d, id, w)))
               /\ Told(Timeline(d, q, TRUE), id) = Seqs!Reverse(told)
               /\ \A r \in Passed(d, id, "superseded", w) : told[1].at = d.factRevisions[r].txTime
<1> DEFINE w == WithInactive(q)
           C == Departed(d, id, w)
           f == FactAt(d, id, w)
           sup == Passed(d, id, "superseded", w)
           ret == Passed(d, id, "retracted", w)
           told == Told(Timeline(d, q, FALSE), id)
           back == Told(Timeline(d, q, TRUE), id)
<1>1. w \in Request /\ OnlyACut(w) /\ w.inactive /\ id \in DOMAIN d.facts
  BY InactiveToo DEF FactsSeen
<1>2. (f.supersededBy # None <=> sup # {}) /\ (f.status = "retracted" <=> ret # {})
  BY <1>1, VersionKnows
<1>3. C = {DepartureEvent(d, r) : r \in sup \cup ret}
  <2>1. \A r \in Departures(d, id) : d.factRevisions[r].record.status \in {"superseded", "retracted"}
    BY <1>1, DeparturesInTurn
  <2>2. {x \in Departures(d, id) : WithinCut(d.factRevisions[x].txTime, w)} = sup \cup ret
    BY <2>1 DEF Passed
  <2> QED BY <2>2 DEF Departed
<1>4. /\ \A r, x \in sup : r = x
      /\ \A r, x \in ret : r = x
      /\ \A r \in sup, x \in ret : d.factRevisions[r].txTime < d.factRevisions[x].txTime
  BY <1>1, DeparturesInTurn DEF Passed
<1>5. /\ \A r \in sup : /\ DepartureEvent(d, r).at = d.factRevisions[r].txTime
                        /\ DepartureEvent(d, r).type = "fact_superseded"
      /\ \A r \in ret : /\ DepartureEvent(d, r).at = d.factRevisions[r].txTime
                        /\ DepartureEvent(d, r).type = "fact_retracted"
  BY DEF DepartureEvent, Event, Passed
<1>6. \A s, n : Lists(s, n, C, ByTime(C, FALSE)) =>
         told = s /\ Len(s) = n /\ back = Seqs!Reverse(s)
  <2> TAKE s, n
  <2> HAVE Lists(s, n, C, ByTime(C, FALSE))
  <2>1. Lists(s, n, Departed(d, id, WithInactive(q)), ByTime(Departed(d, id, WithInactive(q)), FALSE))
    OBVIOUS
  <2>2. Len(s) = n
    BY ListIsASequence
  <2>3. told = s /\ back = Seqs!Reverse(s)
    BY <2>1, OnlyListing, Zenon
  <2> QED BY <2>2, <2>3
<1>7. /\ ~(f.supersededBy # None) /\ ~(f.status = "retracted") => Len(Story(f)) = 0
      /\ f.supersededBy # None /\ ~(f.status = "retracted")
           => Len(Story(f)) = 1 /\ Story(f)[1] = "fact_superseded"
      /\ ~(f.supersededBy # None) /\ f.status = "retracted"
           => Len(Story(f)) = 1 /\ Story(f)[1] = "fact_retracted"
      /\ f.supersededBy # None /\ f.status = "retracted"
           => Len(Story(f)) = 2 /\ Story(f)[1] = "fact_superseded" /\ Story(f)[2] = "fact_retracted"
  BY StoryParts, Zenon
<1> HIDE DEF w, C, f, sup, ret, told, back
<1>8. ASSUME NEW s, NEW n, Lists(s, n, C, ByTime(C, FALSE)), n = Len(Story(f)),
             \A i \in 1..n : s[i].type = Story(f)[i],
             \A r \in sup : s[1].at = d.factRevisions[r].txTime
      PROVE  /\ Tells(told, Story(f)) /\ back = Seqs!Reverse(told)
             /\ \A r \in sup : told[1].at = d.factRevisions[r].txTime
  <2>1. told = s /\ Len(s) = n /\ back = Seqs!Reverse(s)
    BY <1>6, <1>8
  <2> QED BY <1>8, <2>1 DEF Tells
<1>9. CASE sup = {} /\ ret = {}
  <2> DEFINE s == << >>
  <2>1. C = {}
    BY <1>3, <1>9
  <2>2. Lists(s, 0, C, ByTime(C, FALSE))
    BY <2>1, NoEvent
  <2>3. 0 = Len(Story(f))
    BY <1>2, <1>7, <1>9
  <2>4. (\A i \in 1..0 : s[i].type = Story(f)[i]) /\ \A r \in sup : s[1].at = d.factRevisions[r].txTime
    BY <1>9
  <2> HIDE DEF s
  <2> QED BY <1>8, <2>2, <2>3, <2>4 DEF w, f, told, back, sup
<1>10. CASE sup # {} /\ ret = {}
  <2>1. PICK r \in sup : TRUE
    BY <1>10
  <2> DEFINE b == DepartureEvent(d, r)
             s == <<b>>
  <2>2. C = {b}
    BY <1>3, <1>4, <1>10, <2>1
  <2>3. Lists(s, 1, C, ByTime(C, FALSE))
    BY <2>2, OneEvent
  <2>4. Len(Story(f)) = 1 /\ Story(f)[1] = "fact_superseded"
    BY <1>2, <1>7, <1>10
  <2>5. b.type = "fact_superseded" /\ \A x \in sup : b.at = d.factRevisions[x].txTime
    BY <1>4, <1>5
  <2> HIDE DEF b
  <2>6. /\ 1 = Len(Story(f)) /\ s[1] = b
        /\ \A i \in 1..1 : s[i].type = Story(f)[i]
    BY <2>4, <2>5
  <2>7. \A x \in sup : s[1].at = d.factRevisions[x].txTime
    BY <2>5, <2>6
  <2> HIDE DEF s
  <2> QED BY <1>8, <2>3, <2>6, <2>7 DEF w, f, told, back, sup
<1>11. CASE sup = {} /\ ret # {}
  <2>1. PICK r \in ret : TRUE
    BY <1>11
  <2> DEFINE b == DepartureEvent(d, r)
             s == <<b>>
  <2>2. C = {b}
    BY <1>3, <1>4, <1>11, <2>1
  <2>3. Lists(s, 1, C, ByTime(C, FALSE))
    BY <2>2, OneEvent
  <2>4. Len(Story(f)) = 1 /\ Story(f)[1] = "fact_retracted"
    BY <1>2, <1>7, <1>11
  <2>5. b.type = "fact_retracted"
    BY <1>5
  <2> HIDE DEF b
  <2>6. /\ 1 = Len(Story(f)) /\ s[1] = b
        /\ \A i \in 1..1 : s[i].type = Story(f)[i]
    BY <2>4, <2>5
  <2>7. \A x \in sup : s[1].at = d.factRevisions[x].txTime
    BY <1>11
  <2> HIDE DEF s
  <2> QED BY <1>8, <2>3, <2>6, <2>7 DEF w, f, told, back, sup
<1>12. CASE sup # {} /\ ret # {}
  <2>1. PICK r \in sup : TRUE
    BY <1>12
  <2>2. PICK y \in ret : TRUE
    BY <1>12
  <2> DEFINE b == DepartureEvent(d, r)
             c == DepartureEvent(d, y)
             s == <<b, c>>
  <2>3. C = {b, c}
    BY <1>3, <1>4, <1>12, <2>1, <2>2
  <2>4. b.at < c.at
    BY <1>4, <1>5
  <2>5. Lists(s, 2, C, ByTime(C, FALSE))
    BY <2>3, <2>4, TwoEvents
  <2>6. Len(Story(f)) = 2 /\ Story(f)[1] = "fact_superseded" /\ Story(f)[2] = "fact_retracted"
    BY <1>2, <1>7, <1>12
  <2>7. /\ b.type = "fact_superseded" /\ c.type = "fact_retracted"
        /\ \A x \in sup : b.at = d.factRevisions[x].txTime
    BY <1>4, <1>5
  <2> HIDE DEF b, c
  <2>8. /\ 2 = Len(Story(f)) /\ s[1] = b /\ s[2] = c
        /\ \A i \in 1..2 : s[i].type = Story(f)[i]
    BY <2>6, <2>7
  <2>9. \A x \in sup : s[1].at = d.factRevisions[x].txTime
    BY <2>7, <2>8
  <2> HIDE DEF s
  <2> QED BY <1>8, <2>5, <2>8, <2>9 DEF w, f, told, back, sup
<1> QED BY <1>9, <1>10, <1>11, <1>12

(* A supersession is told at the instant its successor was written, and    *)
(* the same timeline shows the successor.                                  *)
LEMMA SuccessorTold ==
    ASSUME NEW d, Chronicled(d), NEW q \in Request, OnlyACut(q), NEW id \in FactsSeen(d, WithInactive(q)),
           FactAt(d, id, WithInactive(q)).supersededBy # None
    PROVE  LET all == Timeline(d, q, FALSE)
           IN  SuccessorIsTold(d, Told(all, id), FactAt(d, id, WithInactive(q)).supersededBy, all, q)
<1> DEFINE w == WithInactive(q)
           all == Timeline(d, q, FALSE)
           next == FactAt(d, id, w).supersededBy
           told == Told(all, id)
           passed == Passed(d, id, "superseded", w)
<1>1. w \in Request /\ OnlyACut(w) /\ w.inactive /\ w.asOf = q.asOf /\ q.asOf \in Nat
  BY InactiveToo DEF Request
<1>2. \A r \in passed : told[1].at = d.factRevisions[r].txTime
  BY StoryTold, Zenon
<1>3. /\ passed # {}
      /\ \A r \in passed : next \in FactsSeen(d, w) /\ d.facts[next].createdAt = d.factRevisions[r].txTime
  BY <1>1, VersionKnows, Zenon
<1>4. \A r \in passed : WithinCut(d.factRevisions[r].txTime, w)
  BY DEF Passed
<1>5. next \in FactsSeen(d, w) => CreationIsTold(Creations(all, next), all, CreationEvent(d, next), q)
  BY CreationTold, Zenon
<1>6. \A x : d.facts[x].observedAt = 0 => CreationEvent(d, x).at = d.facts[x].createdAt
  BY DEF CreationEvent, ChooseTime, Event
<1> HIDE DEF w, all, next, told, passed
<1>7. PICK r \in passed : TRUE
  BY <1>3
<1>8. /\ told[1].at = d.facts[next].createdAt /\ next \in FactsSeen(d, w)
      /\ WithinCut(d.facts[next].createdAt, w)
  BY <1>2, <1>3, <1>4, <1>7
<1>9. ASSUME d.facts[next].observedAt = 0 PROVE \E i \in Creations(all, next) : all[i].at = told[1].at
  <2>1. CreationEvent(d, next).at = told[1].at
    BY <1>6, <1>8, <1>9
  <2>2. ~(q.asOf # 0 /\ CreationEvent(d, next).at > q.asOf)
    <3>1. FactsSeen(d, w) \subseteq DOMAIN d.facts /\ IsDB(d) /\ RevisionsAreGrounded(d)
      BY DEF FactsSeen, Chronicled, Sound
    <3>2. d.facts[next].createdAt \in Nat
      BY <1>8, <3>1, StampTypes
    <3> QED BY <1>1, <1>6, <1>8, <1>9, <3>2 DEF WithinCut
  <2>3. PICK i \in Creations(all, next) : all[i] = CreationEvent(d, next)
    BY <1>5, <1>8, <2>2 DEF CreationIsTold
  <2> QED BY <2>1, <2>3
<1>10. SuccessorIsTold(d, told, next, all, q)
  BY <1>8, <1>9 DEF SuccessorIsTold, w
<1> QED BY <1>10 DEF told, next, all, w

(* The timeline tells each fact's lifecycle as the version at the cut has  *)
(* it, read in either direction: its transitions in their order, its       *)
(* creation once at the time it was observed -- whatever time a caller     *)
(* gave -- or not at all where the cut hides that time, and its            *)
(* supersession at the instant its successor was written, beside it        *)
(* (timelineEvents, chooseTime, timelineEntryBefore).  Requests narrow the *)
(* timeline to a cut and a space only: a further filter leaves out parts.  *)
THEOREM TimelinesTellLifecycles ==
    ASSUME \A q \in Requests.timeline : OnlyACut(q)
    PROVE  QueriesSpec => []TimelineTellsTheLifecycle
<1>1. ASSUME IInv, UniqueInv, LineageInv, PlacesInv, LinksInv, FiniteInv, PastInv
      PROVE  TimelineTellsTheLifecycle
  <2>1. Sound(db)
    BY <1>1 DEF IInv, TypeOK, UniqueInv, LineageInv, PlacesInv, Sound
  <2>2. Chronicled(db)
    BY <1>1, <2>1 DEF LinksInv, FiniteInv, PastInv, IsTold, Chronicled
  <2>3. Requests.timeline \subseteq Request
    BY RequestAssumption
  <2>4. ASSUME NEW q \in Requests.timeline, NEW id \in FactsSeen(db, WithInactive(q))
        PROVE  TellsLifecycle(db, id, FactAt(db, id, WithInactive(q)), q,
                              Timeline(db, q, FALSE), Timeline(db, q, TRUE))
    <3> DEFINE all == Timeline(db, q, FALSE)
               back == Timeline(db, q, TRUE)
               f == FactAt(db, id, WithInactive(q))
    <3>1. q \in Request /\ OnlyACut(q)
      BY <2>3
    <3>2. Tells(Told(all, id), Story(f)) /\ Told(back, id) = Seqs!Reverse(Told(all, id))
      BY <2>2, <3>1, StoryTold, Zenon
    <3>3. TRUE \in BOOLEAN /\ FALSE \in BOOLEAN
      OBVIOUS
    <3>4. CreationIsTold(Creations(all, id), all, CreationEvent(db, id), q) /\ CreationIsPlaced(all, id, FALSE)
      BY <2>2, <3>1, <3>3, CreationTold, Zenon
    <3>5. CreationIsTold(Creations(back, id), back, CreationEvent(db, id), q) /\ CreationIsPlaced(back, id, TRUE)
      BY <2>2, <3>1, <3>3, CreationTold, Zenon
    <3>6. f.supersededBy # None => SuccessorIsTold(db, Told(all, id), f.supersededBy, all, q)
      BY <2>2, <3>1, SuccessorTold, Zenon
    <3> HIDE DEF all, back, f
    <3>7. TellsLifecycle(db, id, f, q, all, back)
      BY <3>2, <3>4, <3>5, <3>6, Zenon DEF TellsLifecycle
    <3> QED BY <3>7 DEF all, back, f
  <2> QED BY <2>4, Zenon DEF TimelineTellsTheLifecycle, TellsLifecycles
<1>2. Spec => []UniqueInv
  BY TypeCorrect, UniqueInit, UniqueStep, PTL DEF Spec
<1>3. Spec => []TimelineTellsTheLifecycle
  BY <1>1, <1>2, InvariantHolds, LineageInvariance, PlacesInvariance, LinksInvariance,
     FiniteInvariance, PastInvariance, PTL
<1> QED BY <1>3, QueriesAreReads, PTL

=============================================================================
