------------------------------ MODULE Queries ------------------------------
(***************************************************************************)
(* The query families of pkg/yeoul (graph.go, search.go, includes.go, the  *)
(* filters of temporal.go) over the engine of module Engine.  A query is   *)
(* one critical section under the read lock, so it is an operator on the   *)
(* engine's maps; the readers that take the lock several times -- a client *)
(* that follows cursors, and GetRecord of a fact -- are actions.           *)
(*                                                                         *)
(* What is abstracted: entity metadata and type are functions of the       *)
(* entity's value; text either matches the query or not (the set           *)
(* Matching), so the score, its threshold and the ranking of search hits   *)
(* are left out; of the scope filter, group ids and source kinds are left  *)
(* out beside source ids, as are the allow-lists of node and edge types.   *)
(***************************************************************************)
EXTENDS Engine, Sequences
Seqs == INSTANCE SequencesExt

CONSTANTS
    DuplicateOf,    \* of an entity value: its duplicate_of entry, None without one
    Blank,          \* a duplicate_of entry that is present and empty
    EntityType,     \* of an entity value: its type
    Matching,       \* the contents, values and predicates the search text matches
    PrefixRank,     \* the order of id prefixes, which orders ids
    MaxCandidates,  \* bound of an indexed lookup on entity ids (8 in the code)
    MaxHops,        \* bound on the redirects a read follows (64 in the code)
    Requests        \* the requests clients send, by what they ask for

VARIABLE reader     \* the client between two of its calls, or of its locks

allvars == <<clock, db, snapshot, txTime, phase, reader>>

(* A request; 0 is no instant and an empty set no restriction.             *)
Request == [space : STRING, ids : SUBSET ID, subjects : SUBSET ID, objects : SUBSET ID,
            predicates : SUBSET STRING, asOf : Nat, inactive : BOOLEAN, validAt : Nat,
            validFrom : Nat, validTo : Nat, observedFrom : Nat, observedTo : Nat,
            statuses : SUBSET STRING, types : SUBSET STRING, sources : SUBSET ID,
            kinds : SUBSET STRING, limit : Nat, hops : Nat, include : SUBSET STRING,
            mode : STRING]

ASSUME RequestAssumption ==
    /\ None \notin DOMAIN EntityType /\ DOMAIN EntityType = DOMAIN DuplicateOf
    /\ \A in \in EntityInputs : in.value \in DOMAIN EntityType
    /\ DOMAIN Requests = {"past", "graph", "search", "timeline", "pages", "record"}
    /\ \A family \in DOMAIN Requests : Requests[family] \subseteq Request
    /\ \A q \in Requests.record : q.ids # {}
    /\ MaxCandidates \in Nat /\ MaxHops \in Nat \ {0}
    /\ Blank \notin ID
    /\ Prefixes \subseteq DOMAIN PrefixRank /\ CallerIDs \subseteq (DOMAIN PrefixRank) \X Nat
    /\ \A p \in DOMAIN PrefixRank : PrefixRank[p] \in Nat
    /\ \A p, r \in DOMAIN PrefixRank : PrefixRank[p] = PrefixRank[r] => p = r

Before(a, b) ==
    \/ PrefixRank[a[1]] < PrefixRank[b[1]]
    \/ PrefixRank[a[1]] = PrefixRank[b[1]] /\ a[2] < b[2]

-----------------------------------------------------------------------------
(* Temporal filters and scope (temporal.go).                               *)

(* chooseTime: the time of observation a caller gave, or else when the     *)
(* engine wrote the record.                                                *)
ChooseTime(observed, written) == IF observed = 0 THEN written ELSE observed

Observable(at, q) ==
    /\ q.observedFrom # 0 => at >= q.observedFrom
    /\ q.observedTo # 0 => at <= q.observedTo

DomainValid(f, q) ==
    /\ q.validAt # 0 => /\ f.validFrom <= q.validAt
                        /\ f.validTo = 0 \/ q.validAt < f.validTo
    /\ q.validFrom # 0 => f.validTo = 0 \/ f.validTo > q.validFrom
    /\ q.validTo # 0 => f.validFrom = 0 \/ f.validFrom < q.validTo

(* factVisibleAt.                                                          *)
FactVisible(f, q) ==
    /\ q.asOf # 0 => f.createdAt <= q.asOf
    /\ q.inactive \/ f.status = "active"
    /\ Observable(ChooseTime(f.observedAt, f.createdAt), q)
    /\ DomainValid(f, q)

(* factVersionAt: the record a query sees, or None.                        *)
IfVisible(f, q) == IF f = None THEN None ELSE IF FactVisible(f, q) THEN f ELSE None
FactAt(d, id, q) ==
    IfVisible(IF q.asOf = 0 THEN d.facts[id] ELSE FactVersionAt(d, id, q.asOf), q)

EntityAt(d, id, q) == IF q.asOf = 0 THEN d.entities[id] ELSE EntityVersionAt(d, id, q.asOf)
EntityReadable(d, id, q) == id \in DOMAIN d.entities /\ EntityAt(d, id, q) # None

EpisodeReadable(d, id, q) ==
    /\ id \in DOMAIN d.episodes
    /\ q.asOf # 0 => d.episodes[id].ingestedAt <= q.asOf
    /\ Observable(ChooseTime(d.episodes[id].observedAt, d.episodes[id].ingestedAt), q)
SourceReadable(d, id, q) ==
    /\ id \in DOMAIN d.sources
    /\ q.asOf # 0 => d.sources[id].createdAt <= q.asOf

TypeMatches(e, q) == q.types = {} \/ EntityType[e.value] \in q.types

EpisodeInScope(d, ep, q) ==
    /\ ep.source \in DOMAIN d.sources
    /\ d.sources[ep.source].space = ep.space
    /\ q.sources = {} \/ ep.source \in q.sources

FactInScope(d, f, q) ==
    /\ q.statuses = {} \/ f.status \in q.statuses
    /\ q.types = {} \/ \E e \in {f.subject, f.object} :
                          EntityReadable(d, e, q) /\ TypeMatches(EntityAt(d, e, q), q)
    /\ q.sources = {} \/ \E ep \in f.support :
                          EpisodeReadable(d, ep, q) /\ EpisodeInScope(d, d.episodes[ep], q)

(* The facts, episodes and entities a query considers at all.              *)
FactSeen(d, f, q) == f # None /\ f.space = q.space /\ FactInScope(d, f, q)
FactsSeen(d, q) == {id \in DOMAIN d.facts : FactSeen(d, FactAt(d, id, q), q)}
EpisodesSeen(d, q) ==
    {id \in DOMAIN d.episodes :
        /\ d.episodes[id].space = q.space
        /\ EpisodeReadable(d, id, q)
        /\ EpisodeInScope(d, d.episodes[id], q)}
EntitiesSeen(d, q) ==
    {id \in DOMAIN d.entities : EntityReadable(d, id, q) /\ EntityAt(d, id, q).space = q.space}
SourcesSeen(d, q) ==
    {id \in DOMAIN d.sources : SourceReadable(d, id, q) /\ d.sources[id].space = q.space}

-----------------------------------------------------------------------------
(* Redirects of merged duplicates (history.go).                            *)

Mark(d, id, q) == DuplicateOf[EntityAt(d, id, q).value]
Marked(d, id, q) == Mark(d, id, q) \notin {None, Blank}

(* Where the mark of e, the entity id, leads: None from an entity without   *)
(* one and from a mark that is malformed, dangling or crosses a space.     *)
MarkLeads(d, id, e, q) ==
    LET mark == DuplicateOf[e.value]
    IN  IF /\ mark # id
           /\ EntityReadable(d, mark, q)
           /\ EntityAt(d, mark, q).space = e.space
        THEN mark ELSE None
Redirect(d, id, q) ==
    IF EntityReadable(d, id, q) THEN MarkLeads(d, id, EntityAt(d, id, q), q) ELSE None

(* What the walk visits before it gives up.                                *)
Hop(d, id, q) ==
    LET hop[n \in 0..(MaxHops - 1)] == IF n = 0 THEN id ELSE Redirect(d, hop[n - 1], q)
    IN  hop
Chain(d, id, q) == {Hop(d, id, q)[n] : n \in 0..(MaxHops - 1)}
Unmarked(d, ids, q) == {x \in ids : EntityReadable(d, x, q) /\ Mark(d, x, q) = None}
AnyOr(ids, id) == IF ids = {} THEN id ELSE CHOOSE x \in ids : TRUE

(* Mutant of Canonical: the chain is followed through the marks of today.  *)
CanonicalNow(d, id, q) ==
    LET now == [q EXCEPT !.asOf = 0] IN AnyOr(Unmarked(d, Chain(d, id, now), now), id)

(* canonicalEntityIDAtLocked: the unmarked end of the chain, or the raw id *)
(* of a chain that breaks or never ends.                                   *)
Canonical(d, id, q) == AnyOr(Unmarked(d, Chain(d, id, q), q), id)

CanonicalIDs(d, ids, q) == {Canonical(d, id, q) : id \in ids}
Subject(d, f, q) == Canonical(d, f.subject, q)
Object(d, f, q) == IF f.object = None THEN None ELSE Canonical(d, f.object, q)

(* matchesAnchors.                                                         *)
MatchesAnchors(anchors, ids) == anchors = {} \/ ids \cap anchors # {}
FactAnchorIDs(d, id, f, q) == {id, Subject(d, f, q), Object(d, f, q)} \cup f.support

-----------------------------------------------------------------------------
(* Pages and cursors: a cursor is the offset of the next item, 0 for none. *)

\* The members in an order given by its pairs: each after as many as precede it.
Sorted(S, order) ==
    [i \in 1..Cardinality(S) |->
        CHOOSE x \in S : Cardinality({y \in S : <<y, x>> \in order}) = i - 1]

(* Mutant of Page: the cursor skips the item after the page.               *)
PageSkipping(items, offset, limit) ==
    LET end == IF limit = 0 \/ offset + limit > Len(items) THEN Len(items) ELSE offset + limit
    IN  [items |-> SubSeq(items, offset + 1, end),
         next |-> IF end + 1 >= Len(items) THEN 0 ELSE end + 1]

Page(items, offset, limit) ==
    LET end == IF limit = 0 \/ offset + limit > Len(items) THEN Len(items) ELSE offset + limit
    IN  [items |-> SubSeq(items, offset + 1, end), next |-> IF end >= Len(items) THEN 0 ELSE end]

-----------------------------------------------------------------------------
(* LookupFacts.                                                            *)

FactFound(d, id, q) ==
    LET f == FactAt(d, id, q)
    IN  /\ id \in FactsSeen(d, q)
        /\ q.subjects = {} \/ Subject(d, f, q) \in CanonicalIDs(d, q.subjects, q)
        /\ q.objects = {} \/ Object(d, f, q) \in CanonicalIDs(d, q.objects, q)
        /\ q.predicates = {} \/ f.predicate \in q.predicates

(* Mutant of Expansion: the anchors as they are.                           *)
ExpansionUnredirected(d, ids, q) == CanonicalIDs(d, ids, q)

(* Every entity whose canonical form is one of the anchors'.               *)
Expansion(d, ids, q) ==
    {e \in DOMAIN d.entities : Canonical(d, e, q) \in CanonicalIDs(d, ids, q)}

(* lookupFactCandidates answers from the stored endpoint edges, which      *)
(* follow the live facts (module Store), unless it has to scan.            *)
IndexUsable(d, q) ==
    LET S == Expansion(d, q.subjects, q)
        O == Expansion(d, q.objects, q)
    IN  /\ q.asOf = 0
        /\ q.subjects \cup q.objects # {}
        /\ Cardinality(q.subjects) + Cardinality(q.objects) <= MaxCandidates
        /\ CanonicalIDs(d, q.subjects \cup q.objects, q) \subseteq DOMAIN d.entities
        /\ Cardinality(S) + Cardinality(O) <= MaxCandidates
FactCandidates(d, q) ==
    {id \in DOMAIN d.facts :
        \/ d.facts[id].subject \in Expansion(d, q.subjects, q)
        \/ d.facts[id].object \in Expansion(d, q.objects, q)}

FoundFacts(d, q) ==
    {id \in IF IndexUsable(d, q) THEN FactCandidates(d, q) ELSE DOMAIN d.facts :
        FactFound(d, id, q)}

(* The answer: the newest observation a caller gave first, then by id.     *)
Newer(d, S) ==
    {p \in S \X S : \/ d.facts[p[1]].observedAt > d.facts[p[2]].observedAt
                    \/ d.facts[p[1]].observedAt = d.facts[p[2]].observedAt /\ Before(p[1], p[2])}
LookupFacts(d, q) ==
    LET found == FoundFacts(d, q) IN Sorted(found, Newer(d, found))

-----------------------------------------------------------------------------
(* Neighborhood: the graph among the records a query sees, searched in     *)
(* breadth from the anchors.                                               *)

GraphNodes(d, q) == EntitiesSeen(d, q) \cup SourcesSeen(d, q) \cup EpisodesSeen(d, q) \cup FactsSeen(d, q)

Edge(type, from, to) == [type |-> type, from |-> from, to |-> to]
FactEdges(d, id, f, q) ==
    {Edge("SUBJECT", id, Subject(d, f, q)), Edge("OBJECT", id, Object(d, f, q))}
      \cup {Edge("ASSERTS", ep, id) : ep \in f.support}

(* Edges join two nodes that survived the filters.                         *)
GraphEdges(d, q) ==
    LET nodes == GraphNodes(d, q)
    IN  {e \in {Edge("FROM_SOURCE", ep, d.episodes[ep].source) : ep \in EpisodesSeen(d, q)}
                  \cup UNION {FactEdges(d, id, FactAt(d, id, q), q) : id \in FactsSeen(d, q)} :
            {e.from, e.to} \subseteq nodes}

Ends(e) == {e.from, e.to}
Hops(q) == IF q.hops = 0 THEN 1 ELSE q.hops

(* The nodes within each distance of a start, up to n edges.               *)
Within(start, edges, n) ==
    LET within[k \in 0..n] ==
            IF k = 0 THEN start
            ELSE within[k - 1] \cup UNION {Ends(e) : e \in {x \in edges : Ends(x) \cap within[k - 1] # {}}}
    IN  within

(* The nodes at each distance up to the hop bound.                         *)
Rings(within) == [n \in DOMAIN within |-> IF n = 0 THEN within[0] ELSE within[n] \ within[n - 1]]
Ring(d, q) ==
    Rings(Within(CanonicalIDs(d, q.ids, q) \cap GraphNodes(d, q), GraphEdges(d, q), Hops(q)))
Reached(ring) == UNION {ring[n] : n \in DOMAIN ring}

(* Mutant of NodesKept: max_nodes takes the nodes in the order of ids.     *)
NodesKeptByID(ring, q) ==
    {x \in Reached(ring) :
        q.limit = 0 \/ Cardinality({y \in Reached(ring) : Before(y, x)}) < q.limit}

(* max_nodes keeps the nearest nodes, in the order of ids at one distance. *)
NodesKept(ring, q) ==
    LET distance == [x \in Reached(ring) |-> CHOOSE n \in DOMAIN ring : x \in ring[n]]
        nearer(y, x) == \/ distance[y] < distance[x]
                        \/ distance[y] = distance[x] /\ Before(y, x)
    IN  {x \in Reached(ring) :
            q.limit = 0 \/ Cardinality({y \in Reached(ring) : nearer(y, x)}) < q.limit}

(* An edge is reached from an end that the hop bound does not stop at.     *)
Kept(edges, ring, nodes, q) ==
    LET expanded == UNION {ring[n] : n \in 0..(Hops(q) - 1)}
    IN  [nodes |-> nodes,
         edges |-> {e \in edges : Ends(e) \cap expanded # {} /\ Ends(e) \subseteq nodes},
         truncated |-> nodes # Reached(ring)]
Neighborhood(d, q) ==
    Kept(GraphEdges(d, q), Ring(d, q), NodesKept(Ring(d, q), q), q)

-----------------------------------------------------------------------------
(* Timeline.  Inactive facts always have their events.                     *)

WithInactive(q) == [q EXCEPT !.inactive = TRUE]
EventVisible(at, q) == (q.asOf # 0 => at <= q.asOf) /\ Observable(at, q)
Event(type, record, at, order) == [type |-> type, record |-> record, at |-> at, order |-> order]

(* Where a revision stands in its fact's history: 1 for the first.         *)
Position(d, r) ==
    Cardinality({x \in DOMAIN d.factRevisions :
        /\ d.factRevisions[x].fact = d.factRevisions[r].fact
        /\ ~ComesAfter(Version(x, d.factRevisions[x]), Version(r, d.factRevisions[r]))})

(* The revisions of a fact that have a status and that the filter passes.  *)
Tellings(d, id, status, q) ==
    {r \in DOMAIN d.factRevisions :
        /\ d.factRevisions[r].fact = id
        /\ d.factRevisions[r].record.status = status
        /\ FactVisible(d.factRevisions[r].record, q)}
First(d, revisions) ==
    {r \in revisions : \A x \in revisions \ {r} :
        ComesAfter(Version(x, d.factRevisions[x]), Version(r, d.factRevisions[r]))}

(* Mutant of LifecycleEvents: derived from the current status alone.       *)
LifecycleEventsFromStatus(d, id, q) ==
    LET f == FactAt(d, id, q)
    IN  IF f.status = "active" THEN {}
        ELSE {Event(IF f.status = "superseded" THEN "fact_superseded" ELSE "fact_retracted",
                    id, f.updatedAt, 1)}

(* factLifecycleEvents: one event per status, at the first revision the    *)
(* filter lets through that has it, so that a retraction does not erase a  *)
(* supersession.                                                           *)
LifecycleEvents(d, id, q) ==
    {Event("fact_superseded", id, d.factRevisions[r].record.updatedAt, Position(d, r)) :
        r \in First(d, Tellings(d, id, "superseded", q))}
      \cup {Event("fact_retracted", id, d.factRevisions[r].record.retractedAt, Position(d, r)) :
              r \in First(d, Tellings(d, id, "retracted", q))}

(* A record's own event stands at the time it was observed.                *)
EpisodeEvent(d, ep) ==
    Event("episode", ep, ChooseTime(d.episodes[ep].observedAt, d.episodes[ep].ingestedAt), 0)
CreationEvent(d, id) ==
    Event("fact_created", id, ChooseTime(d.facts[id].observedAt, d.facts[id].createdAt), 0)

TimelineEvents(d, q0) ==
    LET q == WithInactive(q0)
        anchors == CanonicalIDs(d, q.ids, q)
        episodes == {ep \in EpisodesSeen(d, q) : MatchesAnchors(anchors, {ep, d.episodes[ep].source})}
        facts == {id \in FactsSeen(d, q) : MatchesAnchors(anchors, FactAnchorIDs(d, id, FactAt(d, id, q), q))}
        events == {EpisodeEvent(d, ep) : ep \in episodes}
                    \cup {CreationEvent(d, id) : id \in facts}
                    \cup UNION {LifecycleEvents(d, id, q) : id \in facts}
    IN  {e \in events : EventVisible(e.at, q) /\ (q.kinds = {} \/ e.type \in q.kinds)}

(* timelineEntryBefore: by instant, in either direction, then by record,   *)
(* then in the causal order of the record's own events.                    *)
EventBefore(a, b, descending) ==
    \/ IF descending THEN a.at > b.at ELSE a.at < b.at
    \/ a.at = b.at /\ Before(a.record, b.record)
    \/ a.at = b.at /\ a.record = b.record /\ a.order < b.order

Timeline(d, q, descending) ==
    LET events == TimelineEvents(d, q)
    IN  Sorted(events, {p \in events \X events : EventBefore(p[1], p[2], descending)})

-----------------------------------------------------------------------------
(* Provenance of a fact, an entity or an episode: nodes and edges up to a  *)
(* depth; NotFound when the root cannot be seen.                           *)

NotFound == [nodes |-> {}, edges |-> {}]
Depth(q) == IF q.hops = 0 THEN 8 ELSE q.hops

(* The supporting episodes of a fact as provenance shows them.             *)
Supports(d, f, q) ==
    {ep \in f.support : EpisodeReadable(d, ep, q) /\ d.episodes[ep].space = q.space}

(* Mutant of Successors: the link is shown whether or not its end is.      *)
SuccessorsUnchecked(d, f, q) == {f.supersededBy} \cap DOMAIN d.facts

Successors(d, f, q) ==
    {s \in {f.supersededBy} \cap DOMAIN d.facts :
        d.facts[s].space = q.space /\ FactAt(d, s, q) # None}

(* The predecessors a fact names, and those that name it.                  *)
Predecessors(d, id, f, q) ==
    {p \in ({f.supersedes} \cup {x \in DOMAIN d.facts : d.facts[x].supersededBy = id}) \cap DOMAIN d.facts :
        d.facts[p].space = q.space /\ FactAt(d, p, q) # None}

FactProvenance(d, id, q) ==
    LET f == FactAt(d, id, q)
        episodes == Supports(d, f, q)
        sourced == {ep \in episodes : Depth(q) >= 2 /\ d.episodes[ep].source \in SourcesSeen(d, q)}
        next == Successors(d, f, q)
        previous == Predecessors(d, id, f, q)
    IN  IF id \notin DOMAIN d.facts THEN NotFound
        ELSE IF f = None THEN NotFound
        ELSE IF f.space # q.space THEN NotFound
        ELSE [nodes |-> {id} \cup episodes \cup {d.episodes[ep].source : ep \in sourced} \cup next \cup previous,
              edges |-> {Edge("ASSERTS", ep, id) : ep \in episodes}
                          \cup {Edge("FROM_SOURCE", ep, d.episodes[ep].source) : ep \in sourced}
                          \cup {Edge("SUPERSEDES", s, id) : s \in next}
                          \cup {Edge("SUPERSEDES", id, p) : p \in previous}]

(* The fact edge of an entity is an OBJECT edge as soon as the entity is   *)
(* the object.                                                             *)
EntityProvenance(d, id, q) ==
    LET canonical == Canonical(d, id, q)
        facts == {x \in DOMAIN d.facts :
                    LET f == FactAt(d, x, q)
                    IN  /\ f # None
                        /\ f.space = q.space
                        /\ canonical \in {Subject(d, f, q), Object(d, f, q)}}
        role(x) == IF Object(d, FactAt(d, x, q), q) = canonical THEN "OBJECT" ELSE "SUBJECT"
        deep == IF Depth(q) >= 2 THEN facts ELSE {}
        asserted == UNION {{Edge("ASSERTS", ep, x) : ep \in Supports(d, FactAt(d, x, q), q)} : x \in deep}
        superseded == UNION {{Edge("SUPERSEDES", s, x) : s \in Successors(d, FactAt(d, x, q), q)} : x \in deep}
    IN  IF id \notin EntitiesSeen(d, q) THEN NotFound
        ELSE [nodes |-> {id} \cup facts \cup {e.from : e \in asserted \cup superseded},
              edges |-> {Edge(role(x), x, id) : x \in facts} \cup asserted \cup superseded]

EpisodeProvenance(d, id, q) ==
    LET source == {s \in {d.episodes[id].source} \cap DOMAIN d.sources : d.sources[s].space = q.space}
        facts == {x \in DOMAIN d.facts :
                    LET f == FactAt(d, x, q)
                    IN  f # None /\ f.space = q.space /\ id \in f.support}
    IN  IF ~EpisodeReadable(d, id, q) THEN NotFound
        ELSE IF d.episodes[id].space # q.space THEN NotFound
        ELSE [nodes |-> {id} \cup source \cup facts,
              edges |-> {Edge("FROM_SOURCE", id, s) : s \in source} \cup {Edge("ASSERTS", id, x) : x \in facts}]

-----------------------------------------------------------------------------
(* The records included beside a page of hits (includes.go, assembled by   *)
(* assembleIncludes); a hit is a kind and an id.                           *)

Hit(kind, id) == [kind |-> kind, id |-> id]
Wants(q, flag) == flag \in q.include
WantsEpisodes(q) == q.include \cap {"episodes", "provenance"} # {}

(* An endpoint is shown as its canonical entity, which must not itself be  *)
(* marked.                                                                 *)
IncludedEntities(d, ids, q) ==
    {e \in CanonicalIDs(d, ids, q) \cap EntitiesSeen(d, q) :
        ~Marked(d, e, q) /\ TypeMatches(EntityAt(d, e, q), q)}

IDs(hits, kind) == {h.id : h \in {x \in hits : x.kind = kind}}
IncludedWith(d, q, page, facts) ==
    LET episodes == IF ~WantsEpisodes(q) THEN {}
                    ELSE EpisodesSeen(d, q)
                           \cap (IDs(page, "episode") \cup UNION {FactAt(d, id, q).support : id \in facts})
        entities == IF ~Wants(q, "entities") THEN {}
                    ELSE IncludedEntities(d, IDs(page, "entity")
                            \cup UNION {{FactAt(d, id, q).subject, FactAt(d, id, q).object} : id \in facts}, q)
    IN  [facts |-> IF Wants(q, "facts") THEN facts ELSE {},
         episodes |-> episodes,
         entities |-> entities,
         sources |-> {d.episodes[ep].source : ep \in episodes} \cap SourcesSeen(d, q)]
Included(d, q, page) == IncludedWith(d, q, page, IDs(page, "fact") \cap FactsSeen(d, q))

-----------------------------------------------------------------------------
(* Search: the records whose text matches, then two rounds of facts that   *)
(* share an endpoint or an episode with what was found.                    *)

DirectFacts(d, q) ==
    LET anchors == CanonicalIDs(d, q.ids, q)
    IN  {id \in FactsSeen(d, q) :
            /\ q.predicates = {} \/ FactAt(d, id, q).predicate \in q.predicates
            /\ MatchesAnchors(anchors, FactAnchorIDs(d, id, FactAt(d, id, q), q))
            /\ FactAt(d, id, q).predicate \in Matching}
DirectEpisodes(d, q) ==
    {ep \in EpisodesSeen(d, q) :
        /\ q.predicates = {}
        /\ MatchesAnchors(CanonicalIDs(d, q.ids, q), {ep, d.episodes[ep].source})
        /\ d.episodes[ep].content \in Matching}
DirectEntities(d, q) ==
    {e \in EntitiesSeen(d, q) :
        /\ ~Marked(d, e, q) /\ TypeMatches(EntityAt(d, e, q), q)
        /\ q.predicates = {}
        /\ MatchesAnchors(CanonicalIDs(d, q.ids, q), {e})
        /\ EntityAt(d, e, q).value \in Matching}

Direct(d, q) ==
    {Hit("fact", id) : id \in IF "fact" \in q.kinds THEN DirectFacts(d, q) ELSE {}}
      \cup {Hit("episode", id) : id \in IF "episode" \in q.kinds THEN DirectEpisodes(d, q) ELSE {}}
      \cup {Hit("entity", id) : id \in IF "entity" \in q.kinds THEN DirectEntities(d, q) ELSE {}}

(* What a fact shares with others, in canonical form.                      *)
Shared(d, f, q) == ({Subject(d, f, q), Object(d, f, q)} \ {None}) \cup f.support
SharedBy(d, ids, q) == UNION {Shared(d, FactAt(d, id, q), q) : id \in ids}

(* The facts a round adds: anchors do not restrict it.                     *)
Expanded(d, seeds, found, q) ==
    {id \in FactsSeen(d, q) \ found :
        /\ q.predicates = {} \/ FactAt(d, id, q).predicate \in q.predicates
        /\ Shared(d, FactAt(d, id, q), q) \cap seeds # {}}
SecondRound(d, once, found, q) ==
    once \cup Expanded(d, SharedBy(d, once, q), found \cup once, q)
TwoRounds(d, direct, q) ==
    LET seeds == {h.id : h \in direct} \cup SharedBy(d, IDs(direct, "fact"), q)
                   \cup {d.episodes[ep].source : ep \in IDs(direct, "episode")}
    IN  SecondRound(d, Expanded(d, seeds, IDs(direct, "fact"), q), IDs(direct, "fact"), q)

(* Keyword and full-text searches return what matched and nothing else; a  *)
(* full-text search cannot look back.                                      *)
WithNeighbors(d, direct, q) ==
    IF q.mode \in {"keyword", "fulltext"} \/ "fact" \notin q.kinds THEN direct
    ELSE direct \cup {Hit("fact", id) : id \in TwoRounds(d, direct, q)}
Search(d, q) ==
    IF q.mode = "fulltext" /\ q.asOf # 0 THEN {} ELSE WithNeighbors(d, Direct(d, q), q)

(* GetRecord of a fact or an entity, and RecordPassesSearchFilters, which  *)
(* reads the record again; here all its reads fall between two mutations.  *)
TemporalSet(q) ==
    \/ 0 # q.asOf + q.validAt + q.validFrom + q.validTo + q.observedFrom + q.observedTo
    \/ q.inactive
RecordPasses(d, h, q) ==
    CASE h.kind = "fact" ->
           LET f == IF TemporalSet(q) THEN FactAt(d, h.id, q) ELSE d.facts[h.id]
           IN  /\ f # None
               /\ f.space = q.space
               /\ q.inactive \/ f.status = "active"
               /\ MatchesAnchors(CanonicalIDs(d, q.ids, q), FactAnchorIDs(d, h.id, f, q))
               /\ q.predicates = {} \/ f.predicate \in q.predicates
               /\ q.statuses = {} \/ f.status \in q.statuses
               /\ q.types = {} \/ \E e \in {f.subject, f.object} \cap EntitiesSeen(d, q) :
                                     TypeMatches(EntityAt(d, e, q), q)
               /\ q.sources = {} \/ \E ep \in f.support :
                                     /\ EpisodeReadable(d, ep, q) /\ d.episodes[ep].space = q.space
                                     /\ d.episodes[ep].source \in q.sources
      [] h.kind = "episode" ->
           /\ EpisodeReadable(d, h.id, q) /\ d.episodes[h.id].space = q.space
           /\ MatchesAnchors(q.ids, {h.id, d.episodes[h.id].source})
           /\ q.predicates = {}
           /\ q.sources = {} \/ d.episodes[h.id].source \in q.sources
      [] OTHER ->
           /\ h.id \in EntitiesSeen(d, q)
           /\ ~Marked(d, h.id, q)
           /\ MatchesAnchors(CanonicalIDs(d, q.ids, q), {Canonical(d, h.id, q)})
           /\ q.predicates = {} /\ TypeMatches(EntityAt(d, h.id, q), q)

-----------------------------------------------------------------------------
(* Clients that read in several steps.  A reader gets the lock only when   *)
(* no mutation holds it.                                                   *)

NoReader == [step |-> "none"]

(* A client asks for the first page of a lookup at a cut that is settled   *)
(* (of the present nothing is promised) ...                                *)
OpenPages ==
    /\ phase = "idle" /\ reader.step = "none"
    /\ \E q \in {r \in Requests.pages : r.asOf \in 1..(clock - 1)} :
        LET answer == LookupFacts(db, q)
            first == Page(answer, 0, q.limit)
        IN  reader' = [step |-> IF first.next = 0 THEN "read" ELSE "paging", request |-> q,
                       cursor |-> first.next, items |-> first.items, answer |-> answer]
    /\ UNCHANGED vars

(* ... and follows the cursor, each page answered from the maps as they    *)
(* are by then.                                                            *)
NextPage ==
    /\ phase = "idle" /\ reader.step = "paging"
    /\ LET page == Page(LookupFacts(db, reader.request), reader.cursor, reader.request.limit)
       IN  reader' = [reader EXCEPT !.step = IF page.next = 0 THEN "read" ELSE "paging",
                                    !.cursor = page.next, !.items = @ \o page.items]
    /\ UNCHANGED vars

(* Mutant of RecordAnswer: the copy decides whether the version is shown.  *)
RecordAnswerShownByCopy(d, id, copy, q) ==
    IF ~TemporalSet(q) THEN copy
    ELSE IF ~FactVisible(copy, q) THEN None
    ELSE IF q.asOf = 0 THEN copy ELSE FactVersionAt(d, id, q.asOf)

(* The answer of GetRecord to a fact copied earlier, history read now.     *)
RecordAnswer(d, id, copy, q) ==
    LET f == IF q.asOf = 0 THEN copy
             ELSE IF FactVersions(d, id, q.asOf) # {} THEN Latest(FactVersions(d, id, q.asOf)).record
             ELSE IF copy.updatedAt > q.asOf THEN None ELSE copy
    IN  IF ~TemporalSet(q) THEN copy
        ELSE IF f = None THEN None ELSE IF FactVisible(f, q) THEN f ELSE None

(* GetRecord copies the fact under one lock ...                            *)
FetchFact ==
    /\ phase = "idle" /\ reader.step = "none"
    /\ \E q \in Requests.record : \E id \in q.ids \cap DOMAIN db.facts :
        reader' = [step |-> "fetched", request |-> q, id |-> id, copy |-> db.facts[id],
                   answer |-> RecordAnswer(db, id, db.facts[id], q)]
    /\ UNCHANGED vars

(* ... and reads its history under another.                                *)
FetchHistory ==
    /\ phase = "idle" /\ reader.step = "fetched"
    /\ reader' = [reader EXCEPT !.step = "answered",
                       !.answer = {@, RecordAnswer(db, reader.id, db.facts[reader.id], reader.request)},
                       !.copy = RecordAnswer(db, reader.id, @, reader.request)]
    /\ UNCHANGED vars

(* The client is done with the answer.                                     *)
Finish ==
    /\ reader.step \in {"read", "answered"}
    /\ reader' = NoReader
    /\ UNCHANGED vars

QueriesInit == Init /\ reader = NoReader

QueriesNext ==
    \/ Next /\ UNCHANGED reader
    \/ OpenPages
    \/ NextPage
    \/ FetchFact
    \/ FetchHistory
    \/ Finish

QueriesSpec == QueriesInit /\ [][QueriesNext]_allvars
-----------------------------------------------------------------------------
(* A read waits until no mutation holds the lock; a client in the middle of *)
(* another answer changes nothing for it.                                   *)
Readable == phase = "idle" /\ reader.step = "none"

(***************************************************************************)
(* Every compound answer about the past is settled, as each record's       *)
(* version is: what a lookup, a neighborhood, a timeline, a search with    *)
(* its included records or a provenance chain told a client about a cut    *)
(* before the present never changes, whatever is asserted, superseded,     *)
(* retracted or merged later ("historical callers must use                 *)
(* canonicalEntityIDAtLocked so a later merge is not visible before its    *)
(* transaction time").                                                     *)
(***************************************************************************)
Provenances(d, q) ==
    [facts |-> [id \in FactsSeen(d, q) |-> FactProvenance(d, id, q)],
     entities |-> [id \in EntitiesSeen(d, q) |-> EntityProvenance(d, id, q)],
     episodes |-> [id \in EpisodesSeen(d, q) |-> EpisodeProvenance(d, id, q)]]
Answers(d, q) ==
    [lookup |-> LookupFacts(d, q), graph |-> Neighborhood(d, q),
     timeline |-> Timeline(d, q, FALSE), hits |-> Search(d, q),
     included |-> Included(d, q, Search(d, q)), provenance |-> Provenances(d, q)]

\* The clock, or the pinned time of the mutation that keeps readers waiting.
Present == IF phase = "idle" THEN clock ELSE txTime

PastAnswersNeverChange ==
    [][\A q \in Requests.past :
          reader.step = "none" /\ snapshot' # snapshot /\ q.asOf \in 1..(Present - 1)
            => Answers(snapshot', q) = Answers(snapshot, q)]_vars

(***************************************************************************)
(* A lookup answered from the stored endpoint edges finds what a scan of   *)
(* every fact would find (lookupFactCandidates is only an optimisation),   *)
(* for facts stored against an entity merged since, too.                   *)
(***************************************************************************)
LookupIsIndexIndependent ==
    Readable => \A q \in Requests.graph : FoundFacts(db, q) = {id \in DOMAIN db.facts : FactFound(db, id, q)}

(***************************************************************************)
(* A neighborhood is a graph context even when max_nodes cut it down: each *)
(* edge joins two returned nodes, the anchors stay, and every other node   *)
(* returned is joined to an anchor by returned edges ("anchors and nearest *)
(* hops win, then filters edges").                                         *)
(***************************************************************************)
Connected(graph, anchors, q) ==
    /\ \A e \in graph.edges : Ends(e) \subseteq graph.nodes
    /\ q.limit = 0 \/ Cardinality(anchors) <= q.limit => anchors \subseteq graph.nodes
    /\ graph.nodes \subseteq Within(anchors, graph.edges, Hops(q))[Hops(q)]
NeighborhoodStaysConnected ==
    Readable => \A q \in Requests.graph :
        Connected(Neighborhood(db, q), CanonicalIDs(db, q.ids, q) \cap GraphNodes(db, q), q)

(***************************************************************************)
(* The pages of a lookup at a settled cut partition its answer, in order,  *)
(* although other clients write between two pages: offsets into an answer  *)
(* computed again for each page still meet.                                *)
(***************************************************************************)
PagesOfThePastPartitionIt ==
    reader.step = "read" => reader.items = reader.answer

(***************************************************************************)
(* GetRecord of a fact takes the lock twice, yet answers as if it had been *)
(* asked at one of the two moments, even when the fact is retired between. *)
(***************************************************************************)
RecordIsReadAtOneMoment == reader.step = "answered" => reader.copy \in reader.answer

(***************************************************************************)
(* The query families agree on what may be seen: what is included beside   *)
(* a page of hits could be read by itself under the same filter, in the    *)
(* space and as of the cut of the request, and no included entity is one   *)
(* that was merged away by then.                                           *)
(***************************************************************************)
ReadableAlone(included, q) ==
    LET alone == [q EXCEPT !.ids = {}]
    IN  /\ \A id \in included.facts : RecordPasses(db, Hit("fact", id), alone)
        /\ \A h \in {Hit("episode", id) : id \in included.episodes}
                     \cup {Hit("entity", id) : id \in included.entities} :
               RecordPasses(db, h, [alone EXCEPT !.predicates = {}])
        /\ \A id \in included.sources : SourceReadable(db, id, q)
IncludedRecordsAreReadable ==
    Readable => \A q \in Requests.search : ReadableAlone(Included(db, q, Search(db, q)), q)

(***************************************************************************)
(* The exported post-filter and the search agree: the direct hits of a     *)
(* search are the matching records RecordPassesSearchFilters accepts, and  *)
(* graph expansion adds none that it would refuse but for the anchors.     *)
(***************************************************************************)
MatchesText(d, h, q) ==
    CASE h.kind = "fact" -> FactAt(d, h.id, q).predicate \in Matching
      [] h.kind = "episode" -> d.episodes[h.id].content \in Matching
      [] OTHER -> EntityAt(d, h.id, q).value \in Matching
AllHits(d) ==
    {Hit("fact", id) : id \in DOMAIN d.facts}
      \cup {Hit("episode", id) : id \in DOMAIN d.episodes}
      \cup {Hit("entity", id) : id \in DOMAIN d.entities}

FilterAgreesWithSearch ==
    Readable => \A q \in Requests.search :
        /\ Direct(db, q) =
              {h \in AllHits(db) :
                 h.kind \in q.kinds /\ RecordPasses(db, h, q) /\ MatchesText(db, h, q)}
        /\ \A h \in Search(db, q) : RecordPasses(db, h, [q EXCEPT !.ids = {}])

(***************************************************************************)
(* Provenance reads the same from both ends, at every cut: an episode      *)
(* shows the facts that show it, and a fact its successor exactly when the *)
(* successor shows it as the one it replaced.                              *)
(***************************************************************************)
ProvenanceAgreesFromBothEnds ==
    Readable => \A q \in Requests.graph :
        /\ \A ep \in EpisodesSeen(db, q), id \in DOMAIN db.facts :
              Edge("ASSERTS", ep, id) \in EpisodeProvenance(db, ep, q).edges
                <=> Edge("ASSERTS", ep, id) \in FactProvenance(db, id, q).edges
        /\ \A id, next \in DOMAIN db.facts :
              Edge("SUPERSEDES", next, id) \in FactProvenance(db, id, q).edges
                <=> Edge("SUPERSEDES", next, id) \in FactProvenance(db, next, q).edges

(***************************************************************************)
(* The timeline tells each fact's lifecycle as the version at the cut has  *)
(* it ("retracting a superseded fact must not erase the supersession"):    *)
(* supersession before retraction, backwards when descending, and the      *)
(* supersession at the instant its successor was written, which the same   *)
(* timeline shows.  The creation is told once, at the time the fact was    *)
(* observed, which a caller may date before or after all of them: the cut  *)
(* hides it by that time, and on a tie it comes first either way.          *)
(***************************************************************************)
Places(mine) == Sorted(mine, {p \in mine \X mine : p[1] < p[2]})
At(s, places) == [k \in DOMAIN places |-> s[places[k]]]
Creations(all, id) == {i \in DOMAIN all : all[i].record = id /\ all[i].type = "fact_created"}
Transitions(all, id) == {i \in DOMAIN all : all[i].record = id /\ all[i].type # "fact_created"}
Told(all, id) == At(all, Places(Transitions(all, id)))

Story(f) ==
    (IF f.supersededBy = None THEN <<>> ELSE <<"fact_superseded">>)
      \o (IF f.status = "retracted" THEN <<"fact_retracted">> ELSE <<>>)
Tells(events, story) ==
    Len(events) = Len(story) /\ \A i \in 1..Len(story) : events[i].type = story[i]

\* One event in a cut that reaches it, none in any other.
CreationIsTold(creations, all, event, q) ==
    IF q.asOf # 0 /\ event.at > q.asOf THEN creations = {}
    ELSE \E i \in creations : creations = {i} /\ all[i] = event
CreationIsPlaced(all, id, descending) ==
    \A i \in Creations(all, id), j \in Transitions(all, id) :
        i < j <=> IF descending THEN all[i].at >= all[j].at ELSE all[i].at <= all[j].at
SuccessorIsTold(d, told, next, all, q) ==
    /\ told[1].at = d.facts[next].createdAt
    /\ next \in FactsSeen(d, WithInactive(q))
    /\ d.facts[next].observedAt = 0 => \E i \in Creations(all, next) : all[i].at = told[1].at

TellsLifecycle(d, id, f, q, all, back) ==
    /\ Tells(Told(all, id), Story(f))
    /\ Told(back, id) = Seqs!Reverse(Told(all, id))
    /\ CreationIsTold(Creations(all, id), all, CreationEvent(d, id), q)
    /\ CreationIsTold(Creations(back, id), back, CreationEvent(d, id), q)
    /\ CreationIsPlaced(all, id, FALSE) /\ CreationIsPlaced(back, id, TRUE)
    /\ f.supersededBy # None => SuccessorIsTold(d, Told(all, id), f.supersededBy, all, q)
TellsLifecycles(d, q, all, back) ==
    \A id \in FactsSeen(d, WithInactive(q)) :
        TellsLifecycle(d, id, FactAt(d, id, WithInactive(q)), q, all, back)

TimelineTellsTheLifecycle ==
    Readable => \A q \in Requests.timeline :
        TellsLifecycles(db, q, Timeline(db, q, FALSE), Timeline(db, q, TRUE))

(***************************************************************************)
(* However a record is reached it is the same record: as an included       *)
(* record, through the search or through its exported filter, and along    *)
(* the provenance links from either end.                                   *)
(***************************************************************************)
EveryRouteAgrees ==
    /\ IncludedRecordsAreReadable
    /\ FilterAgreesWithSearch
    /\ ProvenanceAgreesFromBothEnds

=============================================================================
