----------------------------- MODULE MCQueries -----------------------------
(***************************************************************************)
(* Small instances of Queries: two spaces, an entity that is later marked  *)
(* as a duplicate of another, and facts that share endpoints and episodes. *)
(***************************************************************************)
EXTENDS Queries, TLC

Source1  == <<"src", 1>>
Episode1 == <<"user", 1>>
EntityA  == <<"user", 3>>
EntityB  == <<"user", 4>>
Fact1    == <<"user", 5>>
Fact2    == <<"user", 6>>
Fact3    == <<"user", 7>>

MCCallerIDs == {Source1, Episode1, EntityA, EntityB, Fact1, Fact2, Fact3}
MCPrefixRank == [p \in {"ep", "entityrev", "fact", "factrev", "src", "user"} |->
    CASE p = "entityrev" -> 1 [] p = "ep" -> 2 [] p = "fact" -> 3 [] p = "factrev" -> 4
      [] p = "src" -> 5 [] OTHER -> 6]

\* "merged" is B's representation once it was merged into A, "lost" one whose
\* mark leads nowhere.
Values == {"plain", "merged", "lost"}
MCDuplicateOf == [v \in Values |->
    CASE v = "merged" -> EntityA [] v = "lost" -> Fact3 [] OTHER -> None]
MCEntityType  == [v \in Values |-> "person"]
MCMatching    == {"p1", "plain"}

MCEpisodes == {[id |-> Episode1, space |-> "s1", content |-> "c1", source |-> Source1,
                observed |-> 0]}
MCEntities == {[id |-> EntityB, space |-> "s1", value |-> "merged"]}

\* The states the clients start from: one batch stored the episode and both
\* entities at instant 1; in the second B already carries a mark that leads
\* nowhere, the episode was observed later than that, and fewer ids are left.
Stored(id, value) ==
    [entity |-> id, txTime |-> 1,
     record |-> [space |-> "s1", value |-> value, createdAt |-> 1, updatedAt |-> 1]]
Populated(sequence, valueOfB, observed) ==
    LET log == GeneratedID("entityrev", 1) :> Stored(EntityA, "plain")
                 @@ GeneratedID("entityrev", 2) :> Stored(EntityB, valueOfB)
    IN  [EmptyDB EXCEPT
            !.sequence = sequence,
            !.sources = Source1 :> [space |-> "s1", createdAt |-> 1],
            !.episodes = Episode1 :> [space |-> "s1", content |-> "c1", source |-> Source1,
                                      observedAt |-> observed, ingestedAt |-> 1],
            !.entities = EntityA :> Stored(EntityA, "plain").record @@ EntityB :> Stored(EntityB, valueOfB).record,
            !.entityRevisions = log]
MCInit ==
    /\ clock = 1 /\ txTime = 0 /\ phase = "idle"
    /\ db \in {Populated(2, "plain", 0), Populated(3, "lost", 2)} /\ snapshot = db
    /\ reader = NoReader
MCSpec == MCInit /\ [][QueriesNext]_allvars

TheFact == [id |-> Fact1, space |-> "s1", predicate |-> "p1", subject |-> EntityB, object |-> EntityA,
            support |-> {Episode1}, single |-> FALSE, validFrom |-> 0, validTo |-> 0,
            observed |-> 0]
\* The second fact is dated after a supersession or a retraction may be written.
MCFacts == {TheFact, [TheFact EXCEPT !.id = Fact2, !.observed = 3]}

Ask == [space |-> "s1", ids |-> {}, subjects |-> {}, objects |-> {}, predicates |-> {},
        asOf |-> 0, inactive |-> FALSE, validAt |-> 0, validFrom |-> 0, validTo |-> 0,
        observedFrom |-> 0, observedTo |-> 0, statuses |-> {}, types |-> {}, sources |-> {},
        kinds |-> {}, limit |-> 0, hops |-> 0, include |-> {}, mode |-> "hybrid"]
AllKinds == {"fact", "episode", "entity"}
AllRecords == {"facts", "provenance", "entities"}

\* Questions about the past, and about the present of a later run.
HistoryRequests ==
    {[Ask EXCEPT !.asOf = 2, !.ids = {EntityA}, !.subjects = {EntityA}, !.hops = 2,
                 !.kinds = AllKinds \cup {"fact_created", "fact_superseded"}, !.include = AllRecords,
                 !.inactive = all] : all \in BOOLEAN}

\* Graph questions from either entity, cut down or not; one by object and scope.
GraphRequests ==
    LET from(e) == [Ask EXCEPT !.inactive = TRUE, !.ids = {e}, !.subjects = {e}, !.hops = 2]
    IN  {[from(EntityA) EXCEPT !.asOf = 2], [from(EntityB) EXCEPT !.observedTo = 1, !.limit = 2],
         [Ask EXCEPT !.objects = {EntityA, EntityB}, !.predicates = {"p1"}, !.types = {"person"}]}

\* Searches with and without anchors; one with every filter.
SearchRequests ==
    {[Ask EXCEPT !.asOf = at, !.inactive = (at = 0), !.ids = anchors, !.kinds = AllKinds, !.include = AllRecords] :
        at \in {0, 2}, anchors \in {{}, {EntityB}}}
      \cup {[Ask EXCEPT !.kinds = {"fact"}, !.predicates = {"p1"}, !.statuses = {"superseded"},
                        !.types = {"person"}, !.sources = {Source1}, !.inactive = TRUE, !.validAt = 1]}
TimelineRequests == {[Ask EXCEPT !.asOf = at] : at \in 0..3}

\* Lookups followed page by page, and facts fetched by id.
PageRequests == {[Ask EXCEPT !.asOf = 2, !.limit = 1]}
FetchRequests == {[Ask EXCEPT !.asOf = 2, !.ids = {Fact1}]}
MCRequests ==
    [past |-> HistoryRequests, graph |-> GraphRequests, search |-> SearchRequests,
     timeline |-> TimelineRequests, pages |-> PageRequests, record |-> FetchRequests]
=============================================================================
