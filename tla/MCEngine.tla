------------------------------ MODULE MCEngine ------------------------------
(***************************************************************************)
(* Small instances of Engine: the records the clients of each run write.   *)
(***************************************************************************)
EXTENDS Engine

\* Ids a caller names itself.
Source1  == <<"src", 1>>
Episode1 == <<"user", 1>>
Entity1  == <<"user", 3>>
Entity2  == <<"user", 4>>
Fact1    == <<"user", 5>>
Fact2    == <<"user", 6>>
Fact3    == <<"user", 7>>

TheEpisode == [id |-> Episode1, space |-> "s1", content |-> "c1", source |-> Source1,
               observed |-> 0]
TheEntity  == [id |-> Entity1, space |-> "s1", value |-> "v1"]
TheFact    == [id |-> None, space |-> "s1", predicate |-> "p1", subject |-> Entity1,
               object |-> None, support |-> {Episode1}, single |-> FALSE,
               validFrom |-> 0, validTo |-> 0, observed |-> 0]

\* Lifecycle run: one episode, one entity, and facts with named
\* and with generated ids; a replacement may start inside the old validity.
LifecycleIDs      == {Source1, Episode1, Entity1, Fact1, Fact2, Fact3}
LifecycleEpisodes == {TheEpisode}
LifecycleEntities == {TheEntity}
LifecycleFacts    == {[TheFact EXCEPT !.id = Fact1], [TheFact EXCEPT !.id = Fact3],
                      [TheFact EXCEPT !.id = Fact2, !.validFrom = 2, !.observed = 1]}

\* Batch run: two spaces, a second episode and entity, callers that name ids of
\* the shape the engine generates, and assertions under cardinality "one", with
\* overlapping and with adjacent validity.
SquattedEpisode == <<"entityrev", 1>>
SquattedFact    == <<"factrev", 4>>
BatchIDs == {Source1, Episode1, Entity1, Entity2, Fact1, Fact2,
             SquattedEpisode, SquattedFact}
BatchEpisodes ==
    {TheEpisode,
     [TheEpisode EXCEPT !.id = SquattedEpisode, !.space = "s2", !.source = Source1, !.observed = 1]}
BatchEntities ==
    {TheEntity, [TheEntity EXCEPT !.value = "v2"],
     [TheEntity EXCEPT !.id = Entity2, !.space = "s2"],
     [TheEntity EXCEPT !.id = SquattedEpisode]}
BatchFacts ==
    {[TheFact EXCEPT !.single = TRUE],
     [TheFact EXCEPT !.id = Fact1, !.single = TRUE, !.validTo = 2],
     [TheFact EXCEPT !.id = Fact2, !.single = TRUE, !.validFrom = 2],
     [TheFact EXCEPT !.id = SquattedFact, !.object = Entity1],
     [TheFact EXCEPT !.object = Entity2], [TheFact EXCEPT !.id = Entity1]}
=============================================================================
