------------------------------- MODULE MCStore -------------------------------
(***************************************************************************)
(* Small instances of Store: a source, an episode, two entities, three     *)
(* facts between them, one revision, two words.                            *)
(***************************************************************************)
EXTENDS Store

Ent(i) == <<"Entity", i>>
Fct(i) == <<"Fact", i>>
Src == <<"Source", 1>>
Eps == <<"Episode", 1>>
Rev == <<"FactRevision", 1>>
Mark == <<"YeoulMigration", 1>>

Plain(text) == [text |-> text, links |-> {}]
Between(text, s, o) == [text |-> text, links |-> {<<"SUBJECT", s>>, <<"OBJECT_ENTITY", o>>, <<"SUPPORTED_BY", Eps>>}]
One(k, r) == [x \in {k} |-> r]

AnEpisode == Overlay(One(Src, Plain("-")), One(Eps, [text |-> "red", links |-> {<<"FROM_SOURCE", Src>>}]))

MCBatches ==
    {AnEpisode, One(Ent(1), Plain("red")), One(Ent(1), Plain("blue")), One(Ent(2), Plain("red")),
     Overlay(One(Fct(1), Between("red", Ent(1), Ent(2))), One(Rev, Plain("-"))),
     One(Fct(1), Between("blue", Ent(1), Ent(2))),
     One(Fct(2), [text |-> "blue", links |-> Between("-", Ent(1), Ent(1)).links \cup {<<"SUPERSEDES", Fct(1)>>}]),
     One(Fct(3), [text |-> "red", links |-> {<<"SUBJECT", Ent(1)>>, <<"SUPPORTED_BY", Eps>>}])}

\* A database of an earlier release: no marker, no index, and an edge missing.
OldNodes == Overlay(One(Ent(1), Plain("red")), Overlay(One(Ent(2), Plain("blue")),
            Overlay(AnEpisode, One(Fct(1), Between("red", Ent(1), Ent(2))))))
Old == [Fresh EXCEPT !.exists = TRUE, !.version = "current", !.nodes = OldNodes]
Watermark == [Fresh EXCEPT !.exists = TRUE, !.version = "current", !.nodes = One(Mark, Plain("-"))]
Unversioned == [Old EXCEPT !.version = None]

MCInitialDisks == {Fresh, Old, Watermark, Unversioned, [Old EXCEPT !.version = "other"]}
=============================================================================
