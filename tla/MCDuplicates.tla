---------------------------- MODULE MCDuplicates ----------------------------
(***************************************************************************)
(* Small instances of Duplicates.  An entity id is a number whose order is *)
(* the order of the id texts: 1..5 are ids callers name, the rest are      *)
(* derived ones (100 and up) and slugs of earlier releases (50 and up).    *)
(***************************************************************************)
EXTENDS Duplicates

MCWords == {Blank, "yeoul", "Yeoul", "han", "k1", "k2"}
MCFold == [w \in MCWords |-> IF w = "Yeoul" THEN "yeoul" ELSE w]
Number == [w \in MCWords |->
    CASE w = Blank -> 0 [] w = "yeoul" -> 1 [] w = "Yeoul" -> 2 [] w = "han" -> 3
      [] w = "k1" -> 4 [] w = "k2" -> 5]
Scope == [w \in MCWords |-> CASE w = Blank -> 0 [] w = "han" -> 1 [] OTHER -> 2]

\* The types of these instances differ in case at most.
MCDerivedID == [t \in MCWords \X MCWords \X MCWords |-> 100 + 36 * Number[t[1]] + 6 * Number[t[2]] + Number[t[3]]]
MCLegacyID  == [t \in MCWords \X MCWords \X MCWords |-> 50 + 6 * Scope[t[1]] + Number[MCFold[t[3]]]]
MCIDs == 1..5 \cup 50..70 \cup 100..350

TheEntity == [id |-> 1, space |-> "default", namespace |-> Blank, type |-> "han", name |-> "yeoul",
              aliases |-> {}, key |-> Blank, duplicateOf |-> None, carriesLog |-> FALSE]
TheFact   == [id |-> 1, subject |-> 1, content |-> "c1", confidence |-> 1, observed |-> 1]

\* Redirects: three entities, any marks, one of them possibly in another space,
\* and two more that lengthen a chain past the bound.
RedirectEntities ==
    {[TheEntity EXCEPT !.id = i, !.duplicateOf = d] : i \in 1..3, d \in {None, 1, 2, 3}}
        \cup {[TheEntity EXCEPT !.id = 3, !.space = "s2"], [TheEntity EXCEPT !.id = 4, !.duplicateOf = 1],
               [TheEntity EXCEPT !.id = 5, !.duplicateOf = 4]}

\* Merges: entities that differ in case, in scope, by an alias or by a key.
MergeEntityInputs ==
    {[TheEntity EXCEPT !.id = 1],
     [TheEntity EXCEPT !.id = 1, !.key = "k1"],
     [TheEntity EXCEPT !.id = 2, !.name = "Yeoul", !.namespace = "han"],
     [TheEntity EXCEPT !.id = 2, !.name = "Yeoul", !.key = "k1"],
     [TheEntity EXCEPT !.id = 3, !.name = "han", !.aliases = {"yeoul"}],
     [TheEntity EXCEPT !.id = 3, !.name = "Yeoul", !.key = "k2"],
     [TheEntity EXCEPT !.id = 3, !.duplicateOf = 2],
     [TheEntity EXCEPT !.id = 4, !.namespace = "k1", !.duplicateOf = Blank]}
MergeFacts == {[TheFact EXCEPT !.id = i, !.subject = i] : i \in {2, 3}}
AllMerges == {<<t, S>> : t \in 1..4, S \in {{1}, {2}, {3}, {4}, {2, 3}}}

\* Automatic upserts, beside entities stored by callers and by earlier releases.
AutomaticEntities ==
    {[TheEntity EXCEPT !.id = 1],
     [TheEntity EXCEPT !.id = 1, !.namespace = "han", !.name = "han", !.aliases = {"Yeoul"}],
     [TheEntity EXCEPT !.id = MCLegacyID[<<Blank, "han", "yeoul">>]],
     [TheEntity EXCEPT !.id = 2, !.key = "k1"]}
AutomaticIdentities ==
    {[TheEntity EXCEPT !.id = None],
     [TheEntity EXCEPT !.id = None, !.name = "Yeoul"],
     [TheEntity EXCEPT !.id = None, !.key = "k1"],
     [TheEntity EXCEPT !.id = None, !.namespace = "han", !.name = "Yeoul"]}
AutomaticFacts == {TheFact, [TheFact EXCEPT !.id = 2]}
AutomaticMerges ==
    {<<1, {MCDerivedID[<<Blank, "han", "yeoul">>]}>>, <<1, {2}>>,
     <<MCDerivedID[<<Blank, "han", "yeoul">>], {1}>>}

\* Automatic upserts whose sides derive one id, the key of one being the name of
\* the other, beside an entity stored under the id of an earlier release.
OneIDEntities ==
    {[TheEntity EXCEPT !.id = MCLegacyID[<<Blank, "han", "k1">>], !.key = k, !.name = n] :
        k \in {Blank, "k1"}, n \in {"k1", "han"}}
OneIDIdentities ==
    {[TheEntity EXCEPT !.id = None, !.key = "k1", !.name = "k1"],
     [TheEntity EXCEPT !.id = None, !.key = "k1"],
     [TheEntity EXCEPT !.id = None, !.name = "k1"]}

\* Compaction: three entities of one identity, one more under another key, and
\* copies of one fact that differ in confidence and observation.
CompactEntityInputs ==
    {[TheEntity EXCEPT !.id = i] : i \in {1, 2, 3}}
        \cup {[TheEntity EXCEPT !.id = i, !.key = "k1"] : i \in {3, 4}}
        \cup {[TheEntity EXCEPT !.id = 4, !.key = "k1", !.duplicateOf = 2]}
CompactFacts ==
    {TheFact, [TheFact EXCEPT !.id = 2, !.observed = 2],
     [TheFact EXCEPT !.id = 3, !.observed = 2], [TheFact EXCEPT !.id = 4, !.confidence = 2, !.observed = 0]}

Idle == [entities |-> {}, facts |-> {}, automatic |-> {}, merges |-> {}, compacts |-> FALSE]
MCClienteles ==
    [redirecting |-> [Idle EXCEPT !.entities = RedirectEntities],
     merging |-> [Idle EXCEPT !.entities = MergeEntityInputs, !.facts = MergeFacts,
                              !.merges = AllMerges],
     automatic |-> [Idle EXCEPT !.entities = AutomaticEntities, !.facts = AutomaticFacts,
                                !.automatic = AutomaticIdentities, !.merges = AutomaticMerges],
     deriving |-> [Idle EXCEPT !.entities = OneIDEntities, !.facts = AutomaticFacts,
                               !.automatic = OneIDIdentities],
     compacting |-> [Idle EXCEPT !.entities = CompactEntityInputs, !.facts = CompactFacts,
                                 !.compacts = TRUE]]
=============================================================================
