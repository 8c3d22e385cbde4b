--------------------------- MODULE Engine_proofs ---------------------------
(***************************************************************************)
(* Theorems about Engine, for every set of callers' records and every      *)
(* bound.  On any clock: type correctness, unique ids, what the revision   *)
(* log answers about the present and about the past, the linear chains of  *)
(* supersessions, a supersession being one event at every cut an as-of     *)
(* read may ask for, and which cuts show two values of a single-value      *)
(* slot.  On a clock that never goes back: entities and provenance over    *)
(* time.                                                                   *)
(***************************************************************************)
EXTENDS Engine, TLAPS

-----------------------------------------------------------------------------
(* Maps, and what the writing operators leave alone.                       *)

LEMMA PutIsMap ==
    ASSUME NEW S, NEW map, IsMap(map, S), NEW id \in ID, NEW record \in S
    PROVE  IsMap(Put(map, id, record), S)
BY DEF Put, IsMap

LEMMA PutDomain ==
    ASSUME NEW map, NEW id, NEW record
    PROVE  /\ DOMAIN Put(map, id, record) = DOMAIN map \cup {id}
           /\ Put(map, id, record)[id] = record
           /\ \A x \in DOMAIN map \ {id} : Put(map, id, record)[x] = map[x]
BY DEF Put

LEMMA SetSequenceFields ==
    ASSUME NEW d, IsDB(d), NEW n \in Nat
    PROVE  /\ IsDB(SetSequence(d, n))
           /\ SetSequence(d, n).sequence = n
           /\ SetSequence(d, n).sources = d.sources
           /\ SetSequence(d, n).episodes = d.episodes
           /\ SetSequence(d, n).entities = d.entities
           /\ SetSequence(d, n).facts = d.facts
           /\ SetSequence(d, n).factRevisions = d.factRevisions
           /\ SetSequence(d, n).entityRevisions = d.entityRevisions
BY DEF SetSequence, IsDB

LEMMA StoreFactFields ==
    ASSUME NEW d, IsDB(d), NEW id \in ID, NEW fact \in Fact
    PROVE  /\ IsDB(StoreFact(d, id, fact))
           /\ StoreFact(d, id, fact).sequence = d.sequence
           /\ StoreFact(d, id, fact).sources = d.sources
           /\ StoreFact(d, id, fact).episodes = d.episodes
           /\ StoreFact(d, id, fact).entities = d.entities
           /\ StoreFact(d, id, fact).facts = Put(d.facts, id, fact)
           /\ StoreFact(d, id, fact).factRevisions = d.factRevisions
           /\ StoreFact(d, id, fact).entityRevisions = d.entityRevisions
BY PutIsMap DEF StoreFact, IsDB

LEMMA StoreEntityFields ==
    ASSUME NEW d, IsDB(d), NEW id \in ID, NEW entity \in Entity
    PROVE  /\ IsDB(StoreEntity(d, id, entity))
           /\ StoreEntity(d, id, entity).sequence = d.sequence
           /\ StoreEntity(d, id, entity).sources = d.sources
           /\ StoreEntity(d, id, entity).episodes = d.episodes
           /\ StoreEntity(d, id, entity).entities = Put(d.entities, id, entity)
           /\ StoreEntity(d, id, entity).facts = d.facts
           /\ StoreEntity(d, id, entity).factRevisions = d.factRevisions
           /\ StoreEntity(d, id, entity).entityRevisions = d.entityRevisions
BY PutIsMap DEF StoreEntity, IsDB

(* The revision AppendFactRevision writes of a fact.                       *)
FactRevisionOf(id, fact) == [fact |-> id, txTime |-> fact.updatedAt, record |-> fact]
EntityRevisionOf(id, entity) == [entity |-> id, txTime |-> entity.updatedAt, record |-> entity]

LEMMA GeneratedIDType ==
    ASSUME NEW prefix \in Prefixes, NEW n \in Nat
    PROVE  GeneratedID(prefix, n) \in ID
BY DEF GeneratedID, ID, Prefixes

LEMMA AppendFactRevisionFields ==
    ASSUME NEW d, IsDB(d), NEW id \in DOMAIN d.facts, NEW n \in Nat
    PROVE  /\ IsDB(AppendFactRevision(d, id, n))
           /\ AppendFactRevision(d, id, n).sequence = n
           /\ AppendFactRevision(d, id, n).sources = d.sources
           /\ AppendFactRevision(d, id, n).episodes = d.episodes
           /\ AppendFactRevision(d, id, n).entities = d.entities
           /\ AppendFactRevision(d, id, n).facts = d.facts
           /\ AppendFactRevision(d, id, n).factRevisions
                = Put(d.factRevisions, GeneratedID("factrev", n), FactRevisionOf(id, d.facts[id]))
           /\ AppendFactRevision(d, id, n).entityRevisions = d.entityRevisions
<1> DEFINE map == Put(d.factRevisions, GeneratedID("factrev", n), FactRevisionOf(id, d.facts[id]))
<1>1. d.facts[id] \in Fact /\ id \in ID
  BY DEF IsDB, IsMap
<1>2. FactRevisionOf(id, d.facts[id]) \in FactRevision
  BY <1>1 DEF Fact, FactRevision, FactRevisionOf
<1>3. GeneratedID("factrev", n) \in ID
  BY DEF GeneratedID, ID, Prefixes
<1>4. IsMap(map, FactRevision)
  BY <1>2, <1>3, PutIsMap DEF IsDB
<1>5. AppendFactRevision(d, id, n) = [d EXCEPT !.sequence = n, !.factRevisions = map]
  BY DEF AppendFactRevision, FactRevisionOf
<1> HIDE DEF map
<1>6. /\ AppendFactRevision(d, id, n).factRevisions = map
      /\ IsDB(AppendFactRevision(d, id, n))
  BY <1>4, <1>5 DEF IsDB
<1> QED BY <1>5, <1>6 DEF IsDB, map

LEMMA AppendEntityRevisionFields ==
    ASSUME NEW d, IsDB(d), NEW id \in DOMAIN d.entities, NEW n \in Nat
    PROVE  /\ IsDB(AppendEntityRevision(d, id, n))
           /\ AppendEntityRevision(d, id, n).sequence = n
           /\ AppendEntityRevision(d, id, n).sources = d.sources
           /\ AppendEntityRevision(d, id, n).episodes = d.episodes
           /\ AppendEntityRevision(d, id, n).entities = d.entities
           /\ AppendEntityRevision(d, id, n).facts = d.facts
           /\ AppendEntityRevision(d, id, n).factRevisions = d.factRevisions
           /\ AppendEntityRevision(d, id, n).entityRevisions
                = Put(d.entityRevisions, GeneratedID("entityrev", n),
                      EntityRevisionOf(id, d.entities[id]))
<1> DEFINE map == Put(d.entityRevisions, GeneratedID("entityrev", n),
                      EntityRevisionOf(id, d.entities[id]))
<1>1. d.entities[id] \in Entity /\ id \in ID
  BY DEF IsDB, IsMap
<1>2. EntityRevisionOf(id, d.entities[id]) \in EntityRevision
  BY <1>1 DEF Entity, EntityRevision, EntityRevisionOf
<1>3. GeneratedID("entityrev", n) \in ID
  BY DEF GeneratedID, ID, Prefixes
<1>4. IsMap(map, EntityRevision)
  BY <1>2, <1>3, PutIsMap DEF IsDB
<1>5. AppendEntityRevision(d, id, n) = [d EXCEPT !.sequence = n, !.entityRevisions = map]
  BY DEF AppendEntityRevision, EntityRevisionOf
<1> HIDE DEF map
<1>6. /\ AppendEntityRevision(d, id, n).entityRevisions = map
      /\ IsDB(AppendEntityRevision(d, id, n))
  BY <1>4, <1>5 DEF IsDB
<1> QED BY <1>5, <1>6 DEF IsDB, map

-----------------------------------------------------------------------------
(* What each operation of the engine does to the maps.                     *)

(* A fact stored and its revision appended.                                *)
RecordFact(d, id, fact, n) == AppendFactRevision(StoreFact(d, id, fact), id, n)

LEMMA RecordFactFields ==
    ASSUME NEW d, IsDB(d), NEW id \in ID, NEW fact \in Fact, NEW n \in Nat
    PROVE  /\ IsDB(RecordFact(d, id, fact, n))
           /\ RecordFact(d, id, fact, n).sequence = n
           /\ RecordFact(d, id, fact, n).sources = d.sources
           /\ RecordFact(d, id, fact, n).episodes = d.episodes
           /\ RecordFact(d, id, fact, n).entities = d.entities
           /\ RecordFact(d, id, fact, n).facts = Put(d.facts, id, fact)
           /\ RecordFact(d, id, fact, n).factRevisions
                = Put(d.factRevisions, GeneratedID("factrev", n), FactRevisionOf(id, fact))
           /\ RecordFact(d, id, fact, n).entityRevisions = d.entityRevisions
<1>1. id \in DOMAIN StoreFact(d, id, fact).facts /\ StoreFact(d, id, fact).facts[id] = fact
  <2>1. StoreFact(d, id, fact).facts = Put(d.facts, id, fact)
    BY StoreFactFields
  <2> QED BY <2>1 DEF Put
<1> QED BY <1>1, StoreFactFields, AppendFactRevisionFields DEF RecordFact

LEMMA RecordNumbersFacts ==
    ASSUME NEW d, IsDB(d), NEW given \in CallerIDs \cup {None}, NEW prefix \in Prefixes,
           NEW kind, NEW s \in RecordNumbers(d, given, prefix, kind)
    PROVE  /\ s \in Nat
           /\ s >= d.sequence
           /\ RecordID(given, prefix, s) \in ID
           /\ given # None => AvailableTo(d, given, kind)
           /\ given = None => ~IDExists(d, GeneratedID(prefix, s))
<1>1. CASE given = None
  <2>1. s \in Nat /\ IsNextID(d, prefix, s)
    BY <1>1, ClockAssumption DEF RecordNumbers, NextNumbers
  <2>2. s > d.sequence /\ d.sequence \in Nat /\ ~IDExists(d, GeneratedID(prefix, s))
    BY <2>1 DEF IsNextID, IsDB
  <2> QED BY <1>1, <2>1, <2>2, GeneratedIDType DEF RecordID
<1>2. CASE given # None
  BY <1>2 DEF RecordNumbers, RecordID, IsDB, ID
<1> QED BY <1>1, <1>2

LEMMA NextNumbersFacts ==
    ASSUME NEW d, IsDB(d), NEW prefix, NEW n \in NextNumbers(d, prefix)
    PROVE  n \in Nat /\ n > d.sequence /\ ~IDExists(d, GeneratedID(prefix, n))
BY ClockAssumption DEF NextNumbers, IsNextID, IsDB

LEMMA NewFactType ==
    ASSUME NEW in \in FactInputs, NEW single \in BOOLEAN, NEW now \in Nat
    PROVE  NewFact(in, single, now) \in Fact
BY InputAssumption DEF NewFact, Fact, FactInput

LEMMA RetiredType ==
    ASSUME NEW fact \in Fact, NEW in \in FactInputs, NEW now \in Nat, NEW successor \in ID
    PROVE  Retired(fact, in, now, successor) \in Fact
BY InputAssumption DEF Retired, Fact, FactInput

LEMMA RetractedType ==
    ASSUME NEW fact \in Fact, NEW now \in Nat
    PROVE  Retracted(fact, now) \in Fact
BY DEF Retracted, Fact

LEMMA StrictlyAfterFacts ==
    ASSUME NEW now \in Nat, NEW after \in Nat
    PROVE  /\ StrictlyAfter(now, after) \in Nat
           /\ StrictlyAfter(now, after) > after
           /\ StrictlyAfter(now, after) >= now
BY DEF StrictlyAfter

LEMMA FactNumbersFacts ==
    ASSUME NEW d, IsDB(d), NEW in \in FactInputs, NEW s \in FactNumbers(d, in)
    PROVE  /\ s \in Nat
           /\ s >= d.sequence
           /\ RecordID(in.id, "fact", s) \in ID
           /\ ~IDExists(d, RecordID(in.id, "fact", s))
<1>1. in.id \in CallerIDs \cup {None}
  BY InputAssumption DEF FactInput
<1>2. s \in RecordNumbers(d, in.id, "fact", "fact") /\ RecordID(in.id, "fact", s) \notin DOMAIN d.facts
  BY DEF FactNumbers
<1>3. "fact" \in Prefixes
  BY DEF Prefixes
<1>4. /\ s \in Nat /\ s >= d.sequence /\ RecordID(in.id, "fact", s) \in ID
      /\ in.id # None => AvailableTo(d, in.id, "fact")
      /\ in.id = None => ~IDExists(d, GeneratedID("fact", s))
  BY <1>1, <1>2, <1>3, RecordNumbersFacts
<1> QED BY <1>2, <1>4 DEF RecordID, AvailableTo, IDExists

(* The assertion AssertFact and SupersedeFact share: one new fact, and its *)
(* first revision.                                                         *)
LEMMA AssertionEffect ==
    ASSUME NEW d, IsDB(d), NEW in \in FactInputs, NEW single \in BOOLEAN, NEW now \in Nat,
           NEW s \in FactNumbers(d, in),
           NEW n \in NextNumbers(WithNewFact(d, in, single, now, s), "factrev")
    PROVE  LET id == RecordID(in.id, "fact", s)
               fact == NewFact(in, single, now)
           IN  /\ s \in Nat /\ s >= d.sequence /\ id \in ID /\ ~IDExists(d, id) /\ fact \in Fact
               /\ n \in Nat /\ n > s
               /\ ~IDExists(StoreFact(SetSequence(d, s), id, fact), GeneratedID("factrev", n))
               /\ AppendFactRevision(WithNewFact(d, in, single, now, s), id, n)
                    = RecordFact(SetSequence(d, s), id, fact, n)
<1> DEFINE id == RecordID(in.id, "fact", s)
           fact == NewFact(in, single, now)
<1>1. s \in Nat /\ s >= d.sequence /\ id \in ID /\ ~IDExists(d, id)
  BY FactNumbersFacts
<1>2. fact \in Fact
  BY NewFactType
<1>3. WithNewFact(d, in, single, now, s) = StoreFact(SetSequence(d, s), id, fact)
  BY DEF WithNewFact
<1> HIDE DEF id, fact
<1>4. IsDB(SetSequence(d, s)) /\ SetSequence(d, s).sequence = s
  BY <1>1, SetSequenceFields
<1>5. IsDB(WithNewFact(d, in, single, now, s)) /\ WithNewFact(d, in, single, now, s).sequence = s
  BY <1>1, <1>2, <1>3, <1>4, StoreFactFields
<1>6. n \in Nat /\ n > s /\ ~IDExists(WithNewFact(d, in, single, now, s), GeneratedID("factrev", n))
  BY <1>5, NextNumbersFacts
<1> QED BY <1>1, <1>2, <1>3, <1>6 DEF RecordFact, id, fact

(* A transition of a fact that exists, and its revision.                   *)
LEMMA TransitionEffect ==
    ASSUME NEW d, IsDB(d), NEW id \in DOMAIN d.facts, NEW fact \in Fact,
           NEW n \in NextNumbers(StoreFact(d, id, fact), "factrev")
    PROVE  /\ id \in ID
           /\ n \in Nat /\ n > d.sequence
           /\ ~IDExists(StoreFact(d, id, fact), GeneratedID("factrev", n))
           /\ AppendFactRevision(StoreFact(d, id, fact), id, n) = RecordFact(d, id, fact, n)
<1>1. id \in ID
  BY DEF IsDB, IsMap
<1>2. IsDB(StoreFact(d, id, fact)) /\ StoreFact(d, id, fact).sequence = d.sequence
  BY <1>1, StoreFactFields
<1> QED BY <1>1, <1>2, NextNumbersFacts DEF RecordFact

(* e is d with the fact recorded under a free revision number.             *)
Records(d, id, fact, n, e) ==
    /\ id \in ID /\ fact \in Fact
    /\ n \in Nat /\ n > d.sequence
    /\ ~IDExists(StoreFact(d, id, fact), GeneratedID("factrev", n))
    /\ e = RecordFact(d, id, fact, n)

LEMMA RecordsFields ==
    ASSUME NEW d, IsDB(d), NEW id, NEW fact, NEW n, NEW e, Records(d, id, fact, n, e)
    PROVE  /\ IsDB(e)
           /\ e.sequence = n
           /\ e.sources = d.sources
           /\ e.episodes = d.episodes
           /\ e.entities = d.entities
           /\ e.facts = Put(d.facts, id, fact)
           /\ e.factRevisions
                = Put(d.factRevisions, GeneratedID("factrev", n), FactRevisionOf(id, fact))
           /\ e.entityRevisions = d.entityRevisions
BY RecordFactFields DEF Records

(* AssertFact records one new fact.                                        *)
AssertsFact(in, s, n) ==
    /\ FactAccepted(db, in, in.single)
    /\ s \in Nat /\ s >= db.sequence
    /\ ~IDExists(db, RecordID(in.id, "fact", s))
    /\ Records(SetSequence(db, s), RecordID(in.id, "fact", s),
               NewFact(in, in.single, txTime), n, db')

LEMMA AssertFactStep ==
    ASSUME TypeOK, AssertFact
    PROVE  \E in, s, n : in \in FactInputs /\ AssertsFact(in, s, n)
<1>1. PICK in \in FactInputs :
        /\ FactAccepted(db, in, in.single)
        /\ \E s \in FactNumbers(db, in) :
            LET stored == WithNewFact(db, in, in.single, txTime, s)
            IN  \E n \in NextNumbers(stored, "factrev") :
                    db' = AppendFactRevision(stored, RecordID(in.id, "fact", s), n)
  BY DEF AssertFact
<1>2. PICK s \in FactNumbers(db, in) :
            \E n \in NextNumbers(WithNewFact(db, in, in.single, txTime, s), "factrev") :
                db' = AppendFactRevision(WithNewFact(db, in, in.single, txTime, s),
                                         RecordID(in.id, "fact", s), n)
  BY <1>1
<1>3. PICK n \in NextNumbers(WithNewFact(db, in, in.single, txTime, s), "factrev") :
            db' = AppendFactRevision(WithNewFact(db, in, in.single, txTime, s),
                                     RecordID(in.id, "fact", s), n)
  BY <1>2
<1>4. IsDB(db) /\ txTime \in Nat /\ in.single \in BOOLEAN
  BY InputAssumption DEF TypeOK, FactInput
<1>5. SetSequence(db, s).sequence = s
  BY <1>4, FactNumbersFacts, SetSequenceFields
<1>6. AssertsFact(in, s, n)
  BY <1>1, <1>3, <1>4, <1>5, AssertionEffect DEF AssertsFact, Records
<1> QED BY <1>6

(* SupersedeFact records the replacement, the retired fact and the link.   *)
SupersedesFact(old, in, s, a, b, n1, n2, n3) ==
    LET new  == RecordID(in.id, "fact", s)
        fact == NewFact(in, FALSE, txTime')
    IN  /\ in \in FactInputs
        /\ old \in DOMAIN db.facts /\ db.facts[old].status = "active"
        /\ SameSlot(db.facts[old], in) /\ FactAccepted(db, in, FALSE)
        /\ txTime' = StrictlyAfter(txTime, db.facts[old].updatedAt)
        /\ s \in Nat /\ s >= db.sequence
        /\ ~IDExists(db, new)
        /\ Records(SetSequence(db, s), new, fact, n1, a)
        /\ Records(a, old, Retired(db.facts[old], in, txTime', new), n2, b)
        /\ Records(b, new, Succeeding(fact, old), n3, db')

LEMMA SupersedeFactStep ==
    ASSUME TypeOK, SupersedeFact
    PROVE  \E old, in, s, a, b, n1, n2, n3 :
                SupersedesFact(old, in, s, a, b, n1, n2, n3)
<1>1. PICK old \in DOMAIN db.facts, in \in FactInputs :
        /\ Supersedable(db.facts[old])
        /\ SameSlot(db.facts[old], in) /\ FactAccepted(db, in, FALSE)
        /\ txTime' = StrictlyAfter(txTime, db.facts[old].updatedAt)
        /\ \E s \in FactNumbers(db, in) :
            LET new == RecordID(in.id, "fact", s)
                stored == WithNewFact(db, in, FALSE, txTime', s)
            IN \E n1 \in NextNumbers(stored, "factrev") :
                LET asserted == AppendFactRevision(stored, new, n1)
                    retired == StoreFact(asserted, old, Retired(db.facts[old], in, txTime', new))
                IN \E n2 \in NextNumbers(retired, "factrev") :
                    LET logged == AppendFactRevision(retired, old, n2)
                        linked == StoreFact(logged, new, Succeeding(logged.facts[new], old))
                    IN \E n3 \in NextNumbers(linked, "factrev") :
                        db' = AppendFactRevision(linked, new, n3)
  BY DEF SupersedeFact
<1> DEFINE now == txTime'
<1>2. /\ IsDB(db) /\ txTime \in Nat /\ db.facts[old] \in Fact /\ old \in ID
      /\ db.facts[old].updatedAt \in Nat
  BY DEF TypeOK, IsDB, IsMap, Fact
<1>3. now \in Nat
  BY <1>1, <1>2, StrictlyAfterFacts
<1> HIDE DEF now
<1>4. PICK s \in FactNumbers(db, in) :
        \E n1 \in NextNumbers(WithNewFact(db, in, FALSE, now, s), "factrev") :
        LET new == RecordID(in.id, "fact", s)
            asserted == AppendFactRevision(WithNewFact(db, in, FALSE, now, s), new, n1)
            retired == StoreFact(asserted, old, Retired(db.facts[old], in, now, new))
        IN \E n2 \in NextNumbers(retired, "factrev") :
            LET logged == AppendFactRevision(retired, old, n2)
                linked == StoreFact(logged, new, Succeeding(logged.facts[new], old))
            IN \E n3 \in NextNumbers(linked, "factrev") :
                db' = AppendFactRevision(linked, new, n3)
  BY <1>1 DEF now
<1> DEFINE new  == RecordID(in.id, "fact", s)
           fact == NewFact(in, FALSE, now)
           gone == Retired(db.facts[old], in, now, new)
<1>5. PICK n1 \in NextNumbers(WithNewFact(db, in, FALSE, now, s), "factrev") :
        LET asserted == AppendFactRevision(WithNewFact(db, in, FALSE, now, s), new, n1)
            retired == StoreFact(asserted, old, gone)
        IN \E n2 \in NextNumbers(retired, "factrev") :
            LET logged == AppendFactRevision(retired, old, n2)
                linked == StoreFact(logged, new, Succeeding(logged.facts[new], old))
            IN \E n3 \in NextNumbers(linked, "factrev") :
                db' = AppendFactRevision(linked, new, n3)
  BY <1>4
<1> DEFINE a == AppendFactRevision(WithNewFact(db, in, FALSE, now, s), new, n1)
<1>6. /\ s \in Nat /\ s >= db.sequence /\ ~IDExists(db, new) /\ new \in ID /\ fact \in Fact
      /\ n1 \in Nat /\ n1 > s
      /\ ~IDExists(StoreFact(SetSequence(db, s), new, fact), GeneratedID("factrev", n1))
      /\ a = RecordFact(SetSequence(db, s), new, fact, n1)
  BY <1>2, <1>3, AssertionEffect
<1>7. IsDB(SetSequence(db, s)) /\ SetSequence(db, s).sequence = s /\ SetSequence(db, s).facts = db.facts
  BY <1>2, <1>6, SetSequenceFields
<1>8. gone \in Fact
  BY <1>2, <1>3, <1>6, RetiredType
<1> HIDE DEF new, fact, gone, a
<1>9. Records(SetSequence(db, s), new, fact, n1, a)
  BY <1>6, <1>7 DEF Records
<1>10. IsDB(a) /\ a.facts = Put(db.facts, new, fact)
  BY <1>7, <1>9, RecordsFields
<1>11. old \in DOMAIN a.facts /\ old # new /\ a.facts[new] = fact
  BY <1>6, <1>10 DEF Put, IDExists
<1>12. PICK n2 \in NextNumbers(StoreFact(a, old, gone), "factrev") :
        LET logged == AppendFactRevision(StoreFact(a, old, gone), old, n2)
            linked == StoreFact(logged, new, Succeeding(logged.facts[new], old))
        IN \E n3 \in NextNumbers(linked, "factrev") :
            db' = AppendFactRevision(linked, new, n3)
  BY <1>5 DEF new, gone, a
<1> DEFINE b == AppendFactRevision(StoreFact(a, old, gone), old, n2)
<1>13. Records(a, old, gone, n2, b)
  BY <1>8, <1>10, <1>11, TransitionEffect DEF Records
<1>14. PICK n3 \in NextNumbers(StoreFact(b, new, Succeeding(b.facts[new], old)), "factrev") :
            db' = AppendFactRevision(StoreFact(b, new, Succeeding(b.facts[new], old)), new, n3)
  BY <1>12
<1> HIDE DEF b
<1>15. IsDB(b) /\ b.facts = Put(a.facts, old, gone)
  BY <1>10, <1>13, RecordsFields
<1>16. new \in DOMAIN b.facts /\ b.facts[new] = fact
  BY <1>10, <1>11, <1>15 DEF Put
<1>17. Succeeding(fact, old) \in Fact
  BY <1>2, <1>6 DEF Succeeding, Fact
<1>18. Records(b, new, Succeeding(fact, old), n3, db')
  BY <1>14, <1>15, <1>16, <1>17, TransitionEffect DEF Records
<1>19. SupersedesFact(old, in, s, a, b, n1, n2, n3)
  BY <1>1, <1>6, <1>9, <1>13, <1>18 DEF SupersedesFact, Supersedable, new, fact, gone, now
<1> QED BY <1>19

(* RetractFact changes nothing, or records the retracted fact.             *)
RetractsFact(id, n) ==
    /\ id \in DOMAIN db.facts /\ db.facts[id].status # "retracted"
    /\ Records(db, id, Retracted(db.facts[id], StrictlyAfter(txTime, db.facts[id].updatedAt)), n, db')

LEMMA RetractFactStep ==
    ASSUME TypeOK, RetractFact
    PROVE  db' = db \/ \E id, n : RetractsFact(id, n)
<1>1. CASE db' = db
  BY <1>1
<1>2. CASE db' # db
  <2>1. PICK id \in DOMAIN db.facts :
            /\ Retractable(db.facts[id])
            /\ LET now == StrictlyAfter(txTime, db.facts[id].updatedAt)
                   retracted == StoreFact(db, id, Retracted(db.facts[id], now))
               IN  \E n \in NextNumbers(retracted, "factrev") :
                       db' = AppendFactRevision(retracted, id, n)
    BY <1>2 DEF RetractFact
  <2> DEFINE fact == Retracted(db.facts[id], StrictlyAfter(txTime, db.facts[id].updatedAt))
  <2>2. PICK n \in NextNumbers(StoreFact(db, id, fact), "factrev") :
            db' = AppendFactRevision(StoreFact(db, id, fact), id, n)
    BY <2>1
  <2>3. IsDB(db) /\ txTime \in Nat /\ db.facts[id] \in Fact /\ db.facts[id].updatedAt \in Nat
    BY DEF TypeOK, IsDB, IsMap, Fact
  <2>4. fact \in Fact
    BY <2>3, StrictlyAfterFacts, RetractedType
  <2> HIDE DEF fact
  <2>5. Records(db, id, fact, n, db')
    BY <2>2, <2>3, <2>4, TransitionEffect DEF Records
  <2> QED BY <2>1, <2>5 DEF RetractsFact, Retractable, fact
<1> QED BY <1>1, <1>2

(* IngestEpisode may add one source and one episode, under ids no other    *)
(* kind of record owns.                                                    *)
IngestsEpisode(source, id) ==
    /\ IsDB(db')
    /\ db'.sequence >= db.sequence
    /\ AvailableTo(db, source, "source")
    /\ DOMAIN db'.sources = DOMAIN db.sources \cup {source}
    /\ \A x \in DOMAIN db.sources : db'.sources[x] = db.sources[x]
    /\ source \notin DOMAIN db.sources => db'.sources[source].createdAt = txTime
    /\ AvailableTo(db', id, "episode")
    /\ DOMAIN db'.episodes = DOMAIN db.episodes \cup {id}
    /\ \A e \in DOMAIN db.episodes : db'.episodes[e] = db.episodes[e]
    /\ id \notin DOMAIN db.episodes =>
         /\ db'.episodes[id].source = source /\ db'.episodes[id].ingestedAt = txTime
         /\ db'.episodes[id].space = db'.sources[source].space
    /\ db'.entities = db.entities
    /\ db'.facts = db.facts
    /\ db'.factRevisions = db.factRevisions
    /\ db'.entityRevisions = db.entityRevisions

LEMMA IngestEpisodeStep ==
    ASSUME TypeOK, IngestEpisode
    PROVE  \E source, id : IngestsEpisode(source, id)
<1>1. PICK in \in EpisodeInputs :
        LET sources == IF in.source \in DOMAIN db.sources THEN db.sources
                       ELSE Put(db.sources, in.source, [space |-> in.space, createdAt |-> txTime])
            d == [db EXCEPT !.sources = sources]
            episode == [space |-> in.space, content |-> in.content, source |-> in.source,
                        observedAt |-> in.observed, ingestedAt |-> txTime]
        IN  /\ AvailableTo(db, in.source, "source")
            /\ sources[in.source].space = in.space
            /\ \E s \in RecordNumbers(d, in.id, "ep", "episode") :
                LET id == RecordID(in.id, "ep", s)
                IN  \/ /\ id \notin DOMAIN d.episodes
                       /\ db' = [SetSequence(d, s) EXCEPT !.episodes = Put(@, id, episode)]
                    \/ /\ id \in DOMAIN d.episodes
                       /\ episode = [d.episodes[id] EXCEPT !.observedAt = in.observed,
                                                             !.ingestedAt = txTime]
                       /\ db' = SetSequence(d, s)
  BY DEF IngestEpisode
<1> DEFINE source  == [space |-> in.space, createdAt |-> txTime]
           sources == IF in.source \in DOMAIN db.sources THEN db.sources
                      ELSE Put(db.sources, in.source, source)
           d       == [db EXCEPT !.sources = sources]
           episode == [space |-> in.space, content |-> in.content, source |-> in.source,
                       observedAt |-> in.observed, ingestedAt |-> txTime]
<1>2. PICK s \in RecordNumbers(d, in.id, "ep", "episode") :
        \/ /\ RecordID(in.id, "ep", s) \notin DOMAIN d.episodes
           /\ db' = [SetSequence(d, s) EXCEPT !.episodes = Put(@, RecordID(in.id, "ep", s), episode)]
        \/ /\ RecordID(in.id, "ep", s) \in DOMAIN d.episodes
           /\ db' = SetSequence(d, s)
  BY <1>1
<1> DEFINE id == RecordID(in.id, "ep", s)
<1>3. /\ IsDB(db) /\ txTime \in Nat
      /\ in.id \in CallerIDs \cup {None} /\ in.source \in ID
      /\ in.space \in STRING /\ in.content \in STRING /\ in.observed \in Nat
  BY InputAssumption DEF TypeOK, EpisodeInput, ID
<1>4. source \in Source /\ episode \in Episode
  BY <1>3 DEF Source, Episode
<1>5. /\ IsMap(sources, Source) /\ DOMAIN sources = DOMAIN db.sources \cup {in.source}
      /\ \A x \in DOMAIN db.sources : sources[x] = db.sources[x]
      /\ in.source \notin DOMAIN db.sources => sources[in.source].createdAt = txTime
  <2>1. CASE in.source \in DOMAIN db.sources
    BY <2>1, <1>3 DEF IsDB
  <2>2. CASE in.source \notin DOMAIN db.sources
    <3>0. source.createdAt = txTime
      OBVIOUS
    <3> HIDE DEF source
    <3>1. sources = Put(db.sources, in.source, source)
      BY <2>2
    <3>2. IsMap(sources, Source)
      BY <3>1, <1>3, <1>4, PutIsMap DEF IsDB
    <3>3. /\ DOMAIN sources = DOMAIN db.sources \cup {in.source} /\ sources[in.source] = source
          /\ \A x \in DOMAIN db.sources : sources[x] = db.sources[x]
      BY <2>2, <3>1 DEF Put
    <3> QED BY <3>0, <3>2, <3>3
  <2> QED BY <2>1, <2>2
<1>5a. /\ sources[in.source].space = in.space
       /\ episode.source = in.source /\ episode.ingestedAt = txTime /\ episode.space = in.space
  BY <1>1
<1> HIDE DEF source, sources, episode
<1>6. /\ IsDB(d) /\ d.sequence = db.sequence /\ d.sources = sources /\ d.episodes = db.episodes
      /\ d.entities = db.entities /\ d.facts = db.facts
      /\ d.factRevisions = db.factRevisions /\ d.entityRevisions = db.entityRevisions
  BY <1>3, <1>5 DEF IsDB
<1> HIDE DEF d
<1>7. /\ s \in Nat /\ s >= d.sequence /\ id \in ID
      /\ in.id # None => AvailableTo(d, in.id, "episode")
      /\ in.id = None => ~IDExists(d, GeneratedID("ep", s))
  BY <1>3, <1>6, RecordNumbersFacts DEF Prefixes
<1>8. AvailableTo(d, id, "episode")
  BY <1>7 DEF AvailableTo, IDExists, RecordID
<1> DEFINE e == SetSequence(d, s)
<1>9. /\ IsDB(e) /\ e.sequence = s /\ e.sources = d.sources /\ e.episodes = d.episodes
      /\ e.entities = d.entities /\ e.facts = d.facts
      /\ e.factRevisions = d.factRevisions /\ e.entityRevisions = d.entityRevisions
  BY <1>6, <1>7, SetSequenceFields
<1> HIDE DEF e
<1>10. AvailableTo(e, id, "episode")
  BY <1>8, <1>9 DEF AvailableTo
<1>11. AvailableTo(db, in.source, "source")
  BY <1>1
<1>12. CASE id \in DOMAIN d.episodes /\ db' = e
  <2>1. IngestsEpisode(in.source, id)
    BY <1>5, <1>6, <1>7, <1>9, <1>10, <1>11, <1>12 DEF IngestsEpisode
  <2> QED BY <2>1
<1>13. CASE id \notin DOMAIN d.episodes /\ db' = [e EXCEPT !.episodes = Put(@, id, episode)]
  <2> HIDE DEF id
  <2> DEFINE map == Put(e.episodes, id, episode)
  <2>1. IsMap(map, Episode)
    BY <1>4, <1>7, <1>9, PutIsMap DEF IsDB
  <2>2. DOMAIN map = DOMAIN db.episodes \cup {id}
    BY <1>6, <1>9 DEF Put
  <2>3. map[id] = episode /\ \A x \in DOMAIN db.episodes : map[x] = db.episodes[x]
    BY <1>6, <1>9, <1>13 DEF Put
  <2>4. db' = [e EXCEPT !.episodes = map]
    BY <1>13
  <2> HIDE DEF map
  <2>5. /\ IsDB(db') /\ db'.sequence = s /\ db'.sources = e.sources /\ db'.episodes = map
        /\ db'.entities = e.entities /\ db'.facts = e.facts
        /\ db'.factRevisions = e.factRevisions /\ db'.entityRevisions = e.entityRevisions
    BY <1>9, <2>1, <2>4 DEF IsDB
  <2>6. AvailableTo(db', id, "episode")
    BY <1>10, <2>5 DEF AvailableTo
  <2>7. IngestsEpisode(in.source, id)
    BY <1>5a, <1>5, <1>6, <1>7, <1>9, <1>11, <2>2, <2>3, <2>5, <2>6 DEF IngestsEpisode
  <2> QED BY <2>7
<1> QED BY <1>2, <1>12, <1>13 DEF id, e

(* UpsertEntity stores one entity, under an id no other kind of record     *)
(* owns, and its revision under a free id.                                 *)
UpsertsEntity(id, revision) ==
    /\ IsDB(db')
    /\ db'.sequence >= db.sequence
    /\ db'.sources = db.sources
    /\ db'.episodes = db.episodes
    /\ AvailableTo(db, id, "entity")
    /\ DOMAIN db'.entities = DOMAIN db.entities \cup {id}
    /\ db'.entities = Put(db.entities, id, db'.entities[id])
    /\ db'.entities[id].updatedAt = txTime
    /\ db'.entities[id].createdAt
         = IF id \in DOMAIN db.entities THEN db.entities[id].createdAt ELSE txTime
    /\ id \in DOMAIN db.entities => db'.entities[id].space = db.entities[id].space
    /\ db'.facts = db.facts
    /\ db'.factRevisions = db.factRevisions
    /\ ~IDExists(db, revision) /\ revision # id
    /\ DOMAIN db'.entityRevisions = DOMAIN db.entityRevisions \cup {revision}
    /\ db'.sequence > db.sequence /\ revision = GeneratedID("entityrev", db'.sequence)
    /\ db'.entityRevisions = Put(db.entityRevisions, revision, EntityRevisionOf(id, db'.entities[id]))

LEMMA UpsertEntityStep ==
    ASSUME TypeOK, UpsertEntity
    PROVE  \E id, revision : UpsertsEntity(id, revision)
<1>1. PICK in \in EntityInputs :
        LET known == in.id \in DOMAIN db.entities
            entity == [space |-> in.space, value |-> in.value, updatedAt |-> txTime,
                       createdAt |-> IF known THEN db.entities[in.id].createdAt ELSE txTime]
            d == StoreEntity(db, in.id, entity)
        IN  /\ AvailableTo(db, in.id, "entity")
            /\ known => db.entities[in.id].space = in.space
            /\ \E n \in NextNumbers(d, "entityrev") : db' = AppendEntityRevision(d, in.id, n)
  BY DEF UpsertEntity
<1> DEFINE known == in.id \in DOMAIN db.entities
           entity == [space |-> in.space, value |-> in.value, updatedAt |-> txTime,
                      createdAt |-> IF known THEN db.entities[in.id].createdAt ELSE txTime]
           d == StoreEntity(db, in.id, entity)
<1>2. PICK n \in NextNumbers(d, "entityrev") : db' = AppendEntityRevision(d, in.id, n)
  BY <1>1
<1>3. /\ IsDB(db) /\ txTime \in Nat /\ in.id \in ID
      /\ in.space \in STRING /\ in.value \in STRING
  BY InputAssumption DEF TypeOK, EntityInput, ID
<1>4. entity \in Entity
  BY <1>3 DEF Entity, IsDB, IsMap
<1>4a. /\ entity.updatedAt = txTime
       /\ entity.createdAt = IF in.id \in DOMAIN db.entities THEN db.entities[in.id].createdAt ELSE txTime
       /\ in.id \in DOMAIN db.entities => entity.space = db.entities[in.id].space
  BY <1>1
<1> HIDE DEF entity
<1>5. /\ IsDB(d) /\ d.sequence = db.sequence /\ d.sources = db.sources /\ d.episodes = db.episodes
      /\ d.entities = Put(db.entities, in.id, entity) /\ d.facts = db.facts
      /\ d.factRevisions = db.factRevisions /\ d.entityRevisions = db.entityRevisions
  BY <1>3, <1>4, StoreEntityFields
<1> HIDE DEF d
<1>6. DOMAIN d.entities = DOMAIN db.entities \cup {in.id} /\ d.entities[in.id] = entity
  BY <1>5 DEF Put
<1>7. n \in Nat /\ n > db.sequence /\ ~IDExists(d, GeneratedID("entityrev", n))
  BY <1>5, NextNumbersFacts
<1>8. ~IDExists(db, GeneratedID("entityrev", n)) /\ GeneratedID("entityrev", n) # in.id
  BY <1>5, <1>6, <1>7 DEF IDExists
<1> DEFINE e == AppendEntityRevision(d, in.id, n)
<1>9. in.id \in DOMAIN d.entities
  BY <1>6
<1>10. /\ IsDB(e) /\ e.sequence = n /\ e.sources = d.sources /\ e.episodes = d.episodes
       /\ e.entities = d.entities /\ e.facts = d.facts /\ e.factRevisions = d.factRevisions
       /\ e.entityRevisions = Put(d.entityRevisions, GeneratedID("entityrev", n),
                                  EntityRevisionOf(in.id, d.entities[in.id]))
  BY <1>5, <1>7, <1>9, AppendEntityRevisionFields
<1> HIDE DEF e
<1>11. db' = e
  BY <1>2 DEF e
<1>12. DOMAIN db'.entityRevisions = DOMAIN db.entityRevisions \cup {GeneratedID("entityrev", n)}
  BY <1>5, <1>10, <1>11 DEF Put
<1>13. AvailableTo(db, in.id, "entity")
  BY <1>1
<1>14. n >= db.sequence
  BY <1>3, <1>7 DEF IsDB
<1>15. UpsertsEntity(in.id, GeneratedID("entityrev", n))
  BY <1>4a, <1>5, <1>6, <1>7, <1>8, <1>10, <1>11, <1>12, <1>13, <1>14 DEF UpsertsEntity
<1> QED BY <1>15

-----------------------------------------------------------------------------
(* Every variable keeps its type: ids and stamps stay well-formed through  *)
(* every operation, whatever the callers offer.                            *)

LEMMA SupersedesIsDB ==
    ASSUME TypeOK, NEW old, NEW in, NEW s, NEW a, NEW b, NEW n1, NEW n2, NEW n3,
           SupersedesFact(old, in, s, a, b, n1, n2, n3)
    PROVE  IsDB(SetSequence(db, s)) /\ IsDB(a) /\ IsDB(b) /\ IsDB(db') /\ txTime' \in Nat
<1>1. IsDB(db) /\ s \in Nat
  BY DEF TypeOK, SupersedesFact
<1>2. IsDB(SetSequence(db, s))
  BY <1>1, SetSequenceFields
<1>3. IsDB(a)
  BY <1>2, RecordsFields DEF SupersedesFact
<1>4. IsDB(b)
  BY <1>3, RecordsFields DEF SupersedesFact
<1>5. IsDB(db')
  BY <1>4, RecordsFields DEF SupersedesFact
<1>6. txTime' = StrictlyAfter(txTime, db.facts[old].updatedAt) /\ old \in DOMAIN db.facts
  BY DEF SupersedesFact
<1>7. txTime \in Nat /\ db.facts[old].updatedAt \in Nat
  BY <1>1, <1>6 DEF TypeOK, IsDB, IsMap, Fact
<1> QED BY <1>2, <1>3, <1>4, <1>5, <1>6, <1>7, StrictlyAfterFacts

LEMMA EmptyDBType == IsDB(EmptyDB)
BY DEF EmptyDB, IsDB, IsMap

LEMMA TypeInit == Init => TypeOK
BY EmptyDBType, ClockAssumption DEF Init, TypeOK

LEMMA TypeStep == TypeOK /\ [Next]_vars => TypeOK'
<1> SUFFICES ASSUME TypeOK, [Next]_vars
             PROVE  TypeOK'
  OBVIOUS
<1>1. CASE Tick
  BY <1>1, ClockAssumption DEF Tick, TypeOK
<1>2. CASE BeginMutation
  BY <1>2 DEF BeginMutation, TypeOK
<1>3. CASE Abort
  BY <1>3 DEF Abort, TypeOK
<1>4. CASE Commit
  BY <1>4 DEF Commit, TypeOK
<1>5. CASE IngestEpisode
  <2>1. IsDB(db')
    BY <1>5, IngestEpisodeStep DEF IngestsEpisode
  <2> QED BY <1>5, <2>1 DEF IngestEpisode, TypeOK
<1>6. CASE UpsertEntity
  <2>1. IsDB(db')
    BY <1>6, UpsertEntityStep DEF UpsertsEntity
  <2> QED BY <1>6, <2>1 DEF UpsertEntity, TypeOK
<1>7. CASE AssertFact
  <2>1. PICK in, s, n : in \in FactInputs /\ AssertsFact(in, s, n)
    BY <1>7, AssertFactStep
  <2>2. IsDB(SetSequence(db, s))
    BY <2>1, SetSequenceFields DEF AssertsFact, TypeOK
  <2>3. IsDB(db')
    BY <2>1, <2>2, RecordsFields DEF AssertsFact
  <2> QED BY <1>7, <2>3 DEF AssertFact, TypeOK
<1>8. CASE SupersedeFact
  <2>1. IsDB(db') /\ txTime' \in Nat
    BY <1>8, SupersedeFactStep, SupersedesIsDB
  <2> QED BY <1>8, <2>1 DEF SupersedeFact, TypeOK
<1>9. CASE RetractFact
  <2>1. CASE db' = db
    BY <1>9, <2>1 DEF RetractFact, TypeOK
  <2>2. CASE db' # db
    <3>1. IsDB(db')
      BY <1>9, <2>2, RetractFactStep, RecordsFields DEF RetractsFact, TypeOK
    <3> QED BY <1>9, <3>1 DEF RetractFact, TypeOK
  <2> QED BY <2>1, <2>2
<1>10. CASE UNCHANGED vars
  BY <1>10 DEF vars, TypeOK
<1> QED BY <1>1, <1>2, <1>3, <1>4, <1>5, <1>6, <1>7, <1>8, <1>9, <1>10 DEF Next

(* Type correctness of the engine, for all inputs and all bounds.          *)
THEOREM TypeCorrect == Spec => []TypeOK
BY TypeInit, TypeStep, PTL DEF Spec

-----------------------------------------------------------------------------
(* Recording a fact keeps the revision log in step with the live facts.    *)

LEMMA RevisionIDIsNew ==
    ASSUME NEW d, IsDB(d), RevisionsAreGrounded(d), NEW n \in Nat, n > d.sequence
    PROVE  GeneratedID("factrev", n) \notin DOMAIN d.factRevisions
BY DEF RevisionsAreGrounded, GeneratedID, IsDB

LEMMA RecordsKeepsRevisionsGrounded ==
    ASSUME NEW d, IsDB(d), RevisionsAreGrounded(d),
           NEW id, NEW fact, NEW n, NEW e, Records(d, id, fact, n, e),
           id \in DOMAIN d.facts => d.facts[id].updatedAt <= fact.updatedAt
    PROVE  RevisionsAreGrounded(e)
<1> DEFINE new == GeneratedID("factrev", n)
<1>1. /\ e.sequence = n /\ n \in Nat /\ n > d.sequence /\ d.sequence \in Nat
      /\ e.facts = Put(d.facts, id, fact)
      /\ e.factRevisions = Put(d.factRevisions, new, FactRevisionOf(id, fact))
      /\ id \in ID /\ fact \in Fact
  BY RecordsFields DEF Records, IsDB
<1> SUFFICES ASSUME NEW r \in DOMAIN e.factRevisions
             PROVE  /\ \E m \in 1..n : r = GeneratedID("factrev", m)
                    /\ e.factRevisions[r].fact \in DOMAIN e.facts
                    /\ e.factRevisions[r].txTime <= e.facts[e.factRevisions[r].fact].updatedAt
  BY <1>1 DEF RevisionsAreGrounded
<1>2. CASE r = new
  <2>1. e.factRevisions[r] = FactRevisionOf(id, fact)
    BY <1>1, <1>2 DEF Put
  <2>2. id \in DOMAIN e.facts /\ e.facts[id] = fact
    BY <1>1 DEF Put
  <2>3. fact.updatedAt \in Nat
    BY <1>1 DEF Fact
  <2>4. n \in 1..n
    BY <1>1
  <2> QED BY <1>2, <2>1, <2>2, <2>3, <2>4 DEF FactRevisionOf
<1>3. CASE r # new
  <2> DEFINE x == d.factRevisions[r].fact
  <2>1. r \in DOMAIN d.factRevisions /\ e.factRevisions[r] = d.factRevisions[r]
    BY <1>1, <1>3 DEF Put
  <2>2. PICK m \in 1..d.sequence : r = GeneratedID("factrev", m)
    BY <2>1 DEF RevisionsAreGrounded
  <2>3. m \in 1..n
    BY <1>1
  <2>4. x \in DOMAIN d.facts /\ d.factRevisions[r].txTime <= d.facts[x].updatedAt
    BY <2>1 DEF RevisionsAreGrounded
  <2>5. /\ d.factRevisions[r].txTime \in Nat /\ d.facts[x].updatedAt \in Nat
        /\ fact.updatedAt \in Nat
    BY <1>1, <2>1, <2>4 DEF IsDB, IsMap, FactRevision, Fact
  <2>6. x \in DOMAIN e.facts /\ e.facts[x] = IF x = id THEN fact ELSE d.facts[x]
    BY <1>1, <2>4 DEF Put
  <2>7. d.factRevisions[r].txTime <= e.facts[x].updatedAt
    BY <2>4, <2>5, <2>6
  <2> QED BY <2>1, <2>2, <2>3, <2>6, <2>7
<1> QED BY <1>2, <1>3

LEMMA RecordsKeepsFactsLogged ==
    ASSUME NEW d, IsDB(d), RevisionsAreGrounded(d), FactsAreLogged(d),
           NEW id, NEW fact, NEW n, NEW e, Records(d, id, fact, n, e),
           fact.status = "active" => fact.supersededBy = None,
           fact.createdAt <= fact.updatedAt,
           id \in DOMAIN d.facts => d.facts[id].updatedAt <= fact.updatedAt
    PROVE  FactsAreLogged(e)
<1> DEFINE new == GeneratedID("factrev", n)
<1>1. /\ n \in Nat /\ n > d.sequence /\ d.sequence \in Nat
      /\ e.facts = Put(d.facts, id, fact)
      /\ e.factRevisions = Put(d.factRevisions, new, FactRevisionOf(id, fact))
      /\ id \in ID /\ fact \in Fact
  BY RecordsFields DEF Records, IsDB
<1>2. new \notin DOMAIN d.factRevisions
  BY <1>1, RevisionIDIsNew
<1> SUFFICES ASSUME NEW x \in DOMAIN e.facts
             PROVE  /\ e.facts[x].status = "active" => e.facts[x].supersededBy = None
                    /\ e.facts[x].createdAt <= e.facts[x].updatedAt
                    /\ \E r \in DOMAIN e.factRevisions : IsLatestRevision(e, x, r)
  BY DEF FactsAreLogged
<1>3. CASE x = id
  <2>1. e.facts[x] = fact
    BY <1>1, <1>3 DEF Put
  <2>2. new \in DOMAIN e.factRevisions /\ e.factRevisions[new] = FactRevisionOf(id, fact)
    BY <1>1 DEF Put
  <2>3. ASSUME NEW y \in DOMAIN e.factRevisions \ {new}, e.factRevisions[y].fact = id
        PROVE  ComesAfter(Version(new, e.factRevisions[new]), Version(y, e.factRevisions[y]))
    <3>1. y \in DOMAIN d.factRevisions /\ e.factRevisions[y] = d.factRevisions[y]
      BY <1>1, <2>3 DEF Put
    <3>2. PICK m \in 1..d.sequence : y = GeneratedID("factrev", m)
      BY <3>1 DEF RevisionsAreGrounded
    <3>3. id \in DOMAIN d.facts /\ d.factRevisions[y].txTime <= d.facts[id].updatedAt
      BY <2>3, <3>1 DEF RevisionsAreGrounded
    <3>4. /\ d.factRevisions[y].txTime \in Nat /\ d.facts[id].updatedAt \in Nat
          /\ fact.updatedAt \in Nat
      BY <1>1, <3>1, <3>3 DEF IsDB, IsMap, FactRevision, Fact
    <3>5. d.factRevisions[y].txTime <= fact.updatedAt
      BY <3>3, <3>4
    <3>6. RevisionOrder(y) = m /\ RevisionOrder(new) = n /\ m < n
      BY <1>1, <3>2 DEF RevisionOrder, GeneratedID
    <3> HIDE DEF new
    <3> QED BY <1>1, <2>2, <3>1, <3>4, <3>5, <3>6 DEF ComesAfter, Version, FactRevisionOf
  <2>4. IsLatestRevision(e, x, new)
    BY <1>3, <2>1, <2>2, <2>3 DEF IsLatestRevision, FactRevisionOf
  <2> QED BY <2>1, <2>2, <2>4
<1>4. CASE x # id
  <2>1. x \in DOMAIN d.facts /\ e.facts[x] = d.facts[x]
    BY <1>1, <1>4 DEF Put
  <2>2. PICK r \in DOMAIN d.factRevisions : IsLatestRevision(d, x, r)
    BY <2>1 DEF FactsAreLogged
  <2>3. r # new /\ r \in DOMAIN e.factRevisions /\ e.factRevisions[r] = d.factRevisions[r]
    BY <1>1, <1>2 DEF Put
  <2>4. ASSUME NEW y \in DOMAIN e.factRevisions \ {r}, e.factRevisions[y].fact = x
        PROVE  ComesAfter(Version(r, e.factRevisions[r]), Version(y, e.factRevisions[y]))
    <3>1. y # new
      BY <1>1, <1>4, <2>4 DEF Put, FactRevisionOf
    <3>2. y \in DOMAIN d.factRevisions /\ e.factRevisions[y] = d.factRevisions[y]
      BY <1>1, <2>4, <3>1 DEF Put
    <3> QED BY <2>2, <2>3, <2>4, <3>2 DEF IsLatestRevision
  <2>5. IsLatestRevision(e, x, r)
    BY <2>1, <2>2, <2>3, <2>4 DEF IsLatestRevision
  <2>6. /\ e.facts[x].status = "active" => e.facts[x].supersededBy = None
        /\ e.facts[x].createdAt <= e.facts[x].updatedAt
    BY <2>1 DEF FactsAreLogged
  <2> QED BY <2>3, <2>5, <2>6
<1> QED BY <1>3, <1>4

LEMMA SetSequenceKeepsHistory ==
    ASSUME NEW d, IsDB(d), RevisionsAreGrounded(d), FactsAreLogged(d), NEW s \in Nat, s >= d.sequence
    PROVE  RevisionsAreGrounded(SetSequence(d, s)) /\ FactsAreLogged(SetSequence(d, s))
<1> DEFINE e == SetSequence(d, s)
<1>1. e.sequence = s /\ e.facts = d.facts /\ e.factRevisions = d.factRevisions /\ d.sequence \in Nat
  BY SetSequenceFields DEF IsDB
<1> HIDE DEF e
<1>2. \A m \in 1..d.sequence : m \in 1..s
  BY <1>1
<1>3. RevisionsAreGrounded(e)
  BY <1>1, <1>2 DEF RevisionsAreGrounded
<1>4. FactsAreLogged(e)
  BY <1>1 DEF FactsAreLogged, IsLatestRevision
<1> QED BY <1>3, <1>4 DEF e

LEMMA RecordsExtends ==
    ASSUME NEW old, NEW d, IsDB(d), RevisionsAreGrounded(d), Extends(old, d),
           NEW id, NEW fact, NEW n, NEW e, Records(d, id, fact, n, e),
           id \in DOMAIN old.facts
             => fact.updatedAt > old.facts[id].updatedAt /\ Evolves(old.facts[id], fact)
    PROVE  Extends(old, e)
<1> DEFINE new == GeneratedID("factrev", n)
<1>1. /\ n \in Nat /\ n > d.sequence /\ e.episodes = d.episodes
      /\ e.facts = Put(d.facts, id, fact)
      /\ e.factRevisions = Put(d.factRevisions, new, FactRevisionOf(id, fact))
  BY RecordsFields DEF Records
<1>2. new \notin DOMAIN d.factRevisions
  BY <1>1, RevisionIDIsNew
<1> HIDE DEF new
<1>3. \A r \in DOMAIN old.factRevisions :
        r \in DOMAIN e.factRevisions /\ e.factRevisions[r] = old.factRevisions[r]
  BY <1>1, <1>2 DEF Extends, Put
<1>4. ASSUME NEW r \in DOMAIN e.factRevisions \ DOMAIN old.factRevisions,
             e.factRevisions[r].fact \in DOMAIN old.facts
      PROVE  e.factRevisions[r].txTime > old.facts[e.factRevisions[r].fact].updatedAt
  <2>1. CASE r = new
    BY <1>1, <1>4, <2>1 DEF Put, FactRevisionOf
  <2>2. CASE r # new
    BY <1>1, <1>4, <2>2 DEF Put, Extends
  <2> QED BY <2>1, <2>2
<1>5. \A x \in DOMAIN old.facts : x \in DOMAIN e.facts /\ Evolves(old.facts[x], e.facts[x])
  BY <1>1 DEF Extends, Put
<1> QED BY <1>1, <1>3, <1>4, <1>5 DEF Extends

(* Extends needs only the maps that the fact history and the episodes use. *)
LEMMA ExtendsUnderOtherWrites ==
    ASSUME NEW old, NEW d, NEW e, Extends(old, d),
           e.facts = d.facts, e.factRevisions = d.factRevisions,
           \A id \in DOMAIN d.episodes : id \in DOMAIN e.episodes /\ e.episodes[id] = d.episodes[id]
    PROVE  Extends(old, e)
BY DEF Extends

LEMMA HistoryUnderOtherWrites ==
    ASSUME NEW d, NEW e, IsDB(d), IsDB(e), e.sequence >= d.sequence,
           e.facts = d.facts, e.factRevisions = d.factRevisions,
           RevisionsAreGrounded(d), FactsAreLogged(d)
    PROVE  RevisionsAreGrounded(e) /\ FactsAreLogged(e)
<1>1. \A m \in 1..d.sequence : m \in 1..e.sequence
  BY DEF IsDB
<1>2. RevisionsAreGrounded(e)
  BY <1>1 DEF RevisionsAreGrounded
<1>3. FactsAreLogged(e)
  BY DEF FactsAreLogged, IsLatestRevision
<1> QED BY <1>2, <1>3

LEMMA ExtendsItself ==
    ASSUME NEW d
    PROVE  Extends(d, d)
BY DEF Extends, Evolves

(* The history half of the invariant, for each operation on facts.         *)
HistoryStep ==
    /\ RevisionsAreGrounded(db')
    /\ FactsAreLogged(db')
    /\ Extends(snapshot, db')

LEMMA AssertFactKeepsHistory ==
    ASSUME IInv, AssertFact
    PROVE  HistoryStep
<1>1. PICK in, s, n : in \in FactInputs /\ AssertsFact(in, s, n)
  BY AssertFactStep DEF IInv
<1> DEFINE id == RecordID(in.id, "fact", s)
           fact == NewFact(in, in.single, txTime)
           d == SetSequence(db, s)
<1>2. s \in Nat /\ s >= db.sequence /\ ~IDExists(db, id) /\ Records(d, id, fact, n, db')
  BY <1>1 DEF AssertsFact
<1>3. fact.status = "active" /\ fact.supersededBy = None
      /\ fact.createdAt = txTime /\ fact.updatedAt = txTime /\ txTime \in Nat
  BY DEF NewFact, IInv, TypeOK
<1>4. IsDB(db)
  BY DEF IInv, TypeOK
<1>5. IsDB(d) /\ d.facts = db.facts /\ d.factRevisions = db.factRevisions /\ d.episodes = db.episodes
  BY <1>2, <1>4, SetSequenceFields
<1>6. RevisionsAreGrounded(d) /\ FactsAreLogged(d)
  BY <1>2, <1>4, SetSequenceKeepsHistory DEF IInv
<1>7. Extends(snapshot, d)
  BY <1>5, ExtendsUnderOtherWrites DEF IInv
<1>8. id \notin DOMAIN d.facts /\ id \notin DOMAIN snapshot.facts
  BY <1>2, <1>5, <1>7 DEF IDExists, Extends
<1> HIDE DEF id, fact, d
<1>9. RevisionsAreGrounded(db')
  BY <1>2, <1>5, <1>6, <1>8, RecordsKeepsRevisionsGrounded
<1>10. FactsAreLogged(db')
  BY <1>2, <1>3, <1>5, <1>6, <1>8, RecordsKeepsFactsLogged
<1>11. Extends(snapshot, db')
  BY <1>2, <1>5, <1>6, <1>7, <1>8, RecordsExtends
<1> QED BY <1>9, <1>10, <1>11 DEF HistoryStep

LEMMA SupersedeFactKeepsHistory ==
    ASSUME IInv, SupersedeFact
    PROVE  HistoryStep
<1>1. PICK old, in, s, a, b, n1, n2, n3 : SupersedesFact(old, in, s, a, b, n1, n2, n3)
  BY SupersedeFactStep DEF IInv
<1> DEFINE new  == RecordID(in.id, "fact", s)
           now  == txTime'
           fact == NewFact(in, FALSE, now)
           gone == Retired(db.facts[old], in, now, new)
           link == Succeeding(fact, old)
           d    == SetSequence(db, s)
<1>2. /\ s \in Nat /\ s >= db.sequence /\ ~IDExists(db, new)
      /\ old \in DOMAIN db.facts /\ db.facts[old].status = "active"
      /\ now = StrictlyAfter(txTime, db.facts[old].updatedAt)
      /\ Records(d, new, fact, n1, a) /\ Records(a, old, gone, n2, b) /\ Records(b, new, link, n3, db')
  BY <1>1 DEF SupersedesFact
<1>3. IsDB(db) /\ IsDB(d) /\ IsDB(a) /\ IsDB(b) /\ now \in Nat
  BY <1>1, SupersedesIsDB DEF IInv, TypeOK
<1>4. db = snapshot
  BY DEF IInv, SupersedeFact
<1>5. d.facts = db.facts /\ d.factRevisions = db.factRevisions /\ d.episodes = db.episodes
  BY <1>2, <1>3, SetSequenceFields
<1>6. /\ db.facts[old] \in Fact /\ db.facts[old].updatedAt \in Nat /\ db.facts[old].createdAt \in Nat
      /\ txTime \in Nat
  BY <1>2, <1>3 DEF IInv, TypeOK, IsDB, IsMap, Fact
<1>7. db.facts[old].createdAt <= db.facts[old].updatedAt /\ db.facts[old].supersededBy = None
  BY <1>2 DEF IInv, FactsAreLogged
<1>8. now > db.facts[old].updatedAt
  BY <1>2, <1>6, StrictlyAfterFacts
<1>9. /\ fact.status = "active" /\ fact.supersededBy = None
      /\ fact.createdAt = now /\ fact.updatedAt = now
  BY DEF NewFact
<1>10. /\ gone.status = "superseded" /\ gone.updatedAt = now
       /\ gone.createdAt = db.facts[old].createdAt
       /\ KeepsStatement(db.facts[old], gone)
  BY <1>6, <1>7 DEF Retired, Fact, KeepsStatement
<1>11. /\ link.status = "active" /\ link.supersededBy = None
       /\ link.createdAt = now /\ link.updatedAt = now
  BY DEF Succeeding, NewFact
<1>12. Evolves(db.facts[old], gone)
  BY <1>2, <1>8, <1>10 DEF Evolves, Rank
<1>13. old # new /\ new \notin DOMAIN db.facts
  BY <1>2 DEF IDExists
<1>14. RevisionsAreGrounded(d) /\ FactsAreLogged(d) /\ Extends(snapshot, d)
  BY <1>2, <1>3, <1>5, SetSequenceKeepsHistory, ExtendsUnderOtherWrites DEF IInv
<1> HIDE DEF new, now, fact, gone, link, d
<1>15. RevisionsAreGrounded(a) /\ FactsAreLogged(a) /\ Extends(snapshot, a)
  <2>1. RevisionsAreGrounded(a)
    BY <1>2, <1>3, <1>5, <1>13, <1>14, RecordsKeepsRevisionsGrounded
  <2>2. FactsAreLogged(a)
    BY <1>2, <1>3, <1>5, <1>9, <1>13, <1>14, RecordsKeepsFactsLogged
  <2>3. Extends(snapshot, a)
    BY <1>2, <1>3, <1>4, <1>13, <1>14, RecordsExtends
  <2> QED BY <2>1, <2>2, <2>3
<1>16. a.facts = Put(db.facts, new, fact)
  BY <1>2, <1>3, <1>5, RecordsFields
<1>17. a.facts[old] = db.facts[old] /\ a.facts[new] = fact
  BY <1>2, <1>13, <1>16 DEF Put
<1>18. RevisionsAreGrounded(b) /\ FactsAreLogged(b) /\ Extends(snapshot, b)
  <2>1. a.facts[old].updatedAt <= gone.updatedAt /\ gone.createdAt <= gone.updatedAt
    BY <1>3, <1>6, <1>7, <1>8, <1>10, <1>17
  <2>2. RevisionsAreGrounded(b)
    BY <1>2, <1>3, <1>15, <2>1, RecordsKeepsRevisionsGrounded
  <2>3. FactsAreLogged(b)
    BY <1>2, <1>3, <1>10, <1>15, <2>1, RecordsKeepsFactsLogged
  <2>4. Extends(snapshot, b)
    BY <1>2, <1>3, <1>4, <1>8, <1>10, <1>12, <1>15, RecordsExtends
  <2> QED BY <2>2, <2>3, <2>4
<1>19. b.facts[new] = fact
  <2>1. b.facts = Put(a.facts, old, gone)
    BY <1>2, <1>3, RecordsFields
  <2>2. new \in DOMAIN a.facts
    BY <1>16 DEF Put
  <2> QED BY <1>13, <1>17, <2>1, <2>2 DEF Put
<1>20. RevisionsAreGrounded(db') /\ FactsAreLogged(db') /\ Extends(snapshot, db')
  <2>1. b.facts[new].updatedAt <= link.updatedAt /\ link.createdAt <= link.updatedAt
    BY <1>3, <1>9, <1>11, <1>19
  <2>2. RevisionsAreGrounded(db')
    BY <1>2, <1>3, <1>18, <2>1, RecordsKeepsRevisionsGrounded
  <2>3. FactsAreLogged(db')
    BY <1>2, <1>3, <1>11, <1>18, <2>1, RecordsKeepsFactsLogged
  <2>4. Extends(snapshot, db')
    BY <1>2, <1>3, <1>4, <1>13, <1>18, RecordsExtends
  <2> QED BY <2>2, <2>3, <2>4
<1> QED BY <1>20 DEF HistoryStep

LEMMA RetractFactKeepsHistory ==
    ASSUME IInv, RetractFact
    PROVE  HistoryStep
<1>1. CASE db' = db
  BY <1>1 DEF IInv, HistoryStep
<1>2. CASE db' # db
  <2>1. PICK id, n : RetractsFact(id, n)
    BY <1>2, RetractFactStep DEF IInv
  <2> DEFINE now  == StrictlyAfter(txTime, db.facts[id].updatedAt)
             gone == Retracted(db.facts[id], now)
  <2>2. id \in DOMAIN db.facts /\ db.facts[id].status # "retracted" /\ Records(db, id, gone, n, db')
    BY <2>1 DEF RetractsFact
  <2>3. IsDB(db) /\ db = snapshot
    BY DEF IInv, TypeOK, RetractFact
  <2>4. /\ db.facts[id] \in Fact /\ db.facts[id].updatedAt \in Nat /\ db.facts[id].createdAt \in Nat
        /\ db.facts[id].status \in {"active", "superseded"}
        /\ txTime \in Nat
    BY <2>2, <2>3 DEF IInv, TypeOK, IsDB, IsMap, Fact
  <2>5. now \in Nat /\ now > db.facts[id].updatedAt
    BY <2>4, StrictlyAfterFacts
  <2>6. db.facts[id].createdAt <= db.facts[id].updatedAt
    BY <2>2 DEF IInv, FactsAreLogged
  <2> HIDE DEF now
  <2>7. /\ gone.status = "retracted" /\ gone.updatedAt = now /\ gone.createdAt = db.facts[id].createdAt
        /\ KeepsStatement(db.facts[id], gone)
    <3>1. gone = [db.facts[id] EXCEPT !.status = "retracted", !.retractedAt = now, !.updatedAt = now]
      BY DEF Retracted
    <3> HIDE DEF gone
    <3> QED BY <2>4, <3>1 DEF Fact, KeepsStatement
  <2>8. Evolves(db.facts[id], gone)
    BY <2>4, <2>5, <2>7 DEF Evolves, Rank
  <2> HIDE DEF gone
  <2>9. db.facts[id].updatedAt <= gone.updatedAt /\ gone.createdAt <= gone.updatedAt
    BY <2>4, <2>5, <2>6, <2>7
  <2>10. RevisionsAreGrounded(db')
    BY <2>2, <2>3, <2>9, RecordsKeepsRevisionsGrounded DEF IInv
  <2>11. FactsAreLogged(db')
    BY <2>2, <2>3, <2>7, <2>9, RecordsKeepsFactsLogged DEF IInv
  <2>12. Extends(snapshot, db')
    BY <2>2, <2>3, <2>5, <2>7, <2>8, RecordsExtends DEF IInv
  <2> QED BY <2>10, <2>11, <2>12 DEF HistoryStep
<1> QED BY <1>1, <1>2

LEMMA EmptyDBHistory == RevisionsAreGrounded(EmptyDB) /\ FactsAreLogged(EmptyDB)
BY DEF EmptyDB, RevisionsAreGrounded, FactsAreLogged

LEMMA InvariantInit == Init => IInv
BY TypeInit, EmptyDBHistory, ExtendsItself DEF Init, IInv

LEMMA InvariantStep == IInv /\ [Next]_vars => IInv'
<1> SUFFICES ASSUME IInv, [Next]_vars
             PROVE  IInv'
  OBVIOUS
<1>0. TypeOK'
  BY TypeStep DEF IInv
<1> USE <1>0
<1>1. CASE Tick
  BY <1>1 DEF Tick, IInv
<1>2. CASE BeginMutation
  BY <1>2, ExtendsItself DEF BeginMutation, IInv
<1>3. CASE Abort
  BY <1>3, ExtendsItself DEF Abort, IInv
<1>4. CASE Commit
  BY <1>4, ExtendsItself DEF Commit, IInv
<1>5. CASE IngestEpisode
  <2>1. PICK source, id : IngestsEpisode(source, id)
    BY <1>5, IngestEpisodeStep DEF IInv
  <2>2. RevisionsAreGrounded(db') /\ FactsAreLogged(db')
    BY <2>1, HistoryUnderOtherWrites DEF IngestsEpisode, IInv, TypeOK
  <2>3. Extends(snapshot, db')
    BY <2>1, ExtendsUnderOtherWrites DEF IngestsEpisode, IInv
  <2> QED BY <1>5, <2>2, <2>3 DEF IngestEpisode, IInv
<1>6. CASE UpsertEntity
  <2>1. PICK id, revision : UpsertsEntity(id, revision)
    BY <1>6, UpsertEntityStep DEF IInv
  <2>2. RevisionsAreGrounded(db') /\ FactsAreLogged(db')
    BY <2>1, HistoryUnderOtherWrites DEF UpsertsEntity, IInv, TypeOK
  <2>3. Extends(snapshot, db')
    BY <2>1, ExtendsUnderOtherWrites DEF UpsertsEntity, IInv
  <2> QED BY <1>6, <2>2, <2>3 DEF UpsertEntity, IInv
<1>7. CASE AssertFact
  BY <1>7, AssertFactKeepsHistory DEF AssertFact, HistoryStep, IInv
<1>8. CASE SupersedeFact
  BY <1>8, SupersedeFactKeepsHistory DEF SupersedeFact, HistoryStep, IInv
<1>9. CASE RetractFact
  BY <1>9, RetractFactKeepsHistory DEF RetractFact, HistoryStep, IInv
<1>10. CASE UNCHANGED vars
  BY <1>10 DEF vars, IInv
<1> QED BY <1>1, <1>2, <1>3, <1>4, <1>5, <1>6, <1>7, <1>8, <1>9, <1>10 DEF Next

(* The revision log and the live maps stay in step, and a mutation only    *)
(* extends what it started from (recordFactRevisionLocked after every      *)
(* write of a fact; strictlyAfterTxTime on every transition).              *)
THEOREM InvariantHolds == Spec => []IInv
BY InvariantInit, InvariantStep, PTL DEF Spec

-----------------------------------------------------------------------------
(* What the log answers about the present.                                 *)

LEMMA VersionTypes ==
    ASSUME NEW d, IsDB(d), RevisionsAreGrounded(d), NEW r \in DOMAIN d.factRevisions
    PROVE  /\ Version(r, d.factRevisions[r]).order \in Nat
           /\ Version(r, d.factRevisions[r]).txTime \in Nat
<1>1. PICK n \in 1..d.sequence : r = GeneratedID("factrev", n)
  BY DEF RevisionsAreGrounded
<1>2. n \in Nat
  BY DEF IsDB
<1>3. d.factRevisions[r].txTime \in Nat
  BY DEF IsDB, IsMap, FactRevision
<1> QED BY <1>1, <1>2, <1>3 DEF Version, RevisionOrder, GeneratedID

LEMMA LatestIsUnique ==
    ASSUME NEW versions, NEW v \in versions,
           \A w \in versions : w.order \in Nat /\ w.txTime \in Nat,
           \A w \in versions \ {v} : ComesAfter(v, w)
    PROVE  Latest(versions) = v
<1>1. \E u \in versions : \A w \in versions \ {u} : ComesAfter(u, w)
  OBVIOUS
<1>2. /\ Latest(versions) \in versions
      /\ \A w \in versions \ {Latest(versions)} : ComesAfter(Latest(versions), w)
  BY <1>1 DEF Latest
<1> DEFINE u == Latest(versions)
<1> HIDE DEF u
<1>3. CASE u # v
  <2>1. ComesAfter(u, v) /\ ComesAfter(v, u)
    BY <1>2, <1>3 DEF u
  <2>2. u.order \in Nat /\ u.txTime \in Nat /\ v.order \in Nat /\ v.txTime \in Nat
    BY <1>2 DEF u
  <2> QED BY <2>1, <2>2 DEF ComesAfter
<1> QED BY <1>3 DEF u

(* A cut from the fact's stamp on sees its latest revision last.           *)
LEMMA LatestVersionIsLive ==
    ASSUME NEW d, IsDB(d), RevisionsAreGrounded(d), FactsAreLogged(d),
           NEW id \in DOMAIN d.facts, NEW at \in Nat, at >= d.facts[id].updatedAt
    PROVE  FactVersions(d, id, at) # {} /\ FactVersionAt(d, id, at) = d.facts[id]
<1>1. PICK r \in DOMAIN d.factRevisions : IsLatestRevision(d, id, r)
  BY DEF FactsAreLogged
<1> DEFINE v == Version(r, d.factRevisions[r])
           known == FactVersions(d, id, at)
<1>2. d.factRevisions[r].fact = id /\ d.factRevisions[r].txTime <= at /\ v.record = d.facts[id]
  BY <1>1 DEF IsLatestRevision, Version
<1>3. v \in known
  BY <1>2 DEF FactVersions
<1>4. \A w \in known : \E x \in DOMAIN d.factRevisions :
        w = Version(x, d.factRevisions[x]) /\ d.factRevisions[x].fact = id
  BY DEF FactVersions
<1>5. \A w \in known : w.order \in Nat /\ w.txTime \in Nat
  BY <1>4, VersionTypes
<1>6. \A w \in known \ {v} : ComesAfter(v, w)
  BY <1>1, <1>4 DEF IsLatestRevision
<1> HIDE DEF v, known
<1>7. Latest(known) = v
  BY <1>3, <1>5, <1>6, LatestIsUnique
<1>8. d.facts[id].createdAt <= d.facts[id].updatedAt /\ d.facts[id].createdAt \in Nat
      /\ d.facts[id].updatedAt \in Nat
  BY DEF FactsAreLogged, IsDB, IsMap, Fact
<1>9. ~(d.facts[id].createdAt > at)
  BY <1>8
<1> QED BY <1>2, <1>3, <1>7, <1>9 DEF FactVersionAt, known

(* At every cut from a fact's stamp on, an as-of read rebuilds exactly the *)
(* live fact (factVersionAtLocked), under every clock.                     *)
THEOREM LiveFactIsLatest == Spec => []LiveFactIsLatestVersion
<1>1. IInv => LiveFactIsLatestVersion
  BY LatestVersionIsLive, ClockAssumption DEF IInv, TypeOK, LiveFactIsLatestVersion
<1> QED BY <1>1, InvariantHolds, PTL

-----------------------------------------------------------------------------
(* What the log answers about the past.                                    *)

LEMMA SettledVersions ==
    ASSUME NEW old, NEW new, IsDB(old), IsDB(new),
           RevisionsAreGrounded(old), FactsAreLogged(old), Extends(old, new),
           NEW id \in DOMAIN old.facts, NEW at \in Nat, at <= old.facts[id].updatedAt
    PROVE  FactVersionAt(new, id, at) = FactVersionAt(old, id, at)
<1>1. FactVersions(new, id, at) = FactVersions(old, id, at)
  <2>1. ASSUME NEW r \in DOMAIN new.factRevisions,
               new.factRevisions[r].fact = id, new.factRevisions[r].txTime <= at
        PROVE  r \in DOMAIN old.factRevisions
    <3>1. new.factRevisions[r].txTime \in Nat /\ old.facts[id].updatedAt \in Nat
      BY DEF IsDB, IsMap, FactRevision, Fact
    <3>2. ~(new.factRevisions[r].txTime > old.facts[id].updatedAt)
      BY <2>1, <3>1
    <3> QED BY <2>1, <3>2 DEF Extends
  <2>2. \A r \in DOMAIN old.factRevisions :
            r \in DOMAIN new.factRevisions /\ new.factRevisions[r] = old.factRevisions[r]
    BY DEF Extends
  <2>3. {x \in DOMAIN new.factRevisions :
            new.factRevisions[x].fact = id /\ new.factRevisions[x].txTime <= at}
        = {x \in DOMAIN old.factRevisions :
            old.factRevisions[x].fact = id /\ old.factRevisions[x].txTime <= at}
    BY <2>1, <2>2
  <2> QED BY <2>2, <2>3 DEF FactVersions
<1> DEFINE known == FactVersions(old, id, at)
<1>2. CASE known # {}
  BY <1>1, <1>2 DEF FactVersionAt
<1>3. CASE known = {}
  <2>1. /\ old.facts[id].updatedAt \in Nat
        /\ id \in DOMAIN new.facts /\ new.facts[id].updatedAt \in Nat
        /\ new.facts[id].updatedAt >= old.facts[id].updatedAt
    BY DEF IsDB, IsMap, Fact, Extends, Evolves
  <2>2. old.facts[id].updatedAt # at
    BY <1>3, <2>1, LatestVersionIsLive
  <2>3. old.facts[id].updatedAt > at /\ new.facts[id].updatedAt > at
    BY <2>1, <2>2
  <2> QED BY <1>1, <1>3, <2>3 DEF FactVersionAt
<1> QED BY <1>2, <1>3

(* A cut at or before a fact's stamp is settled: no later transition of    *)
(* the fact changes its answer there, whatever the clock does between the  *)
(* two mutations (strictlyAfterTxTime).                                    *)
THEOREM SettledCuts == Spec => SettledCutsAreImmutable
<1> DEFINE Settled == snapshot' # snapshot =>
                        \A id \in DOMAIN snapshot.facts : \A at \in Cuts :
                            at <= snapshot.facts[id].updatedAt
                                => FactVersionAt(snapshot', id, at) = FactVersionAt(snapshot, id, at)
<1>1. IInv /\ [Next]_vars => [Settled]_vars
  <2> SUFFICES ASSUME IInv, [Next]_vars
               PROVE  Settled
    OBVIOUS
  <2>1. snapshot' = snapshot \/ snapshot' = db
    BY DEF Next, Tick, BeginMutation, Abort, Commit, IngestEpisode, UpsertEntity,
           AssertFact, SupersedeFact, RetractFact, vars
  <2>2. ASSUME NEW id \in DOMAIN snapshot.facts, NEW at \in Cuts,
               at <= snapshot.facts[id].updatedAt
        PROVE  FactVersionAt(snapshot', id, at) = FactVersionAt(snapshot, id, at)
    <3>1. CASE snapshot' = snapshot
      BY <3>1
    <3>2. CASE snapshot' = db
      BY <2>2, <3>2, SettledVersions, ClockAssumption DEF IInv, TypeOK
    <3> QED BY <2>1, <3>1, <3>2
  <2> QED BY <2>2
<1>2. Spec => [][Settled]_vars
  BY <1>1, InvariantHolds, PTL DEF Spec
<1> QED BY <1>2 DEF SettledCutsAreImmutable

(* Nothing is overwritten or deleted: a committed mutation keeps every     *)
(* episode and every revision, and moves a fact only forward, keeping its  *)
(* statement and its lineage (supersedeFactLocked, RetractFact).           *)
THEOREM LifecycleIsForward == Spec => LifecycleMovesForward
<1> DEFINE Forward ==
        /\ \A id \in DOMAIN snapshot.episodes :
              id \in DOMAIN snapshot'.episodes /\ snapshot'.episodes[id] = snapshot.episodes[id]
        /\ \A r \in DOMAIN snapshot.factRevisions :
              r \in DOMAIN snapshot'.factRevisions
                /\ snapshot'.factRevisions[r] = snapshot.factRevisions[r]
        /\ \A id \in DOMAIN snapshot.facts :
              LET f == snapshot.facts[id]
                  g == snapshot'.facts[id]
              IN  /\ id \in DOMAIN snapshot'.facts
                  /\ \/ g = f
                     \/ Rank(g.status) > Rank(f.status) /\ KeepsStatement(f, g)
<1>1. IInv /\ [Next]_vars => [Forward]_vars
  <2> SUFFICES ASSUME IInv, [Next]_vars
               PROVE  Forward
    OBVIOUS
  <2>1. snapshot' = snapshot \/ snapshot' = db
    BY DEF Next, Tick, BeginMutation, Abort, Commit, IngestEpisode, UpsertEntity,
           AssertFact, SupersedeFact, RetractFact, vars
  <2>2. Extends(snapshot, snapshot')
    BY <2>1, ExtendsItself DEF IInv
  <2> QED BY <2>2 DEF Extends, Evolves
<1>2. Spec => [][Forward]_vars
  BY <1>1, InvariantHolds, PTL DEF Spec
<1> QED BY <1>2 DEF LifecycleMovesForward

-----------------------------------------------------------------------------
(* One raw id, one record.                                                 *)

Disjoint(S, T) == S \cap T = {}
UniqueIDs(d) ==
    /\ Disjoint(DOMAIN d.sources, DOMAIN d.episodes)
    /\ Disjoint(DOMAIN d.sources, DOMAIN d.entities)
    /\ Disjoint(DOMAIN d.sources, DOMAIN d.facts)
    /\ Disjoint(DOMAIN d.sources, DOMAIN d.factRevisions)
    /\ Disjoint(DOMAIN d.sources, DOMAIN d.entityRevisions)
    /\ Disjoint(DOMAIN d.episodes, DOMAIN d.entities)
    /\ Disjoint(DOMAIN d.episodes, DOMAIN d.facts)
    /\ Disjoint(DOMAIN d.episodes, DOMAIN d.factRevisions)
    /\ Disjoint(DOMAIN d.episodes, DOMAIN d.entityRevisions)
    /\ Disjoint(DOMAIN d.entities, DOMAIN d.facts)
    /\ Disjoint(DOMAIN d.entities, DOMAIN d.factRevisions)
    /\ Disjoint(DOMAIN d.entities, DOMAIN d.entityRevisions)
    /\ Disjoint(DOMAIN d.facts, DOMAIN d.factRevisions)
    /\ Disjoint(DOMAIN d.facts, DOMAIN d.entityRevisions)
    /\ Disjoint(DOMAIN d.factRevisions, DOMAIN d.entityRevisions)

LEMMA UniqueIDsSuffice == UniqueIDs(db) => GlobalIDsAreUnique
<1> SUFFICES ASSUME UniqueIDs(db)
             PROVE  GlobalIDsAreUnique
  OBVIOUS
<1> DEFINE maps == <<db.sources, db.episodes, db.entities, db.facts,
                     db.factRevisions, db.entityRevisions>>
<1>1. ASSUME NEW i \in 1..6, NEW j \in 1..6, i < j
      PROVE  DOMAIN maps[i] \cap DOMAIN maps[j] = {}
  <2>1. (i = 1 \/ i = 2 \/ i = 3 \/ i = 4 \/ i = 5) /\ (j = 2 \/ j = 3 \/ j = 4 \/ j = 5 \/ j = 6)
    BY <1>1
  <2> QED BY <1>1, <2>1 DEF UniqueIDs, Disjoint
<1>2. ASSUME NEW i \in 1..6, NEW j \in 1..6, i # j
      PROVE  DOMAIN maps[i] \cap DOMAIN maps[j] = {}
  <2> HIDE DEF maps
  <2>1. i < j \/ j < i
    BY <1>2
  <2> QED BY <1>1, <2>1
<1> QED BY <1>2 DEF GlobalIDsAreUnique

(* Recording a fact that exists, or under an id no record has, keeps ids   *)
(* unique.                                                                 *)
LEMMA RecordsKeepsIDsUnique ==
    ASSUME NEW d, IsDB(d), UniqueIDs(d), NEW id, NEW fact, NEW n, NEW e, Records(d, id, fact, n, e),
           id \in DOMAIN d.facts \/ ~IDExists(d, id)
    PROVE  UniqueIDs(e)
<1> DEFINE new == GeneratedID("factrev", n)
           stored == StoreFact(d, id, fact)
<1>1. /\ e.sources = d.sources /\ e.episodes = d.episodes /\ e.entities = d.entities
      /\ e.entityRevisions = d.entityRevisions
      /\ e.facts = Put(d.facts, id, fact)
      /\ e.factRevisions = Put(d.factRevisions, new, FactRevisionOf(id, fact))
      /\ ~IDExists(stored, new)
  BY RecordsFields DEF Records
<1>2. /\ stored.sources = d.sources /\ stored.episodes = d.episodes /\ stored.entities = d.entities
      /\ stored.entityRevisions = d.entityRevisions /\ stored.factRevisions = d.factRevisions
      /\ stored.facts = Put(d.facts, id, fact)
  BY StoreFactFields DEF Records
<1> HIDE DEF new, stored
<1>3. DOMAIN e.facts = DOMAIN d.facts \cup {id} /\ DOMAIN e.factRevisions = DOMAIN d.factRevisions \cup {new}
  BY <1>1 DEF Put
<1>4. /\ new \notin DOMAIN d.sources /\ new \notin DOMAIN d.episodes /\ new \notin DOMAIN d.entities
      /\ new \notin DOMAIN d.entityRevisions /\ new \notin DOMAIN e.facts
  BY <1>1, <1>2 DEF IDExists
<1>5. /\ id \notin DOMAIN d.sources /\ id \notin DOMAIN d.episodes /\ id \notin DOMAIN d.entities
      /\ id \notin DOMAIN d.entityRevisions /\ id \notin DOMAIN d.factRevisions
  BY DEF UniqueIDs, Disjoint, IDExists
<1> QED BY <1>1, <1>3, <1>4, <1>5 DEF UniqueIDs, Disjoint

UniqueInv == UniqueIDs(db) /\ UniqueIDs(snapshot)

LEMMA UniqueInit == Init => UniqueInv
BY DEF Init, UniqueInv, UniqueIDs, Disjoint, EmptyDB

LEMMA UniqueStep == TypeOK /\ UniqueInv /\ [Next]_vars => UniqueInv'
<1> SUFFICES ASSUME TypeOK, UniqueInv, [Next]_vars
             PROVE  UniqueInv'
  OBVIOUS
<1>1. CASE Tick
  BY <1>1 DEF Tick, UniqueInv
<1>2. CASE BeginMutation
  BY <1>2 DEF BeginMutation, UniqueInv
<1>3. CASE Abort
  BY <1>3 DEF Abort, UniqueInv
<1>4. CASE Commit
  BY <1>4 DEF Commit, UniqueInv
<1>5. CASE IngestEpisode
  <2>1. PICK source, id : IngestsEpisode(source, id)
    BY <1>5, IngestEpisodeStep
  <2>2. UniqueIDs(db')
    BY <2>1 DEF IngestsEpisode, AvailableTo, UniqueInv, UniqueIDs, Disjoint
  <2> QED BY <1>5, <2>2 DEF IngestEpisode, UniqueInv
<1>6. CASE UpsertEntity
  <2>1. PICK id, revision : UpsertsEntity(id, revision)
    BY <1>6, UpsertEntityStep
  <2>2. UniqueIDs(db')
    BY <2>1 DEF UpsertsEntity, AvailableTo, IDExists, UniqueInv, UniqueIDs, Disjoint
  <2> QED BY <1>6, <2>2 DEF UpsertEntity, UniqueInv
<1>7. CASE AssertFact
  <2>1. PICK in, s, n : in \in FactInputs /\ AssertsFact(in, s, n)
    BY <1>7, AssertFactStep
  <2> DEFINE d == SetSequence(db, s)
             id == RecordID(in.id, "fact", s)
  <2>2. IsDB(db) /\ s \in Nat /\ ~IDExists(db, id)
    BY <2>1 DEF TypeOK, AssertsFact
  <2>3. /\ IsDB(d) /\ d.sources = db.sources /\ d.episodes = db.episodes /\ d.entities = db.entities
        /\ d.facts = db.facts /\ d.factRevisions = db.factRevisions
        /\ d.entityRevisions = db.entityRevisions
    BY <2>2, SetSequenceFields
  <2> HIDE DEF d, id
  <2>4. UniqueIDs(d) /\ ~IDExists(d, id)
    BY <2>2, <2>3 DEF UniqueInv, UniqueIDs, IDExists
  <2>5. UniqueIDs(db')
    BY <2>1, <2>3, <2>4, RecordsKeepsIDsUnique DEF AssertsFact, d, id
  <2> QED BY <1>7, <2>5 DEF AssertFact, UniqueInv
<1>8. CASE SupersedeFact
  <2>1. PICK old, in, s, a, b, n1, n2, n3 : SupersedesFact(old, in, s, a, b, n1, n2, n3)
    BY <1>8, SupersedeFactStep
  <2> DEFINE d    == SetSequence(db, s)
             new  == RecordID(in.id, "fact", s)
             fact == NewFact(in, FALSE, txTime')
             gone == Retired(db.facts[old], in, txTime', new)
  <2>2. /\ IsDB(db) /\ s \in Nat /\ ~IDExists(db, new) /\ old \in DOMAIN db.facts
        /\ IsDB(d) /\ IsDB(a) /\ IsDB(b)
    BY <2>1, SupersedesIsDB DEF TypeOK, SupersedesFact
  <2>3. Records(d, new, fact, n1, a) /\ Records(a, old, gone, n2, b)
        /\ Records(b, new, Succeeding(fact, old), n3, db')
    BY <2>1 DEF SupersedesFact
  <2>4. /\ d.sources = db.sources /\ d.episodes = db.episodes /\ d.entities = db.entities
        /\ d.facts = db.facts /\ d.factRevisions = db.factRevisions
        /\ d.entityRevisions = db.entityRevisions
    BY <2>2, SetSequenceFields
  <2> HIDE DEF d, new, fact, gone
  <2>5. UniqueIDs(d) /\ ~IDExists(d, new)
    BY <2>2, <2>4 DEF UniqueInv, UniqueIDs, IDExists
  <2>6. UniqueIDs(a)
    BY <2>2, <2>3, <2>5, RecordsKeepsIDsUnique
  <2>7. a.facts = Put(d.facts, new, fact) /\ b.facts = Put(a.facts, old, gone)
    BY <2>2, <2>3, RecordsFields
  <2>8. old \in DOMAIN a.facts /\ new \in DOMAIN b.facts
    BY <2>2, <2>4, <2>7 DEF Put
  <2>9. UniqueIDs(b)
    BY <2>2, <2>3, <2>6, <2>8, RecordsKeepsIDsUnique
  <2>10. UniqueIDs(db')
    BY <2>2, <2>3, <2>8, <2>9, RecordsKeepsIDsUnique
  <2> QED BY <1>8, <2>10 DEF SupersedeFact, UniqueInv
<1>9. CASE RetractFact
  <2>1. CASE db' = db
    BY <1>9, <2>1 DEF RetractFact, UniqueInv
  <2>2. CASE db' # db
    <3>1. PICK id, n : RetractsFact(id, n)
      BY <1>9, <2>2, RetractFactStep
    <3>2. UniqueIDs(db')
      BY <3>1, RecordsKeepsIDsUnique DEF RetractsFact, UniqueInv, TypeOK
    <3> QED BY <1>9, <3>2 DEF RetractFact, UniqueInv
  <2> QED BY <2>1, <2>2
<1>10. CASE UNCHANGED vars
  BY <1>10 DEF vars, UniqueInv
<1> QED BY <1>1, <1>2, <1>3, <1>4, <1>5, <1>6, <1>7, <1>8, <1>9, <1>10 DEF Next

(* One raw id never names two records, of any kinds, whichever ids callers *)
(* choose (newIDLocked, ensureGlobalIDAvailableLocked).                    *)
THEOREM IDsAreUnique == Spec => []GlobalIDsAreUnique
<1>1. Spec => []UniqueInv
  BY TypeCorrect, UniqueInit, UniqueStep, PTL DEF Spec
<1>2. UniqueInv => GlobalIDsAreUnique
  BY UniqueIDsSuffice DEF UniqueInv
<1> QED BY <1>1, <1>2, PTL

-----------------------------------------------------------------------------
(* The links between the live facts.                                       *)

Lineage(facts) ==
    \A id \in DOMAIN facts :
        /\ facts[id].supersededBy # None =>
             /\ facts[id].status # "active"
             /\ facts[id].supersededBy \in DOMAIN facts
             /\ facts[facts[id].supersededBy].supersedes = id
             /\ facts[facts[id].supersededBy].createdAt > facts[id].createdAt
             /\ SameSlot(facts[facts[id].supersededBy], facts[id])
        /\ facts[id].supersedes # None =>
             /\ facts[id].supersedes \in DOMAIN facts
             /\ facts[facts[id].supersedes].supersededBy = id
        /\ facts[id].status = "superseded" => facts[id].supersededBy # None
        /\ ValidInterval(facts[id].validFrom, facts[id].validTo)

(* What a transition keeps of a fact's place in its chain.                 *)
KeepsPlace(f, g) ==
    /\ g.supersedes = f.supersedes
    /\ g.createdAt = f.createdAt
    /\ g.space = f.space /\ g.subject = f.subject /\ g.predicate = f.predicate

LEMMA AssertionKeepsLineage ==
    ASSUME NEW facts, Lineage(facts), NEW id, id \notin DOMAIN facts,
           NEW fact, fact.status = "active", fact.supersedes = None, fact.supersededBy = None,
           ValidInterval(fact.validFrom, fact.validTo)
    PROVE  Lineage(Put(facts, id, fact))
<1> DEFINE g == Put(facts, id, fact)
<1>1. DOMAIN g = DOMAIN facts \cup {id} /\ g[id] = fact /\ \A x \in DOMAIN facts : g[x] = facts[x]
  BY DEF Put
<1> HIDE DEF g
<1> SUFFICES Lineage(g)
  BY DEF g
<1> QED BY <1>1 DEF Lineage

LEMMA RetractionKeepsLineage ==
    ASSUME NEW facts, Lineage(facts), NEW id \in DOMAIN facts,
           NEW gone, KeepsPlace(facts[id], gone), gone.status = "retracted",
           gone.supersededBy = facts[id].supersededBy,
           gone.validFrom = facts[id].validFrom, gone.validTo = facts[id].validTo
    PROVE  Lineage(Put(facts, id, gone))
<1> DEFINE g == Put(facts, id, gone)
<1>1. DOMAIN g = DOMAIN facts /\ g[id] = gone /\ \A x \in DOMAIN facts \ {id} : g[x] = facts[x]
  BY DEF Put
<1> HIDE DEF g
<1> SUFFICES Lineage(g)
  BY DEF g
<1>2. \A x \in DOMAIN facts : KeepsPlace(facts[x], g[x]) /\ g[x].supersededBy = facts[x].supersededBy
  BY <1>1 DEF KeepsPlace
<1>3. \A x \in DOMAIN facts : g[x].validFrom = facts[x].validFrom /\ g[x].validTo = facts[x].validTo
  BY <1>1
<1>4. \A x \in DOMAIN facts : g[x].status = facts[x].status \/ g[x].status = "retracted"
  BY <1>1
<1> QED BY <1>1, <1>2, <1>3, <1>4 DEF Lineage, KeepsPlace, SameSlot

LEMMA SupersessionKeepsLineage ==
    ASSUME NEW facts, Lineage(facts), None \notin DOMAIN facts, NEW old \in DOMAIN facts,
           facts[old].status = "active", facts[old].supersededBy = None,
           NEW new, new \notin DOMAIN facts, new # None,
           NEW fact, NEW gone, NEW link,
           KeepsPlace(facts[old], gone), gone.status = "superseded", gone.supersededBy = new,
           ValidInterval(gone.validFrom, gone.validTo),
           link.status = "active", link.supersedes = old, link.supersededBy = None,
           link.createdAt > facts[old].createdAt, SameSlot(link, facts[old]),
           ValidInterval(link.validFrom, link.validTo)
    PROVE  Lineage(Put(Put(Put(facts, new, fact), old, gone), new, link))
<1> DEFINE g == Put(Put(Put(facts, new, fact), old, gone), new, link)
<1>1. /\ DOMAIN g = DOMAIN facts \cup {new} /\ g[new] = link /\ g[old] = gone /\ old # new
      /\ \A x \in DOMAIN facts \ {old} : g[x] = facts[x]
  BY DEF Put
<1> HIDE DEF g
<1> SUFFICES ASSUME NEW id \in DOMAIN g
             PROVE  /\ g[id].supersededBy # None =>
                         /\ g[id].status # "active"
                         /\ g[id].supersededBy \in DOMAIN g
                         /\ g[g[id].supersededBy].supersedes = id
                         /\ g[g[id].supersededBy].createdAt > g[id].createdAt
                         /\ SameSlot(g[g[id].supersededBy], g[id])
                    /\ g[id].supersedes # None =>
                         /\ g[id].supersedes \in DOMAIN g
                         /\ g[g[id].supersedes].supersededBy = id
                    /\ g[id].status = "superseded" => g[id].supersededBy # None
                    /\ ValidInterval(g[id].validFrom, g[id].validTo)
  BY DEF Lineage, g
<1>2. CASE id = new
  BY <1>1, <1>2
<1>3. CASE id = old
  <2>1. g[id].supersededBy = new /\ g[new].createdAt > g[id].createdAt /\ SameSlot(g[new], g[id])
    BY <1>1, <1>3 DEF KeepsPlace, SameSlot
  <2>2. facts[old].supersedes # None =>
            /\ facts[old].supersedes \in DOMAIN facts
            /\ facts[facts[old].supersedes].supersededBy = old
    BY DEF Lineage
  <2>3. facts[old].supersedes # None => facts[old].supersedes # old
    BY <2>2
  <2> QED BY <1>1, <1>3, <2>1, <2>2, <2>3 DEF KeepsPlace
<1>4. CASE id # new /\ id # old
  <2>1. id \in DOMAIN facts /\ g[id] = facts[id]
    BY <1>1, <1>4
  <2>2. \A x \in DOMAIN facts : KeepsPlace(facts[x], g[x])
    BY <1>1 DEF KeepsPlace
  <2>3. facts[id].supersedes # old
    <3>1. facts[id].supersedes # None => facts[facts[id].supersedes].supersededBy = id
      BY <2>1 DEF Lineage
    <3>2. id # None /\ old # None
      BY <2>1
    <3> QED BY <3>1, <3>2
  <2>4. /\ facts[id].supersededBy # None =>
             /\ facts[id].status # "active"
             /\ facts[id].supersededBy \in DOMAIN facts
             /\ facts[facts[id].supersededBy].supersedes = id
             /\ facts[facts[id].supersededBy].createdAt > facts[id].createdAt
             /\ SameSlot(facts[facts[id].supersededBy], facts[id])
        /\ facts[id].supersedes # None =>
             /\ facts[id].supersedes \in DOMAIN facts
             /\ facts[facts[id].supersedes].supersededBy = id
        /\ facts[id].status = "superseded" => facts[id].supersededBy # None
        /\ ValidInterval(facts[id].validFrom, facts[id].validTo)
    BY <2>1 DEF Lineage
  <2>5. g[id].supersededBy # None =>
             /\ g[id].status # "active"
             /\ g[id].supersededBy \in DOMAIN g
             /\ g[g[id].supersededBy].supersedes = id
             /\ g[g[id].supersededBy].createdAt > g[id].createdAt
             /\ SameSlot(g[g[id].supersededBy], g[id])
    BY <1>1, <2>1, <2>2, <2>4 DEF KeepsPlace, SameSlot
  <2>6. g[id].supersedes # None =>
             /\ g[id].supersedes \in DOMAIN g
             /\ g[g[id].supersedes].supersededBy = id
    BY <1>1, <2>1, <2>3, <2>4
  <2> QED BY <2>1, <2>4, <2>5, <2>6
<1> QED BY <1>2, <1>3, <1>4

-----------------------------------------------------------------------------
(* What the revisions say of the links.                                    *)

(* Every revision of a fact carries its creation instant and knows its     *)
(* successor exactly from the successor's creation on; and a revision was  *)
(* written at each of these two instants.                                  *)
SupersessionIsLogged(d) ==
    /\ \A r \in DOMAIN d.factRevisions :
        LET revision == d.factRevisions[r]
            f == d.facts[revision.fact]
        IN  /\ revision.record.createdAt = f.createdAt
            /\ f.createdAt <= revision.txTime
            /\ f.supersededBy = None => revision.record.supersededBy = None
            /\ f.supersededBy # None =>
                 (revision.record.supersededBy = f.supersededBy
                    <=> d.facts[f.supersededBy].createdAt <= revision.txTime)
    /\ \A id \in DOMAIN d.facts :
        /\ \E r \in DOMAIN d.factRevisions :
             d.factRevisions[r].fact = id /\ d.factRevisions[r].txTime = d.facts[id].createdAt
        /\ d.facts[id].supersededBy # None =>
             /\ d.facts[id].supersededBy \in DOMAIN d.facts
             /\ \E r \in DOMAIN d.factRevisions :
                  /\ d.factRevisions[r].fact = id
                  /\ d.factRevisions[r].txTime = d.facts[d.facts[id].supersededBy].createdAt

(* Where a cut sees a version of a fact, one of them comes last.           *)
IsLast(v, versions) == v \in versions /\ \A w \in versions \ {v} : ComesAfter(v, w)
EveryCutHasALast(d) ==
    \A id \in DOMAIN d.facts : \A at \in Nat :
        FactVersions(d, id, at) # {} => \E v \in FactVersions(d, id, at) : IsLast(v, FactVersions(d, id, at))

(* A fact recorded for the first time, or by a transition that leaves its  *)
(* successor alone, or names one created at this very instant.             *)
Succeeds(d, id, fact) ==
    \/ /\ id \notin DOMAIN d.facts
       /\ fact.supersededBy = None
       /\ fact.createdAt = fact.updatedAt
    \/ /\ id \in DOMAIN d.facts
       /\ fact.createdAt = d.facts[id].createdAt
       /\ d.facts[id].updatedAt <= fact.updatedAt
       /\ fact.supersededBy = d.facts[id].supersededBy
    \/ /\ id \in DOMAIN d.facts
       /\ fact.createdAt = d.facts[id].createdAt
       /\ d.facts[id].updatedAt < fact.updatedAt
       /\ d.facts[id].supersededBy = None
       /\ fact.supersededBy \in DOMAIN d.facts \ {id}
       /\ d.facts[fact.supersededBy].createdAt = fact.updatedAt

(* What a recording does to the two maps it writes.                        *)
LEMMA RecordsMaps ==
    ASSUME NEW d, IsDB(d), RevisionsAreGrounded(d),
           NEW id, NEW fact, NEW n, NEW e, Records(d, id, fact, n, e)
    PROVE  LET new == GeneratedID("factrev", n)
           IN  /\ new \notin DOMAIN d.factRevisions
               /\ DOMAIN e.factRevisions = DOMAIN d.factRevisions \cup {new}
               /\ e.factRevisions[new] = [fact |-> id, txTime |-> fact.updatedAt, record |-> fact]
               /\ \A r \in DOMAIN d.factRevisions : e.factRevisions[r] = d.factRevisions[r]
               /\ DOMAIN e.facts = DOMAIN d.facts \cup {id}
               /\ e.facts[id] = fact
               /\ \A x \in DOMAIN d.facts \ {id} : e.facts[x] = d.facts[x]
               /\ id \in ID /\ fact \in Fact /\ fact.updatedAt \in Nat /\ fact.createdAt \in Nat
<1>1. /\ n \in Nat /\ n > d.sequence
      /\ e.facts = Put(d.facts, id, fact)
      /\ e.factRevisions = Put(d.factRevisions, GeneratedID("factrev", n), FactRevisionOf(id, fact))
      /\ id \in ID /\ fact \in Fact
  BY RecordsFields DEF Records
<1>2. GeneratedID("factrev", n) \notin DOMAIN d.factRevisions
  BY <1>1, RevisionIDIsNew
<1>3. fact.updatedAt \in Nat /\ fact.createdAt \in Nat
  BY <1>1 DEF Fact
<1> QED BY <1>1, <1>2, <1>3 DEF Put, FactRevisionOf

(* The stamps a revision and its fact carry.                               *)
LEMMA StampTypes ==
    ASSUME NEW d, IsDB(d), RevisionsAreGrounded(d)
    PROVE  /\ \A x \in DOMAIN d.facts :
                /\ d.facts[x] \in Fact /\ x \in ID
                /\ d.facts[x].createdAt \in Nat /\ d.facts[x].updatedAt \in Nat
           /\ \A r \in DOMAIN d.factRevisions :
                /\ d.factRevisions[r].txTime \in Nat
                /\ d.factRevisions[r].record \in Fact
                /\ d.factRevisions[r].fact \in DOMAIN d.facts
                /\ d.factRevisions[r].txTime <= d.facts[d.factRevisions[r].fact].updatedAt
BY DEF IsDB, IsMap, Fact, FactRevision, RevisionsAreGrounded

LEMMA RecordsKeepsSupersessionLogged ==
    ASSUME NEW d, IsDB(d), RevisionsAreGrounded(d), SupersessionIsLogged(d),
           NEW id, NEW fact, NEW n, NEW e, Records(d, id, fact, n, e), Succeeds(d, id, fact)
    PROVE  SupersessionIsLogged(e)
<1> DEFINE new == GeneratedID("factrev", n)
<1>1. /\ new \notin DOMAIN d.factRevisions
      /\ DOMAIN e.factRevisions = DOMAIN d.factRevisions \cup {new}
      /\ e.factRevisions[new] = [fact |-> id, txTime |-> fact.updatedAt, record |-> fact]
      /\ \A r \in DOMAIN d.factRevisions : e.factRevisions[r] = d.factRevisions[r]
      /\ DOMAIN e.facts = DOMAIN d.facts \cup {id}
      /\ e.facts[id] = fact
      /\ \A x \in DOMAIN d.facts \ {id} : e.facts[x] = d.facts[x]
      /\ id \in ID /\ fact \in Fact /\ fact.updatedAt \in Nat /\ fact.createdAt \in Nat
  BY RecordsMaps
<1> HIDE DEF new
<1>2. /\ \A x \in DOMAIN d.facts : d.facts[x].createdAt \in Nat /\ d.facts[x].updatedAt \in Nat
      /\ \A r \in DOMAIN d.factRevisions :
            /\ d.factRevisions[r].txTime \in Nat
            /\ d.factRevisions[r].fact \in DOMAIN d.facts
            /\ d.factRevisions[r].txTime <= d.facts[d.factRevisions[r].fact].updatedAt
  BY StampTypes
<1>3. \A x \in DOMAIN d.facts : e.facts[x].createdAt = d.facts[x].createdAt
  BY <1>1 DEF Succeeds
<1>4. e.factRevisions[new].fact = id /\ e.factRevisions[new].txTime = fact.updatedAt
      /\ e.factRevisions[new].record = fact
  BY <1>1
<1>5. ASSUME NEW x \in DOMAIN d.facts
      PROVE  /\ d.facts[x].supersededBy # None => d.facts[x].supersededBy \in DOMAIN d.facts
             /\ \E r \in DOMAIN d.factRevisions :
                  d.factRevisions[r].fact = x /\ d.factRevisions[r].txTime = d.facts[x].createdAt
             /\ d.facts[x].supersededBy # None =>
                  \E r \in DOMAIN d.factRevisions :
                     /\ d.factRevisions[r].fact = x
                     /\ d.factRevisions[r].txTime = d.facts[d.facts[x].supersededBy].createdAt
  BY DEF SupersessionIsLogged
<1>6. ASSUME NEW r \in DOMAIN d.factRevisions
      PROVE  LET f == d.facts[d.factRevisions[r].fact]
             IN  /\ d.factRevisions[r].record.createdAt = f.createdAt
                 /\ f.createdAt <= d.factRevisions[r].txTime
                 /\ f.supersededBy = None => d.factRevisions[r].record.supersededBy = None
                 /\ f.supersededBy # None =>
                      (d.factRevisions[r].record.supersededBy = f.supersededBy
                         <=> d.facts[f.supersededBy].createdAt <= d.factRevisions[r].txTime)
  BY DEF SupersessionIsLogged
<1>7. fact.createdAt <= fact.updatedAt
  <2>1. CASE id \notin DOMAIN d.facts
    BY <1>1, <2>1 DEF Succeeds
  <2>2. CASE id \in DOMAIN d.facts
    <3>1. PICK r \in DOMAIN d.factRevisions :
            d.factRevisions[r].fact = id /\ d.factRevisions[r].txTime = d.facts[id].createdAt
      BY <1>5, <2>2
    <3>2. d.facts[id].createdAt <= d.facts[id].updatedAt
      BY <1>2, <3>1
    <3>3. fact.createdAt = d.facts[id].createdAt /\ d.facts[id].updatedAt <= fact.updatedAt
      BY <1>1, <1>2, <2>2 DEF Succeeds
    <3> QED BY <1>1, <1>2, <2>2, <3>2, <3>3
  <2> QED BY <2>1, <2>2
(* The successor of the recorded fact, and when it was created.            *)
<1>8. fact.supersededBy # None =>
        /\ fact.supersededBy \in DOMAIN d.facts
        /\ d.facts[fact.supersededBy].createdAt <= fact.updatedAt
        /\ \E r \in DOMAIN e.factRevisions :
             /\ e.factRevisions[r].fact = id
             /\ e.factRevisions[r].txTime = d.facts[fact.supersededBy].createdAt
  <2>1. CASE id \in DOMAIN d.facts /\ fact.supersededBy = d.facts[id].supersededBy
                /\ d.facts[id].updatedAt <= fact.updatedAt /\ fact.supersededBy # None
    <3>1. PICK r \in DOMAIN d.factRevisions :
            /\ d.factRevisions[r].fact = id
            /\ d.factRevisions[r].txTime = d.facts[fact.supersededBy].createdAt
      BY <1>5, <2>1
    <3>2. fact.supersededBy \in DOMAIN d.facts
      BY <1>5, <2>1
    <3>3. d.facts[fact.supersededBy].createdAt <= d.facts[id].updatedAt
      BY <1>2, <3>1
    <3>4. d.facts[fact.supersededBy].createdAt <= fact.updatedAt
      BY <1>1, <1>2, <2>1, <3>2, <3>3
    <3> QED BY <1>1, <3>1, <3>2, <3>4
  <2>2. CASE /\ fact.supersededBy \in DOMAIN d.facts \ {id}
             /\ d.facts[fact.supersededBy].createdAt = fact.updatedAt
    BY <1>1, <1>4, <2>2
  <2> QED BY <2>1, <2>2 DEF Succeeds
<1>9. ASSUME NEW r \in DOMAIN e.factRevisions
      PROVE  LET f == e.facts[e.factRevisions[r].fact]
             IN  /\ e.factRevisions[r].record.createdAt = f.createdAt
                 /\ f.createdAt <= e.factRevisions[r].txTime
                 /\ f.supersededBy = None => e.factRevisions[r].record.supersededBy = None
                 /\ f.supersededBy # None =>
                      (e.factRevisions[r].record.supersededBy = f.supersededBy
                         <=> e.facts[f.supersededBy].createdAt <= e.factRevisions[r].txTime)
  <2>1. CASE r = new
    BY <1>1, <1>3, <1>4, <1>7, <1>8, <2>1
  <2>2. CASE r # new
    <3> DEFINE x == d.factRevisions[r].fact
               t == d.factRevisions[r].txTime
    <3>1. r \in DOMAIN d.factRevisions /\ e.factRevisions[r] = d.factRevisions[r]
      BY <1>1, <2>2
    <3>2. x \in DOMAIN d.facts /\ t \in Nat /\ t <= d.facts[x].updatedAt
      BY <1>2, <3>1
    <3>3. /\ d.factRevisions[r].record.createdAt = d.facts[x].createdAt
          /\ d.facts[x].createdAt <= t
          /\ d.facts[x].supersededBy = None => d.factRevisions[r].record.supersededBy = None
          /\ d.facts[x].supersededBy # None =>
               (d.factRevisions[r].record.supersededBy = d.facts[x].supersededBy
                  <=> d.facts[d.facts[x].supersededBy].createdAt <= t)
      BY <1>6, <3>1
    <3> HIDE DEF x, t
    <3>4. CASE e.facts[x].supersededBy = d.facts[x].supersededBy
      BY <1>3, <1>5, <3>1, <3>2, <3>3, <3>4 DEF x, t
    <3>5. CASE e.facts[x].supersededBy # d.facts[x].supersededBy
      <4>1. x = id
        BY <1>1, <3>2, <3>5
      <4>2. /\ d.facts[id].supersededBy = None
            /\ fact.supersededBy \in DOMAIN d.facts \ {id}
            /\ d.facts[fact.supersededBy].createdAt = fact.updatedAt
            /\ d.facts[id].updatedAt < fact.updatedAt
        BY <1>1, <3>2, <3>5, <4>1 DEF Succeeds
      <4>3. fact.supersededBy \in ID
        BY <4>2 DEF IsDB, IsMap
      <4>4. fact.supersededBy # None
        BY <4>3, InputAssumption
      <4>5. d.factRevisions[r].record.supersededBy = None
        BY <3>3, <4>1, <4>2
      <4>6. e.facts[fact.supersededBy].createdAt = fact.updatedAt
        BY <1>1, <4>2
      <4>7. ~(e.facts[fact.supersededBy].createdAt <= t)
        BY <1>1, <1>2, <3>2, <4>1, <4>2, <4>6
      <4> QED BY <1>1, <1>3, <3>1, <3>2, <3>3, <4>1, <4>4, <4>5, <4>7 DEF x, t
    <3> QED BY <3>4, <3>5
  <2> QED BY <2>1, <2>2
<1>10. ASSUME NEW x \in DOMAIN e.facts
       PROVE  /\ \E r \in DOMAIN e.factRevisions :
                   e.factRevisions[r].fact = x /\ e.factRevisions[r].txTime = e.facts[x].createdAt
              /\ e.facts[x].supersededBy # None =>
                   /\ e.facts[x].supersededBy \in DOMAIN e.facts
                   /\ \E r \in DOMAIN e.factRevisions :
                        /\ e.factRevisions[r].fact = x
                        /\ e.factRevisions[r].txTime = e.facts[e.facts[x].supersededBy].createdAt
  <2>1. CASE x = id
    <3>1. e.facts[x].supersededBy # None =>
            /\ e.facts[x].supersededBy \in DOMAIN e.facts
            /\ \E r \in DOMAIN e.factRevisions :
                 /\ e.factRevisions[r].fact = x
                 /\ e.factRevisions[r].txTime = e.facts[e.facts[x].supersededBy].createdAt
      BY <1>1, <1>3, <1>8, <2>1
    <3>2. CASE id \notin DOMAIN d.facts
      BY <1>1, <1>4, <2>1, <3>1, <3>2 DEF Succeeds
    <3>3. CASE id \in DOMAIN d.facts
      BY <1>1, <1>3, <1>5, <2>1, <3>1, <3>3
    <3> QED BY <3>2, <3>3
  <2>2. CASE x # id
    BY <1>1, <1>3, <1>5, <2>2
  <2> QED BY <2>1, <2>2
<1> QED BY <1>9, <1>10 DEF SupersessionIsLogged

LEMMA RecordsKeepsALast ==
    ASSUME NEW d, IsDB(d), RevisionsAreGrounded(d), EveryCutHasALast(d),
           NEW id, NEW fact, NEW n, NEW e, Records(d, id, fact, n, e), Succeeds(d, id, fact)
    PROVE  EveryCutHasALast(e)
<1> DEFINE new == GeneratedID("factrev", n)
           v == Version(new, e.factRevisions[new])
<1>1. /\ new \notin DOMAIN d.factRevisions
      /\ DOMAIN e.factRevisions = DOMAIN d.factRevisions \cup {new}
      /\ e.factRevisions[new] = [fact |-> id, txTime |-> fact.updatedAt, record |-> fact]
      /\ \A r \in DOMAIN d.factRevisions : e.factRevisions[r] = d.factRevisions[r]
      /\ DOMAIN e.facts = DOMAIN d.facts \cup {id}
      /\ fact.updatedAt \in Nat
  BY RecordsMaps
<1>2. /\ \A x \in DOMAIN d.facts : d.facts[x].updatedAt \in Nat
      /\ \A r \in DOMAIN d.factRevisions :
            /\ d.factRevisions[r].txTime \in Nat
            /\ d.factRevisions[r].fact \in DOMAIN d.facts
            /\ d.factRevisions[r].txTime <= d.facts[d.factRevisions[r].fact].updatedAt
  BY StampTypes
<1>3. v.order = n /\ v.txTime = fact.updatedAt /\ n \in Nat /\ n > d.sequence /\ d.sequence \in Nat
  BY <1>1 DEF Version, RevisionOrder, GeneratedID, Records, IsDB
<1>4. ASSUME NEW y \in DOMAIN d.factRevisions, d.factRevisions[y].fact = id
      PROVE  ComesAfter(v, Version(y, d.factRevisions[y]))
  <2>1. PICK m \in 1..d.sequence : y = GeneratedID("factrev", m)
    BY DEF RevisionsAreGrounded
  <2>2. Version(y, d.factRevisions[y]).order = m /\ m < n /\ m \in Nat
    BY <1>3, <2>1 DEF Version, RevisionOrder, GeneratedID
  <2>3. Version(y, d.factRevisions[y]).txTime = d.factRevisions[y].txTime
    BY DEF Version
  <2>4. d.factRevisions[y].txTime \in Nat /\ d.factRevisions[y].txTime <= fact.updatedAt
    BY <1>1, <1>2, <1>4 DEF Succeeds
  <2> HIDE DEF v
  <2> QED BY <1>1, <1>3, <2>2, <2>3, <2>4 DEF ComesAfter
<1> HIDE DEF new
<1> SUFFICES ASSUME NEW x \in DOMAIN e.facts, NEW at \in Nat, FactVersions(e, x, at) # {}
             PROVE  \E u \in FactVersions(e, x, at) : IsLast(u, FactVersions(e, x, at))
  BY DEF EveryCutHasALast
<1>5. CASE x = id /\ fact.updatedAt <= at
  <2>1. FactVersions(e, x, at) = FactVersions(d, x, at) \cup {v}
    <3>1. {y \in DOMAIN e.factRevisions :
             e.factRevisions[y].fact = x /\ e.factRevisions[y].txTime <= at}
          = {y \in DOMAIN d.factRevisions :
             d.factRevisions[y].fact = x /\ d.factRevisions[y].txTime <= at} \cup {new}
      BY <1>1, <1>5
    <3> QED BY <1>1, <3>1 DEF FactVersions
  <2>2. \A w \in FactVersions(d, x, at) : ComesAfter(v, w)
    BY <1>4, <1>5 DEF FactVersions
  <2> HIDE DEF v
  <2> QED BY <2>1, <2>2 DEF IsLast
<1>6. CASE ~(x = id /\ fact.updatedAt <= at)
  <2>1. FactVersions(e, x, at) = FactVersions(d, x, at)
    <3>1. {y \in DOMAIN e.factRevisions :
             e.factRevisions[y].fact = x /\ e.factRevisions[y].txTime <= at}
          = {y \in DOMAIN d.factRevisions :
             d.factRevisions[y].fact = x /\ d.factRevisions[y].txTime <= at}
      BY <1>1, <1>6
    <3> QED BY <1>1, <3>1 DEF FactVersions
  <2>2. x \in DOMAIN d.facts
    <3>1. PICK r \in DOMAIN d.factRevisions : d.factRevisions[r].fact = x
      BY <2>1 DEF FactVersions
    <3> QED BY <1>2, <3>1
  <2> QED BY <2>1, <2>2 DEF EveryCutHasALast
<1> QED BY <1>5, <1>6

-----------------------------------------------------------------------------
(* The invariant, kept by every operation that writes a fact.              *)

ChainsAreLogged(d) == SupersessionIsLogged(d) /\ EveryCutHasALast(d)
LineageHolds(d) == Lineage(d.facts) /\ ChainsAreLogged(d)
LineageInv == LineageHolds(db) /\ LineageHolds(snapshot)

LEMMA RecordsKeepsChains ==
    ASSUME NEW d, IsDB(d), RevisionsAreGrounded(d), ChainsAreLogged(d),
           NEW id, NEW fact, NEW n, NEW e, Records(d, id, fact, n, e), Succeeds(d, id, fact)
    PROVE  ChainsAreLogged(e)
BY RecordsKeepsSupersessionLogged, RecordsKeepsALast DEF ChainsAreLogged

LEMMA LineageUnderOtherWrites ==
    ASSUME NEW d, NEW e, LineageHolds(d), e.facts = d.facts, e.factRevisions = d.factRevisions
    PROVE  LineageHolds(e)
<1>1. \A id, at : FactVersions(e, id, at) = FactVersions(d, id, at)
  BY DEF FactVersions
<1>2. EveryCutHasALast(e)
  BY <1>1 DEF LineageHolds, ChainsAreLogged, EveryCutHasALast
<1>3. SupersessionIsLogged(e)
  BY DEF LineageHolds, ChainsAreLogged, SupersessionIsLogged
<1> QED BY <1>2, <1>3 DEF LineageHolds, ChainsAreLogged

LEMMA AssertFactKeepsLineage ==
    ASSUME IInv, LineageInv, AssertFact
    PROVE  LineageHolds(db')
<1>1. PICK in, s, n : in \in FactInputs /\ AssertsFact(in, s, n)
  BY AssertFactStep DEF IInv
<1> DEFINE id == RecordID(in.id, "fact", s)
           fact == NewFact(in, in.single, txTime)
           d == SetSequence(db, s)
<1>2. /\ s \in Nat /\ s >= db.sequence /\ ~IDExists(db, id) /\ Records(d, id, fact, n, db')
      /\ ValidInterval(in.validFrom, in.validTo)
  BY <1>1 DEF AssertsFact, FactAccepted
<1>3. /\ fact.status = "active" /\ fact.supersedes = None /\ fact.supersededBy = None
      /\ fact.createdAt = fact.updatedAt
      /\ fact.validFrom = in.validFrom /\ fact.validTo = in.validTo
  BY DEF NewFact
<1>4. IsDB(db)
  BY DEF IInv, TypeOK
<1>5. IsDB(d) /\ d.facts = db.facts /\ d.factRevisions = db.factRevisions
  BY <1>2, <1>4, SetSequenceFields
<1>6. RevisionsAreGrounded(d)
  BY <1>2, <1>4, SetSequenceKeepsHistory DEF IInv
<1>7. LineageHolds(d)
  BY <1>5, LineageUnderOtherWrites DEF LineageInv
<1>8. id \notin DOMAIN d.facts
  BY <1>2, <1>5 DEF IDExists
<1> HIDE DEF id, fact, d
<1>9. Lineage(db'.facts)
  <2>1. db'.facts = Put(d.facts, id, fact)
    BY <1>2, <1>5, RecordsFields
  <2> QED BY <1>2, <1>3, <1>7, <1>8, <2>1, AssertionKeepsLineage DEF LineageHolds
<1>10. ChainsAreLogged(db')
  <2>1. Succeeds(d, id, fact)
    BY <1>3, <1>8 DEF Succeeds
  <2> QED BY <1>2, <1>5, <1>6, <1>7, <2>1, RecordsKeepsChains DEF LineageHolds
<1> QED BY <1>9, <1>10 DEF LineageHolds

LEMMA RetiredFields ==
    ASSUME NEW fact \in Fact, NEW in \in FactInputs, NEW now, NEW successor,
           ValidInterval(fact.validFrom, fact.validTo)
    PROVE  LET gone == Retired(fact, in, now, successor)
           IN  /\ gone.status = "superseded" /\ gone.supersededBy = successor
               /\ gone.updatedAt = now
               /\ KeepsPlace(fact, gone)
               /\ ValidInterval(gone.validFrom, gone.validTo)
BY InputAssumption DEF Retired, Fact, FactInput, KeepsPlace, ValidInterval

LEMMA SupersedeFactKeepsLineage ==
    ASSUME IInv, LineageInv, SupersedeFact
    PROVE  LineageHolds(db')
<1>1. PICK old, in, s, a, b, n1, n2, n3 : SupersedesFact(old, in, s, a, b, n1, n2, n3)
  BY SupersedeFactStep DEF IInv
<1> DEFINE new  == RecordID(in.id, "fact", s)
           now  == txTime'
           fact == NewFact(in, FALSE, now)
           gone == Retired(db.facts[old], in, now, new)
           link == Succeeding(fact, old)
           d    == SetSequence(db, s)
<1>2. /\ s \in Nat /\ s >= db.sequence /\ ~IDExists(db, new) /\ in \in FactInputs
      /\ old \in DOMAIN db.facts /\ db.facts[old].status = "active"
      /\ now = StrictlyAfter(txTime, db.facts[old].updatedAt)
      /\ SameSlot(db.facts[old], in) /\ ValidInterval(in.validFrom, in.validTo)
      /\ Records(d, new, fact, n1, a) /\ Records(a, old, gone, n2, b) /\ Records(b, new, link, n3, db')
  BY <1>1 DEF SupersedesFact, FactAccepted
<1>3. IsDB(db) /\ IsDB(d) /\ IsDB(a) /\ IsDB(b) /\ now \in Nat
  BY <1>1, SupersedesIsDB DEF IInv, TypeOK
<1>4. d.facts = db.facts /\ d.factRevisions = db.factRevisions
  BY <1>2, <1>3, SetSequenceFields
<1>5. /\ db.facts[old] \in Fact /\ db.facts[old].updatedAt \in Nat /\ db.facts[old].createdAt \in Nat
      /\ txTime \in Nat /\ old \in ID /\ new \in ID
  <2>1. new \in ID
    BY <1>2 DEF Records
  <2>2. db.facts[old] \in Fact /\ old \in ID
    BY <1>2, <1>3 DEF IsDB, IsMap
  <2>3. txTime \in Nat
    BY DEF IInv, TypeOK
  <2> QED BY <2>1, <2>2, <2>3 DEF Fact
<1>6. /\ db.facts[old].createdAt <= db.facts[old].updatedAt /\ db.facts[old].supersededBy = None
      /\ ValidInterval(db.facts[old].validFrom, db.facts[old].validTo)
  BY <1>2 DEF IInv, FactsAreLogged, LineageInv, LineageHolds, Lineage
<1>7. now > db.facts[old].updatedAt
  BY <1>2, <1>5, StrictlyAfterFacts
<1>8. /\ fact.supersededBy = None /\ fact.createdAt = now /\ fact.updatedAt = now
  BY DEF NewFact
<1>9. /\ gone.status = "superseded" /\ gone.supersededBy = new /\ gone.updatedAt = now
      /\ KeepsPlace(db.facts[old], gone)
      /\ ValidInterval(gone.validFrom, gone.validTo)
  BY <1>2, <1>5, <1>6, RetiredFields
<1>10. /\ link.status = "active" /\ link.supersedes = old /\ link.supersededBy = None
       /\ link.createdAt = now /\ link.updatedAt = now
       /\ SameSlot(link, db.facts[old])
       /\ ValidInterval(link.validFrom, link.validTo)
  BY <1>2 DEF Succeeding, NewFact, SameSlot
<1>11. old # new /\ new \notin DOMAIN db.facts /\ None \notin DOMAIN db.facts /\ new # None
  BY <1>2, <1>3, <1>5, InputAssumption DEF IDExists, IsDB, IsMap
<1>12. RevisionsAreGrounded(d) /\ LineageHolds(d)
  BY <1>2, <1>3, <1>4, SetSequenceKeepsHistory, LineageUnderOtherWrites DEF IInv, LineageInv
<1> HIDE DEF new, now, fact, gone, link, d
<1>13. /\ a.facts = Put(db.facts, new, fact)
       /\ b.facts = Put(a.facts, old, gone)
       /\ db'.facts = Put(b.facts, new, link)
  BY <1>2, <1>3, <1>4, RecordsFields
<1>14. /\ DOMAIN a.facts = DOMAIN db.facts \cup {new}
       /\ a.facts[old] = db.facts[old] /\ a.facts[new] = fact
       /\ DOMAIN b.facts = DOMAIN a.facts /\ b.facts[new] = fact
  BY <1>2, <1>11, <1>13 DEF Put
<1>15. Lineage(db'.facts)
  <2>1. link.createdAt > db.facts[old].createdAt
    BY <1>3, <1>5, <1>6, <1>7, <1>10
  <2>2. db'.facts = Put(Put(Put(db.facts, new, fact), old, gone), new, link)
    BY <1>13
  <2>3. Lineage(db.facts)
    BY DEF LineageInv, LineageHolds
  <2> QED BY <1>2, <1>6, <1>9, <1>10, <1>11, <2>1, <2>2, <2>3, SupersessionKeepsLineage
<1>16. RevisionsAreGrounded(a) /\ ChainsAreLogged(a)
  <2>1. Succeeds(d, new, fact)
    BY <1>4, <1>8, <1>11 DEF Succeeds
  <2>2. RevisionsAreGrounded(a)
    BY <1>2, <1>3, <1>4, <1>11, <1>12, RecordsKeepsRevisionsGrounded
  <2> QED BY <1>2, <1>3, <1>12, <2>1, <2>2, RecordsKeepsChains DEF LineageHolds
<1>17. RevisionsAreGrounded(b) /\ ChainsAreLogged(b)
  <2>1. Succeeds(a, old, gone)
    BY <1>2, <1>6, <1>7, <1>8, <1>9, <1>11, <1>14 DEF Succeeds, KeepsPlace
  <2>2. a.facts[old].updatedAt <= gone.updatedAt
    BY <1>3, <1>5, <1>7, <1>9, <1>14
  <2>3. RevisionsAreGrounded(b)
    BY <1>2, <1>3, <1>16, <2>2, RecordsKeepsRevisionsGrounded
  <2> QED BY <1>2, <1>3, <1>16, <2>1, <2>3, RecordsKeepsChains
<1>18. ChainsAreLogged(db')
  <2>1. Succeeds(b, new, link)
    BY <1>3, <1>8, <1>10, <1>14 DEF Succeeds
  <2> QED BY <1>2, <1>3, <1>17, <2>1, RecordsKeepsChains
<1> QED BY <1>15, <1>18 DEF LineageHolds

LEMMA RetractFactKeepsLineage ==
    ASSUME IInv, LineageInv, RetractFact
    PROVE  LineageHolds(db')
<1>1. CASE db' = db
  BY <1>1 DEF LineageInv
<1>2. CASE db' # db
  <2>1. PICK id, n : RetractsFact(id, n)
    BY <1>2, RetractFactStep DEF IInv
  <2> DEFINE now  == StrictlyAfter(txTime, db.facts[id].updatedAt)
             gone == Retracted(db.facts[id], now)
  <2>2. id \in DOMAIN db.facts /\ Records(db, id, gone, n, db')
    BY <2>1 DEF RetractsFact
  <2>3. /\ IsDB(db) /\ db.facts[id] \in Fact /\ db.facts[id].updatedAt \in Nat /\ txTime \in Nat
        /\ RevisionsAreGrounded(db) /\ LineageHolds(db)
    BY <2>2 DEF IInv, TypeOK, IsDB, IsMap, Fact, LineageInv
  <2>4. now \in Nat /\ db.facts[id].updatedAt <= now
    <3>1. now \in Nat /\ now > db.facts[id].updatedAt
      BY <2>3, StrictlyAfterFacts
    <3> HIDE DEF now
    <3> QED BY <2>3, <3>1
  <2> HIDE DEF now
  <2>5. /\ KeepsPlace(db.facts[id], gone) /\ gone.status = "retracted" /\ gone.updatedAt = now
        /\ gone.supersededBy = db.facts[id].supersededBy
        /\ gone.validFrom = db.facts[id].validFrom /\ gone.validTo = db.facts[id].validTo
    <3>1. gone = [db.facts[id] EXCEPT !.status = "retracted", !.retractedAt = now, !.updatedAt = now]
      BY DEF Retracted
    <3> HIDE DEF gone
    <3> QED BY <2>3, <3>1 DEF Fact, KeepsPlace
  <2> HIDE DEF gone
  <2>6. Lineage(db'.facts)
    <3>1. db'.facts = Put(db.facts, id, gone)
      BY <2>2, <2>3, RecordsFields
    <3> QED BY <2>2, <2>3, <2>5, <3>1, RetractionKeepsLineage DEF LineageHolds
  <2>7. Succeeds(db, id, gone)
    BY <2>2, <2>4, <2>5 DEF Succeeds, KeepsPlace
  <2>8. ChainsAreLogged(db')
    BY <2>2, <2>3, <2>7, RecordsKeepsChains DEF LineageHolds
  <2> QED BY <2>6, <2>8 DEF LineageHolds
<1> QED BY <1>1, <1>2

LEMMA LineageInit == Init => LineageInv
BY DEF Init, LineageInv, LineageHolds, Lineage, ChainsAreLogged, SupersessionIsLogged,
       EveryCutHasALast, EmptyDB

LEMMA LineageStep == IInv /\ LineageInv /\ [Next]_vars => LineageInv'
<1> SUFFICES ASSUME IInv, LineageInv, [Next]_vars
             PROVE  LineageInv'
  OBVIOUS
<1>1. CASE Tick
  BY <1>1 DEF Tick, LineageInv
<1>2. CASE BeginMutation
  BY <1>2 DEF BeginMutation, LineageInv
<1>3. CASE Abort
  BY <1>3 DEF Abort, LineageInv
<1>4. CASE Commit
  BY <1>4 DEF Commit, LineageInv
<1>5. CASE IngestEpisode
  <2>1. PICK source, id : IngestsEpisode(source, id)
    BY <1>5, IngestEpisodeStep DEF IInv
  <2>2. LineageHolds(db')
    BY <2>1, LineageUnderOtherWrites DEF IngestsEpisode, LineageInv
  <2> QED BY <1>5, <2>2 DEF IngestEpisode, LineageInv
<1>6. CASE UpsertEntity
  <2>1. PICK id, revision : UpsertsEntity(id, revision)
    BY <1>6, UpsertEntityStep DEF IInv
  <2>2. LineageHolds(db')
    BY <2>1, LineageUnderOtherWrites DEF UpsertsEntity, LineageInv
  <2> QED BY <1>6, <2>2 DEF UpsertEntity, LineageInv
<1>7. CASE AssertFact
  BY <1>7, AssertFactKeepsLineage DEF AssertFact, LineageInv
<1>8. CASE SupersedeFact
  BY <1>8, SupersedeFactKeepsLineage DEF SupersedeFact, LineageInv
<1>9. CASE RetractFact
  BY <1>9, RetractFactKeepsLineage DEF RetractFact, LineageInv
<1>10. CASE UNCHANGED vars
  BY <1>10 DEF vars, LineageInv
<1> QED BY <1>1, <1>2, <1>3, <1>4, <1>5, <1>6, <1>7, <1>8, <1>9, <1>10 DEF Next

LEMMA LineageInvariance == Spec => []LineageInv
BY InvariantHolds, LineageInit, LineageStep, PTL DEF Spec

(* Supersession chains are linear and acyclic: links agree in both         *)
(* directions, a successor is younger than its predecessor and of the same *)
(* slot, and a fact has a successor exactly when it left the active state  *)
(* by supersession (supersedeFactLocked).                                  *)
THEOREM ChainsAreLinear == Spec => []LineageIsLinear
<1>1. LineageInv => LineageIsLinear
  BY DEF LineageInv, LineageHolds, Lineage, LineageIsLinear
<1> QED BY <1>1, LineageInvariance, PTL

-----------------------------------------------------------------------------
(* What a cut answers of a supersession.                                   *)

(* A cut from the creation of a fact on answers with one of its revisions, *)
(* the last it sees; an earlier cut answers with nothing.                  *)
LEMMA CutReadsALast ==
    ASSUME NEW d, IsDB(d), RevisionsAreGrounded(d), FactsAreLogged(d), ChainsAreLogged(d),
           NEW id \in DOMAIN d.facts, NEW at \in Nat
    PROVE  /\ at < d.facts[id].createdAt => FactVersionAt(d, id, at) = None
           /\ at >= d.facts[id].createdAt =>
                \E r \in DOMAIN d.factRevisions :
                    /\ d.factRevisions[r].fact = id /\ d.factRevisions[r].txTime <= at
                    /\ FactVersionAt(d, id, at) = d.factRevisions[r].record
                    /\ \A x \in DOMAIN d.factRevisions :
                          d.factRevisions[x].fact = id /\ d.factRevisions[x].txTime <= at
                            => d.factRevisions[x].txTime <= d.factRevisions[r].txTime
<1> DEFINE known == FactVersions(d, id, at)
<1>1. /\ \A x \in DOMAIN d.facts : d.facts[x].createdAt \in Nat /\ d.facts[x].updatedAt \in Nat
      /\ \A r \in DOMAIN d.factRevisions : d.factRevisions[r].txTime \in Nat
  BY StampTypes
<1>2. \A r \in DOMAIN d.factRevisions : d.factRevisions[r].fact = id =>
        /\ d.factRevisions[r].record.createdAt = d.facts[id].createdAt
        /\ d.facts[id].createdAt <= d.factRevisions[r].txTime
  BY DEF ChainsAreLogged, SupersessionIsLogged
<1>3. CASE at < d.facts[id].createdAt
  <2>1. ASSUME NEW r \in DOMAIN d.factRevisions, d.factRevisions[r].fact = id,
               d.factRevisions[r].txTime <= at
        PROVE  FALSE
    BY <1>1, <1>2, <1>3, <2>1
  <2>2. known = {}
    BY <2>1 DEF FactVersions
  <2>3. d.facts[id].updatedAt > at
    BY <1>1, <1>3 DEF FactsAreLogged
  <2>4. FactVersionAt(d, id, at) = None
    BY <2>2, <2>3 DEF FactVersionAt
  <2> QED BY <1>1, <1>3, <2>4
<1>4. CASE at >= d.facts[id].createdAt
  <2>1. PICK first \in DOMAIN d.factRevisions :
          d.factRevisions[first].fact = id /\ d.factRevisions[first].txTime = d.facts[id].createdAt
    BY DEF ChainsAreLogged, SupersessionIsLogged
  <2>2. Version(first, d.factRevisions[first]) \in known
    BY <1>4, <2>1 DEF FactVersions
  <2>3. PICK v \in known : IsLast(v, known)
    BY <2>2 DEF ChainsAreLogged, EveryCutHasALast
  <2>4. PICK r \in DOMAIN d.factRevisions :
          /\ v = Version(r, d.factRevisions[r])
          /\ d.factRevisions[r].fact = id /\ d.factRevisions[r].txTime <= at
    BY DEF FactVersions
  <2>5. \A w \in known : \E x \in DOMAIN d.factRevisions : w = Version(x, d.factRevisions[x])
    BY DEF FactVersions
  <2>6. \A w \in known : w.order \in Nat /\ w.txTime \in Nat
    BY <2>5, VersionTypes
  <2>7. v.txTime = d.factRevisions[r].txTime /\ v.record = d.factRevisions[r].record
    BY <2>4 DEF Version
  <2>8. ASSUME NEW x \in DOMAIN d.factRevisions, d.factRevisions[x].fact = id,
               d.factRevisions[x].txTime <= at
        PROVE  d.factRevisions[x].txTime <= d.factRevisions[r].txTime
    <3>1. Version(x, d.factRevisions[x]) \in known
      BY <2>8 DEF FactVersions
    <3>2. Version(x, d.factRevisions[x]).txTime = d.factRevisions[x].txTime
      BY DEF Version
    <3>3. CASE Version(x, d.factRevisions[x]) = v
      BY <1>1, <2>7, <3>2, <3>3
    <3>4. CASE Version(x, d.factRevisions[x]) # v
      <4>1. ComesAfter(v, Version(x, d.factRevisions[x]))
        BY <2>3, <3>1, <3>4 DEF IsLast
      <4> QED BY <1>1, <2>7, <3>2, <4>1 DEF ComesAfter
    <3> QED BY <3>3, <3>4
  <2> HIDE DEF known
  <2>9. Latest(known) = v
    BY <2>3, <2>6, LatestIsUnique DEF IsLast
  <2>10. ~(v.record.createdAt > at)
    BY <1>1, <1>2, <1>4, <2>4, <2>7
  <2>11. FactVersionAt(d, id, at) = d.factRevisions[r].record
    BY <2>2, <2>7, <2>9, <2>10 DEF FactVersionAt, known
  <2> QED BY <1>1, <1>4, <2>4, <2>8, <2>11
<1> QED BY <1>1, <1>3, <1>4

(* A supersession is one event at every cut: the successor can be read     *)
(* exactly where the old fact reads as superseded, because the two share   *)
(* one transaction time (supersedeFactLocked).                             *)
THEOREM SupersessionIsOneEvent == Spec => []SupersessionIsAtomicAtEveryCut
<1>1. IInv /\ LineageInv => SupersessionIsAtomicAtEveryCut
  <2> SUFFICES ASSUME IInv, LineageInv, NEW id \in DOMAIN db.facts, NEW at \in Cuts,
                      db.facts[id].supersededBy # None, FactVersionAt(db, id, at) # None
               PROVE  FactVersionAt(db, id, at).supersededBy = db.facts[id].supersededBy
                        <=> FactVersionAt(db, db.facts[id].supersededBy, at) # None
    BY DEF SupersessionIsAtomicAtEveryCut
  <2> DEFINE next == db.facts[id].supersededBy
  <2>1. /\ IsDB(db) /\ RevisionsAreGrounded(db) /\ FactsAreLogged(db) /\ ChainsAreLogged(db)
        /\ at \in Nat
    BY ClockAssumption DEF IInv, TypeOK, LineageInv, LineageHolds
  <2>2. /\ next \in DOMAIN db.facts
        /\ \E r \in DOMAIN db.factRevisions :
             db.factRevisions[r].fact = id /\ db.factRevisions[r].txTime = db.facts[next].createdAt
        /\ \A r \in DOMAIN db.factRevisions : db.factRevisions[r].fact = id =>
             (db.factRevisions[r].record.supersededBy = next
                <=> db.facts[next].createdAt <= db.factRevisions[r].txTime)
    BY <2>1 DEF ChainsAreLogged, SupersessionIsLogged
  <2> HIDE DEF next
  <2>3. /\ db.facts[id].createdAt \in Nat /\ db.facts[next].createdAt \in Nat
        /\ \A r \in DOMAIN db.factRevisions :
             db.factRevisions[r].txTime \in Nat /\ db.factRevisions[r].record \in Fact
    BY <2>1, <2>2, StampTypes
  <2>4. at >= db.facts[id].createdAt
    BY <2>1, <2>3, CutReadsALast
  <2>5. PICK r \in DOMAIN db.factRevisions :
          /\ db.factRevisions[r].fact = id /\ db.factRevisions[r].txTime <= at
          /\ FactVersionAt(db, id, at) = db.factRevisions[r].record
          /\ \A x \in DOMAIN db.factRevisions :
                db.factRevisions[x].fact = id /\ db.factRevisions[x].txTime <= at
                  => db.factRevisions[x].txTime <= db.factRevisions[r].txTime
    BY <2>1, <2>4, CutReadsALast
  <2>6. FactVersionAt(db, id, at).supersededBy = next <=> db.facts[next].createdAt <= at
    <3>1. db.facts[next].createdAt <= db.factRevisions[r].txTime => db.facts[next].createdAt <= at
      BY <2>1, <2>3, <2>5
    <3>2. db.facts[next].createdAt <= at => db.facts[next].createdAt <= db.factRevisions[r].txTime
      BY <2>1, <2>2, <2>3, <2>5
    <3> QED BY <2>2, <2>5, <3>1, <3>2
  <2>7. FactVersionAt(db, next, at) # None <=> db.facts[next].createdAt <= at
    <3>1. CASE at < db.facts[next].createdAt
      <4>1. FactVersionAt(db, next, at) = None
        BY <2>1, <2>2, <3>1, CutReadsALast
      <4> QED BY <2>1, <2>3, <3>1, <4>1
    <3>2. CASE at >= db.facts[next].createdAt
      <4>1. PICK x \in DOMAIN db.factRevisions : FactVersionAt(db, next, at) = db.factRevisions[x].record
        BY <2>1, <2>2, <3>2, CutReadsALast
      <4>2. FactVersionAt(db, next, at) # None
        BY <2>3, <4>1, RecordAssumption
      <4> QED BY <2>1, <2>3, <3>2, <4>2
    <3> QED BY <2>1, <2>3, <3>1, <3>2
  <2> QED BY <2>6, <2>7 DEF next
<1> QED BY <1>1, InvariantHolds, LineageInvariance, PTL

-----------------------------------------------------------------------------
(* What each operation on facts records, one write at a time.              *)

(* A fact seen for the first time, stamped now.                            *)
Introduces(d, id, fact, now) ==
    /\ id \notin DOMAIN d.facts
    /\ fact.status = "active" /\ fact.createdAt = now /\ fact.updatedAt = now
    /\ FactAccepted(d, fact, fact.single)

(* A later version of a fact that exists: the statement stands, and either *)
(* the fact leaves the active state later than it was last stamped, or     *)
(* only its lineage is written.                                            *)
Restates(d, id, fact) ==
    /\ id \in DOMAIN d.facts
    /\ fact.space = d.facts[id].space /\ fact.predicate = d.facts[id].predicate
    /\ fact.subject = d.facts[id].subject /\ fact.object = d.facts[id].object
    /\ fact.support = d.facts[id].support /\ fact.single = d.facts[id].single
    /\ fact.createdAt = d.facts[id].createdAt
    /\ \/ fact.status # "active" /\ d.facts[id].updatedAt < fact.updatedAt
       \/ /\ fact.status = "active" /\ d.facts[id].status = "active"
          /\ fact.updatedAt = d.facts[id].updatedAt
          /\ fact.validFrom = d.facts[id].validFrom /\ fact.validTo = d.facts[id].validTo

AssertsOne(now, d, id, fact, n) ==
    /\ IsDB(d) /\ RevisionsAreGrounded(d) /\ FactsAreLogged(d)
    /\ \E s \in Nat : s >= db.sequence /\ d = SetSequence(db, s)
    /\ Records(d, id, fact, n, db')
    /\ Introduces(d, id, fact, now)

LEMMA AssertFactWrites ==
    ASSUME IInv, AssertFact
    PROVE  \E d, id, fact, n : AssertsOne(txTime, d, id, fact, n)
<1>1. PICK in, s, n : in \in FactInputs /\ AssertsFact(in, s, n)
  BY AssertFactStep DEF IInv
<1> DEFINE id == RecordID(in.id, "fact", s)
           fact == NewFact(in, in.single, txTime)
           d == SetSequence(db, s)
<1>2. /\ s \in Nat /\ s >= db.sequence /\ ~IDExists(db, id) /\ Records(d, id, fact, n, db')
      /\ FactAccepted(db, in, in.single)
  BY <1>1 DEF AssertsFact
<1>3. /\ fact.space = in.space /\ fact.predicate = in.predicate
      /\ fact.subject = in.subject /\ fact.object = in.object /\ fact.support = in.support
      /\ fact.single = in.single /\ fact.validFrom = in.validFrom /\ fact.validTo = in.validTo
      /\ fact.status = "active" /\ fact.createdAt = txTime /\ fact.updatedAt = txTime
  BY DEF NewFact
<1>4. IsDB(db)
  BY DEF IInv, TypeOK
<1>5. IsDB(d) /\ d.facts = db.facts /\ d.episodes = db.episodes /\ d.entities = db.entities
  BY <1>2, <1>4, SetSequenceFields
<1>6. RevisionsAreGrounded(d) /\ FactsAreLogged(d)
  BY <1>2, <1>4, SetSequenceKeepsHistory DEF IInv
<1>7. \E t \in Nat : t >= db.sequence /\ d = SetSequence(db, t)
  BY <1>2
<1> HIDE DEF id, fact, d
<1>8. FactAccepted(d, fact, fact.single)
  BY <1>2, <1>3, <1>5 DEF FactAccepted, EndpointKnown, SlotOccupants, SameSlot
<1>9. Introduces(d, id, fact, txTime)
  BY <1>2, <1>3, <1>5, <1>8 DEF Introduces, IDExists
<1> QED BY <1>2, <1>5, <1>6, <1>7, <1>9 DEF AssertsOne

SupersedesOne(now, d, new, fact, n1, a, old, gone, n2, b, link, n3) ==
    /\ IsDB(d) /\ RevisionsAreGrounded(d)
    /\ IsDB(a) /\ RevisionsAreGrounded(a)
    /\ IsDB(b) /\ RevisionsAreGrounded(b)
    /\ \E s \in Nat : s >= db.sequence /\ d = SetSequence(db, s)
    /\ Records(d, new, fact, n1, a) /\ Introduces(d, new, fact, now) /\ fact.single = FALSE
    /\ Records(a, old, gone, n2, b) /\ Restates(a, old, gone)
    /\ Records(b, new, link, n3, db') /\ Restates(b, new, link)
    /\ old \in DOMAIN db.facts
    /\ now = StrictlyAfter(txTime, db.facts[old].updatedAt)
    /\ gone.updatedAt = now /\ link.updatedAt = now

LEMMA SupersedeFactWrites ==
    ASSUME IInv, SupersedeFact
    PROVE  \E d, new, fact, n1, a, old, gone, n2, b, link, n3 :
              SupersedesOne(txTime', d, new, fact, n1, a, old, gone, n2, b, link, n3)
<1>1. PICK old, in, s, a, b, n1, n2, n3 : SupersedesFact(old, in, s, a, b, n1, n2, n3)
  BY SupersedeFactStep DEF IInv
<1> DEFINE new  == RecordID(in.id, "fact", s)
           now  == txTime'
           fact == NewFact(in, FALSE, now)
           gone == Retired(db.facts[old], in, now, new)
           link == Succeeding(fact, old)
           d    == SetSequence(db, s)
<1>2. /\ s \in Nat /\ s >= db.sequence /\ ~IDExists(db, new) /\ in \in FactInputs
      /\ old \in DOMAIN db.facts
      /\ now = StrictlyAfter(txTime, db.facts[old].updatedAt)
      /\ FactAccepted(db, in, FALSE)
      /\ Records(d, new, fact, n1, a) /\ Records(a, old, gone, n2, b) /\ Records(b, new, link, n3, db')
  BY <1>1 DEF SupersedesFact
<1>3. IsDB(db) /\ IsDB(d) /\ IsDB(a) /\ IsDB(b) /\ now \in Nat
  BY <1>1, SupersedesIsDB DEF IInv, TypeOK
<1>4. d.facts = db.facts /\ d.episodes = db.episodes /\ d.entities = db.entities
  BY <1>2, <1>3, SetSequenceFields
<1>5. db.facts[old] \in Fact /\ db.facts[old].updatedAt \in Nat /\ txTime \in Nat
  <2>1. db.facts[old] \in Fact
    BY <1>2, <1>3 DEF IsDB, IsMap
  <2> QED BY <2>1 DEF IInv, TypeOK, Fact
<1>6. now > db.facts[old].updatedAt
  BY <1>2, <1>5, StrictlyAfterFacts
<1>7. /\ fact.space = in.space /\ fact.predicate = in.predicate
      /\ fact.subject = in.subject /\ fact.object = in.object /\ fact.support = in.support
      /\ fact.single = FALSE /\ fact.validFrom = in.validFrom /\ fact.validTo = in.validTo
      /\ fact.status = "active" /\ fact.createdAt = now /\ fact.updatedAt = now
  BY DEF NewFact
<1>8. /\ gone.status = "superseded" /\ gone.updatedAt = now
      /\ gone.space = db.facts[old].space /\ gone.predicate = db.facts[old].predicate
      /\ gone.subject = db.facts[old].subject /\ gone.object = db.facts[old].object
      /\ gone.support = db.facts[old].support /\ gone.single = db.facts[old].single
      /\ gone.createdAt = db.facts[old].createdAt
  BY <1>5 DEF Retired, Fact
<1>9. /\ link.status = "active" /\ link.updatedAt = now
      /\ link.space = fact.space /\ link.predicate = fact.predicate
      /\ link.subject = fact.subject /\ link.object = fact.object
      /\ link.support = fact.support /\ link.single = fact.single
      /\ link.validFrom = fact.validFrom /\ link.validTo = fact.validTo
      /\ link.createdAt = fact.createdAt
  BY DEF Succeeding, NewFact
<1>10. \E t \in Nat : t >= db.sequence /\ d = SetSequence(db, t)
  BY <1>2
<1>11. old # new /\ new \notin DOMAIN db.facts
  BY <1>2 DEF IDExists
<1>12. RevisionsAreGrounded(d)
  BY <1>2, <1>3, SetSequenceKeepsHistory DEF IInv
<1> HIDE DEF new, now, fact, gone, link, d
<1>13. a.facts = Put(db.facts, new, fact) /\ b.facts = Put(a.facts, old, gone)
  BY <1>2, <1>3, <1>4, RecordsFields
<1>14. /\ old \in DOMAIN a.facts /\ a.facts[old] = db.facts[old]
       /\ new \in DOMAIN b.facts /\ b.facts[new] = fact
  BY <1>2, <1>11, <1>13 DEF Put
<1>15. RevisionsAreGrounded(a)
  BY <1>2, <1>3, <1>4, <1>11, <1>12, RecordsKeepsRevisionsGrounded
<1>16. RevisionsAreGrounded(b)
  <2>1. a.facts[old].updatedAt <= gone.updatedAt
    BY <1>3, <1>5, <1>6, <1>8, <1>14
  <2> QED BY <1>2, <1>3, <1>15, <2>1, RecordsKeepsRevisionsGrounded
<1>17. Introduces(d, new, fact, now)
  <2>1. FactAccepted(d, fact, fact.single)
    BY <1>2, <1>4, <1>7 DEF FactAccepted, EndpointKnown
  <2> QED BY <1>4, <1>7, <1>11, <2>1 DEF Introduces
<1>18. Restates(a, old, gone)
  BY <1>5, <1>6, <1>8, <1>14 DEF Restates
<1>19. Restates(b, new, link)
  BY <1>7, <1>9, <1>14 DEF Restates
<1>20. SupersedesOne(now, d, new, fact, n1, a, old, gone, n2, b, link, n3)
  BY <1>2, <1>3, <1>7, <1>8, <1>9, <1>10, <1>12, <1>15, <1>16, <1>17, <1>18, <1>19 DEF SupersedesOne
<1> QED BY <1>20 DEF now

RetractsOne(id, fact, n) ==
    /\ IsDB(db) /\ RevisionsAreGrounded(db)
    /\ Records(db, id, fact, n, db') /\ Restates(db, id, fact)
    /\ fact.updatedAt = StrictlyAfter(txTime, db.facts[id].updatedAt)

LEMMA RetractFactWrites ==
    ASSUME IInv, RetractFact
    PROVE  db' = db \/ \E id, fact, n : RetractsOne(id, fact, n)
<1>1. CASE db' = db
  BY <1>1
<1>2. CASE db' # db
  <2>1. PICK id, n : RetractsFact(id, n)
    BY <1>2, RetractFactStep DEF IInv
  <2> DEFINE now  == StrictlyAfter(txTime, db.facts[id].updatedAt)
             gone == Retracted(db.facts[id], now)
  <2>2. id \in DOMAIN db.facts /\ Records(db, id, gone, n, db')
    BY <2>1 DEF RetractsFact
  <2>3. /\ IsDB(db) /\ db.facts[id] \in Fact /\ db.facts[id].updatedAt \in Nat /\ txTime \in Nat
        /\ RevisionsAreGrounded(db)
    BY <2>2 DEF IInv, TypeOK, IsDB, IsMap, Fact
  <2>4. now \in Nat /\ now > db.facts[id].updatedAt
    BY <2>3, StrictlyAfterFacts
  <2> HIDE DEF now
  <2>5. gone = [db.facts[id] EXCEPT !.status = "retracted", !.retractedAt = now, !.updatedAt = now]
    BY DEF Retracted
  <2> HIDE DEF gone
  <2>6. Restates(db, id, gone) /\ gone.updatedAt = now
    BY <2>2, <2>3, <2>4, <2>5 DEF Fact, Restates
  <2> QED BY <2>2, <2>3, <2>6 DEF RetractsOne, now
<1> QED BY <1>1, <1>2

-----------------------------------------------------------------------------
(* The clock, and what a mutation may find stamped.                        *)

StampedBy(d, t) ==
    /\ \A x \in DOMAIN d.sources : d.sources[x].createdAt <= t
    /\ \A x \in DOMAIN d.episodes : d.episodes[x].ingestedAt <= t
    /\ \A x \in DOMAIN d.entities : d.entities[x].updatedAt <= t

Writing == phase \in {"episodes", "entities", "facts", "lifecycle"}

ClockInv ==
    /\ StampedBy(db, clock) /\ StampedBy(snapshot, clock)
    /\ Writing => txTime <= clock /\ StampedBy(db, txTime)

(* The stamps are numbers.                                                 *)
LEMMA OtherStamps ==
    ASSUME NEW d, IsDB(d)
    PROVE  /\ \A x \in DOMAIN d.sources : d.sources[x].createdAt \in Nat
           /\ \A x \in DOMAIN d.episodes : d.episodes[x].ingestedAt \in Nat
           /\ \A x \in DOMAIN d.entities :
                d.entities[x].updatedAt \in Nat /\ d.entities[x].createdAt \in Nat
BY DEF IsDB, IsMap, Source, Episode, Entity

LEMMA StampedLater ==
    ASSUME NEW d, IsDB(d), NEW t \in Nat, NEW u \in Nat, t <= u, StampedBy(d, t)
    PROVE  StampedBy(d, u)
BY OtherStamps DEF StampedBy

LEMMA FactWritesKeepStamps ==
    ASSUME NEW d, IsDB(d), NEW id, NEW fact, NEW n, NEW e, Records(d, id, fact, n, e)
    PROVE  e.sources = d.sources /\ e.episodes = d.episodes /\ e.entities = d.entities
           /\ e.entityRevisions = d.entityRevisions /\ IsDB(e)
BY RecordsFields

(* No operation on facts writes another map.                               *)
OthersKept ==
    /\ db'.sources = db.sources /\ db'.episodes = db.episodes /\ db'.entities = db.entities
    /\ db'.entityRevisions = db.entityRevisions /\ db'.sequence >= db.sequence

LEMMA FactOperationsKeepOthers ==
    ASSUME IInv, AssertFact \/ SupersedeFact \/ RetractFact
    PROVE  OthersKept
<1>0. IsDB(db) /\ db.sequence \in Nat
  BY DEF IInv, TypeOK, IsDB
<1>1. ASSUME NEW s \in Nat, s >= db.sequence, NEW d, d = SetSequence(db, s)
      PROVE  /\ IsDB(d) /\ d.sequence = s
             /\ d.sources = db.sources /\ d.episodes = db.episodes /\ d.entities = db.entities
             /\ d.entityRevisions = db.entityRevisions
  BY <1>0, <1>1, SetSequenceFields
<1>2. ASSUME NEW d, IsDB(d), NEW id, NEW fact, NEW n, NEW e, Records(d, id, fact, n, e)
      PROVE  /\ IsDB(e) /\ e.sequence \in Nat /\ e.sequence >= d.sequence
             /\ e.sources = d.sources /\ e.episodes = d.episodes /\ e.entities = d.entities
             /\ e.entityRevisions = d.entityRevisions
  <2>1. e.sequence = n /\ n \in Nat /\ n > d.sequence /\ d.sequence \in Nat
    BY <1>2, RecordsFields DEF Records, IsDB
  <2> QED BY <1>2, <2>1, FactWritesKeepStamps
<1>3. CASE AssertFact
  <2>1. PICK d, id, fact, n : AssertsOne(txTime, d, id, fact, n)
    BY <1>3, AssertFactWrites
  <2>2. PICK s \in Nat : s >= db.sequence /\ d = SetSequence(db, s)
    BY <2>1 DEF AssertsOne
  <2> QED BY <1>0, <1>1, <1>2, <2>1, <2>2 DEF AssertsOne, OthersKept
<1>4. CASE SupersedeFact
  <2>1. PICK d, new, fact, n1, a, old, gone, n2, b, link, n3 :
           SupersedesOne(txTime', d, new, fact, n1, a, old, gone, n2, b, link, n3)
    BY <1>4, SupersedeFactWrites
  <2>2. PICK s \in Nat : s >= db.sequence /\ d = SetSequence(db, s)
    BY <2>1 DEF SupersedesOne
  <2>3. /\ IsDB(d) /\ d.sequence = s
        /\ d.sources = db.sources /\ d.episodes = db.episodes /\ d.entities = db.entities
        /\ d.entityRevisions = db.entityRevisions
    BY <1>1, <2>2
  <2>4. /\ IsDB(a) /\ a.sequence \in Nat /\ a.sequence >= d.sequence
        /\ a.sources = d.sources /\ a.episodes = d.episodes /\ a.entities = d.entities
        /\ a.entityRevisions = d.entityRevisions
    BY <1>2, <2>1, <2>3 DEF SupersedesOne
  <2>5. /\ IsDB(b) /\ b.sequence \in Nat /\ b.sequence >= a.sequence
        /\ b.sources = a.sources /\ b.episodes = a.episodes /\ b.entities = a.entities
        /\ b.entityRevisions = a.entityRevisions
    BY <1>2, <2>1, <2>4 DEF SupersedesOne
  <2>6. /\ IsDB(db') /\ db'.sequence \in Nat /\ db'.sequence >= b.sequence
        /\ db'.sources = b.sources /\ db'.episodes = b.episodes /\ db'.entities = b.entities
        /\ db'.entityRevisions = b.entityRevisions
    BY <1>2, <2>1, <2>5 DEF SupersedesOne
  <2> QED BY <1>0, <2>2, <2>3, <2>4, <2>5, <2>6 DEF OthersKept
<1>5. CASE RetractFact
  <2>1. CASE db' = db
    BY <1>0, <2>1 DEF OthersKept
  <2>2. CASE db' # db
    <3>1. PICK id, fact, n : RetractsOne(id, fact, n)
      BY <1>5, <2>2, RetractFactWrites
    <3> QED BY <1>0, <1>2, <3>1 DEF RetractsOne, OthersKept
  <2> QED BY <2>1, <2>2
<1> QED BY <1>3, <1>4, <1>5

LEMMA ClockInit == Init => ClockInv
BY DEF Init, ClockInv, StampedBy, EmptyDB, Writing

LEMMA ClockStep ==
    ASSUME ClockMode # "stepping", IInv, ClockInv, [Next]_vars
    PROVE  ClockInv'
<1>0. /\ IsDB(db) /\ IsDB(snapshot) /\ clock \in Nat /\ txTime \in Nat
  BY DEF IInv, TypeOK
<1>1. CASE Tick
  <2>1. clock' \in Nat /\ clock <= clock'
    BY <1>0, <1>1, ClockAssumption DEF Tick
  <2>2. StampedBy(db, clock') /\ StampedBy(snapshot, clock')
    BY <1>0, <2>1, StampedLater DEF ClockInv
  <2>3. Writing => txTime <= clock'
    BY <1>0, <2>1 DEF ClockInv
  <2> QED BY <1>1, <2>2, <2>3 DEF Tick, ClockInv, Writing
<1>2. CASE BeginMutation
  <2>1. db = snapshot
    BY <1>2 DEF BeginMutation, IInv
  <2> QED BY <1>0, <1>2, <2>1 DEF BeginMutation, ClockInv, Writing
<1>3. CASE Abort
  BY <1>3 DEF Abort, ClockInv, Writing
<1>4. CASE Commit
  BY <1>4 DEF Commit, ClockInv, Writing
<1>5. CASE IngestEpisode
  <2>1. PICK source, id : IngestsEpisode(source, id)
    BY <1>5, IngestEpisodeStep DEF IInv
  <2>2. StampedBy(db, txTime) /\ txTime <= clock
    BY <1>5 DEF IngestEpisode, ClockInv, Writing
  <2>3. StampedBy(db', txTime)
    BY <1>0, <2>1, <2>2 DEF IngestsEpisode, StampedBy
  <2>4. StampedBy(db', clock)
    BY <1>0, <2>1, <2>2, <2>3, StampedLater DEF IngestsEpisode
  <2> QED BY <1>5, <2>2, <2>3, <2>4 DEF IngestEpisode, ClockInv, Writing
<1>6. CASE UpsertEntity
  <2>1. PICK id, revision : UpsertsEntity(id, revision)
    BY <1>6, UpsertEntityStep DEF IInv
  <2>2. StampedBy(db, txTime) /\ txTime <= clock
    BY <1>6 DEF UpsertEntity, ClockInv, Writing
  <2>3. StampedBy(db', txTime)
    BY <1>0, <2>1, <2>2 DEF UpsertsEntity, StampedBy, Put
  <2>4. StampedBy(db', clock)
    BY <1>0, <2>1, <2>2, <2>3, StampedLater DEF UpsertsEntity
  <2> QED BY <1>6, <2>2, <2>3, <2>4 DEF UpsertEntity, ClockInv, Writing
<1>7. CASE AssertFact \/ SupersedeFact \/ RetractFact
  <2>1. OthersKept
    BY <1>7, FactOperationsKeepOthers
  <2>2. /\ UNCHANGED <<clock, snapshot>>
        /\ Writing' => txTime' = txTime /\ Writing
    BY <1>7 DEF AssertFact, SupersedeFact, RetractFact, Writing
  <2>3. StampedBy(db, clock) => StampedBy(db', clock)
    BY <2>1 DEF OthersKept, StampedBy
  <2>4. StampedBy(db, txTime) => StampedBy(db', txTime)
    BY <2>1 DEF OthersKept, StampedBy
  <2> QED BY <2>2, <2>3, <2>4 DEF ClockInv
<1>8. CASE UNCHANGED vars
  BY <1>8 DEF vars, ClockInv, Writing
<1> QED BY <1>1, <1>2, <1>3, <1>4, <1>5, <1>6, <1>7, <1>8 DEF Next

-----------------------------------------------------------------------------
(* The revisions of entities.                                              *)

IsLatestEntityRevision(d, id, r) ==
    /\ r \in DOMAIN d.entityRevisions
    /\ d.entityRevisions[r] = EntityRevisionOf(id, d.entities[id])
    /\ \A x \in DOMAIN d.entityRevisions \ {r} :
          d.entityRevisions[x].entity = id
            => ComesAfter(Version(r, d.entityRevisions[r]), Version(x, d.entityRevisions[x]))

EntitiesAreLogged(d) ==
    /\ \A r \in DOMAIN d.entityRevisions :
        /\ \E n \in 1..d.sequence : r = GeneratedID("entityrev", n)
        /\ d.entityRevisions[r].entity \in DOMAIN d.entities
        /\ d.entityRevisions[r].txTime <= d.entities[d.entityRevisions[r].entity].updatedAt
        /\ d.entityRevisions[r].record.space = d.entities[d.entityRevisions[r].entity].space
    /\ \A id \in DOMAIN d.entities :
        /\ \E r \in DOMAIN d.entityRevisions :
             d.entityRevisions[r].entity = id /\ d.entityRevisions[r].txTime = d.entities[id].createdAt
        /\ \E r : IsLatestEntityRevision(d, id, r)
    /\ \A id \in DOMAIN d.entities : \A at \in Nat :
        EntityVersions(d, id, at) # {}
            => \E v \in EntityVersions(d, id, at) : IsLast(v, EntityVersions(d, id, at))

LEMMA EntitiesUnderOtherWrites ==
    ASSUME NEW d, NEW e, d.sequence \in Nat, e.sequence \in Nat, EntitiesAreLogged(d),
           e.entities = d.entities, e.entityRevisions = d.entityRevisions, e.sequence >= d.sequence
    PROVE  EntitiesAreLogged(e)
<1>1. \A m \in 1..d.sequence : m \in 1..e.sequence
  OBVIOUS
<1>2. \A id, at : EntityVersions(e, id, at) = EntityVersions(d, id, at)
  BY DEF EntityVersions
<1>3. \A id, r : IsLatestEntityRevision(d, id, r) => IsLatestEntityRevision(e, id, r)
  BY DEF IsLatestEntityRevision
<1>4. \A r \in DOMAIN e.entityRevisions : \E n \in 1..e.sequence : r = GeneratedID("entityrev", n)
  BY <1>1 DEF EntitiesAreLogged
<1>5. \A id \in DOMAIN e.entities : \A at \in Nat :
        EntityVersions(e, id, at) # {}
            => \E v \in EntityVersions(e, id, at) : IsLast(v, EntityVersions(e, id, at))
  BY <1>2 DEF EntitiesAreLogged
<1> QED BY <1>3, <1>4, <1>5 DEF EntitiesAreLogged

LEMMA UpsertKeepsEntitiesLogged ==
    ASSUME IsDB(db), txTime \in Nat, EntitiesAreLogged(db), StampedBy(db, txTime),
           NEW id, NEW new, UpsertsEntity(id, new)
    PROVE  EntitiesAreLogged(db')
<1> DEFINE e == db'
           entity == e.entities[id]
           v == Version(new, e.entityRevisions[new])
<1>1. /\ IsDB(e) /\ e.sequence \in Nat /\ db.sequence \in Nat /\ e.sequence > db.sequence
      /\ new = GeneratedID("entityrev", e.sequence) /\ new \notin DOMAIN db.entityRevisions
      /\ entity.updatedAt = txTime
      /\ entity.createdAt = IF id \in DOMAIN db.entities THEN db.entities[id].createdAt ELSE txTime
      /\ id \in DOMAIN db.entities => entity.space = db.entities[id].space
  BY DEF UpsertsEntity, IDExists, IsDB
<1>2. /\ DOMAIN e.entities = DOMAIN db.entities \cup {id}
      /\ \A x \in DOMAIN db.entities \ {id} : e.entities[x] = db.entities[x]
      /\ DOMAIN e.entityRevisions = DOMAIN db.entityRevisions \cup {new}
      /\ e.entityRevisions[new] = [entity |-> id, txTime |-> entity.updatedAt, record |-> entity]
      /\ \A r \in DOMAIN db.entityRevisions : e.entityRevisions[r] = db.entityRevisions[r]
  <2>1. e.entities = Put(db.entities, id, entity)
    BY DEF UpsertsEntity
  <2>2. e.entityRevisions = Put(db.entityRevisions, new, EntityRevisionOf(id, entity))
    BY DEF UpsertsEntity
  <2> HIDE DEF e, entity
  <2> QED BY <1>1, <2>1, <2>2 DEF Put, EntityRevisionOf
<1>3. /\ \A x \in DOMAIN db.entities : db.entities[x].updatedAt \in Nat /\ db.entities[x].updatedAt <= txTime
      /\ \A r \in DOMAIN db.entityRevisions :
            /\ db.entityRevisions[r].txTime \in Nat
            /\ db.entityRevisions[r].entity \in DOMAIN db.entities
            /\ db.entityRevisions[r].txTime <= db.entities[db.entityRevisions[r].entity].updatedAt
            /\ db.entityRevisions[r].record.space = db.entities[db.entityRevisions[r].entity].space
            /\ \E n \in 1..db.sequence : r = GeneratedID("entityrev", n)
  BY OtherStamps DEF EntitiesAreLogged, StampedBy, IsDB, IsMap, EntityRevision
<1> HIDE DEF e, entity
<1>4. ASSUME NEW r \in DOMAIN e.entityRevisions
      PROVE  /\ \E n \in 1..e.sequence : r = GeneratedID("entityrev", n)
             /\ e.entityRevisions[r].entity \in DOMAIN e.entities
             /\ e.entityRevisions[r].txTime <= e.entities[e.entityRevisions[r].entity].updatedAt
             /\ e.entityRevisions[r].record.space = e.entities[e.entityRevisions[r].entity].space
  <2>1. CASE r = new
    <3>1. e.sequence \in 1..e.sequence
      BY <1>1
    <3> QED BY <1>1, <1>2, <2>1, <3>1 DEF entity
  <2>2. CASE r # new
    <3>1. r \in DOMAIN db.entityRevisions /\ e.entityRevisions[r] = db.entityRevisions[r]
      BY <1>2, <2>2
    <3>2. \E n \in 1..e.sequence : r = GeneratedID("entityrev", n)
      <4>1. PICK n \in 1..db.sequence : r = GeneratedID("entityrev", n)
        BY <1>3, <3>1
      <4>2. n \in 1..e.sequence
        BY <1>1
      <4> QED BY <4>1, <4>2
    <3>3. CASE db.entityRevisions[r].entity = id
      BY <1>1, <1>2, <1>3, <3>1, <3>2, <3>3 DEF entity
    <3>4. CASE db.entityRevisions[r].entity # id
      BY <1>2, <1>3, <3>1, <3>2, <3>4
    <3> QED BY <3>3, <3>4
  <2> QED BY <2>1, <2>2
<1>5. v.order = e.sequence /\ v.txTime = txTime
  BY <1>1, <1>2 DEF Version, RevisionOrder, GeneratedID
<1>6. ASSUME NEW y \in DOMAIN db.entityRevisions, db.entityRevisions[y].entity = id
      PROVE  ComesAfter(v, Version(y, e.entityRevisions[y]))
  <2>1. PICK m \in 1..db.sequence : y = GeneratedID("entityrev", m)
    BY <1>3
  <2>2. Version(y, e.entityRevisions[y]).order = m /\ m < e.sequence /\ m \in Nat
    BY <1>1, <2>1 DEF Version, RevisionOrder, GeneratedID
  <2>3. Version(y, e.entityRevisions[y]).txTime = db.entityRevisions[y].txTime
    BY <1>2 DEF Version
  <2>4. db.entityRevisions[y].txTime \in Nat /\ db.entityRevisions[y].txTime <= txTime
    BY <1>3, <1>6
  <2> HIDE DEF v
  <2> QED BY <1>1, <1>5, <2>2, <2>3, <2>4 DEF ComesAfter
<1>7. ASSUME NEW x \in DOMAIN e.entities
      PROVE  /\ \E r \in DOMAIN e.entityRevisions :
                  e.entityRevisions[r].entity = x /\ e.entityRevisions[r].txTime = e.entities[x].createdAt
             /\ \E r : IsLatestEntityRevision(e, x, r)
  <2>1. CASE x = id
    <3>1. IsLatestEntityRevision(e, x, new)
      BY <1>1, <1>2, <1>6, <2>1 DEF IsLatestEntityRevision, EntityRevisionOf, entity
    <3>2. CASE id \notin DOMAIN db.entities
      BY <1>1, <1>2, <2>1, <3>1, <3>2 DEF entity
    <3>3. CASE id \in DOMAIN db.entities
      <4>1. PICK r \in DOMAIN db.entityRevisions :
              db.entityRevisions[r].entity = id /\ db.entityRevisions[r].txTime = db.entities[id].createdAt
        BY <3>3 DEF EntitiesAreLogged
      <4> QED BY <1>1, <1>2, <2>1, <3>1, <3>3, <4>1 DEF entity
    <3> QED BY <3>2, <3>3
  <2>2. CASE x # id
    <3>1. x \in DOMAIN db.entities /\ e.entities[x] = db.entities[x]
      BY <1>2, <2>2
    <3>2. PICK r : IsLatestEntityRevision(db, x, r)
      BY <3>1 DEF EntitiesAreLogged
    <3>3. e.entityRevisions[new].entity # x
      BY <1>2, <2>2
    <3>4. IsLatestEntityRevision(e, x, r)
      BY <1>1, <1>2, <3>1, <3>2, <3>3 DEF IsLatestEntityRevision
    <3>5. PICK first \in DOMAIN db.entityRevisions :
            db.entityRevisions[first].entity = x /\ db.entityRevisions[first].txTime = db.entities[x].createdAt
      BY <3>1 DEF EntitiesAreLogged
    <3> QED BY <1>2, <3>1, <3>4, <3>5
  <2> QED BY <2>1, <2>2
<1>8. ASSUME NEW x \in DOMAIN e.entities, NEW at \in Nat, EntityVersions(e, x, at) # {}
      PROVE  \E u \in EntityVersions(e, x, at) : IsLast(u, EntityVersions(e, x, at))
  <2>1. CASE x = id /\ txTime <= at
    <3>1. EntityVersions(e, x, at)
            = {Version(y, e.entityRevisions[y]) :
                  y \in {z \in DOMAIN db.entityRevisions :
                           db.entityRevisions[z].entity = x /\ db.entityRevisions[z].txTime <= at}}
              \cup {v}
      <4>1. {y \in DOMAIN e.entityRevisions :
               e.entityRevisions[y].entity = x /\ e.entityRevisions[y].txTime <= at}
            = {y \in DOMAIN db.entityRevisions :
               db.entityRevisions[y].entity = x /\ db.entityRevisions[y].txTime <= at} \cup {new}
        BY <1>1, <1>2, <2>1
      <4> QED BY <4>1 DEF EntityVersions
    <3>2. \A w \in EntityVersions(e, x, at) \ {v} : ComesAfter(v, w)
      BY <1>6, <2>1, <3>1
    <3> HIDE DEF v
    <3> QED BY <3>1, <3>2 DEF IsLast
  <2>2. CASE ~(x = id /\ txTime <= at)
    <3>1. EntityVersions(e, x, at) = EntityVersions(db, x, at)
      <4>1. {y \in DOMAIN e.entityRevisions :
               e.entityRevisions[y].entity = x /\ e.entityRevisions[y].txTime <= at}
            = {y \in DOMAIN db.entityRevisions :
               db.entityRevisions[y].entity = x /\ db.entityRevisions[y].txTime <= at}
        BY <1>1, <1>2, <2>2
      <4> QED BY <1>2, <4>1 DEF EntityVersions
    <3>2. x \in DOMAIN db.entities
      <4>1. PICK r \in DOMAIN db.entityRevisions : db.entityRevisions[r].entity = x
        BY <1>8, <3>1 DEF EntityVersions
      <4> QED BY <1>3, <4>1
    <3> QED BY <1>8, <3>1, <3>2 DEF EntitiesAreLogged
  <2> QED BY <2>1, <2>2
<1>9. EntitiesAreLogged(e)
  BY <1>4, <1>7, <1>8 DEF EntitiesAreLogged
<1> QED BY <1>9 DEF e

-----------------------------------------------------------------------------
(* Provenance.                                                             *)

EpisodesAreGrounded(d) ==
    \A ep \in DOMAIN d.episodes :
        /\ d.episodes[ep].source \in DOMAIN d.sources
        /\ d.sources[d.episodes[ep].source].space = d.episodes[ep].space
        /\ d.sources[d.episodes[ep].source].createdAt <= d.episodes[ep].ingestedAt

(* What a fact refers to was there when the fact was created.              *)
Grounded(d, f) ==
    /\ \A e \in {f.subject, f.object} \ {None} :
          /\ e \in DOMAIN d.entities
          /\ d.entities[e].space = f.space
          /\ d.entities[e].createdAt <= f.createdAt
    /\ f.support # {}
    /\ \A ep \in f.support :
          /\ ep \in DOMAIN d.episodes
          /\ d.episodes[ep].space = f.space
          /\ d.episodes[ep].ingestedAt <= f.createdAt

SameStatement(f, g) ==
    /\ f.space = g.space /\ f.predicate = g.predicate /\ f.subject = g.subject
    /\ f.object = g.object /\ f.support = g.support /\ f.createdAt = g.createdAt

StatementsAreLogged(d) ==
    \A r \in DOMAIN d.factRevisions :
        SameStatement(d.factRevisions[r].record, d.facts[d.factRevisions[r].fact])

FactsAreGrounded(d) ==
    /\ \A id \in DOMAIN d.facts : Grounded(d, d.facts[id])
    /\ StatementsAreLogged(d)

CausalHolds(d) == EntitiesAreLogged(d) /\ EpisodesAreGrounded(d) /\ FactsAreGrounded(d)
CausalInv == CausalHolds(db) /\ CausalHolds(snapshot)

LEMMA EpisodesUnderOtherWrites ==
    ASSUME NEW d, NEW e, EpisodesAreGrounded(d), e.sources = d.sources, e.episodes = d.episodes
    PROVE  EpisodesAreGrounded(e)
BY DEF EpisodesAreGrounded

(* An accepted fact refers to records that are there, and no younger than  *)
(* the instant every record is stamped by.                                 *)
LEMMA AcceptedIsGrounded ==
    ASSUME NEW d, IsDB(d), NEW t \in Nat, StampedBy(d, t), EntitiesAreLogged(d),
           NEW fact, FactAccepted(d, fact, fact.single), fact.createdAt \in Nat, t <= fact.createdAt
    PROVE  Grounded(d, fact)
<1>1. ASSUME NEW e \in {fact.subject, fact.object} \ {None}
      PROVE  /\ e \in DOMAIN d.entities
             /\ d.entities[e].space = fact.space
             /\ d.entities[e].createdAt <= fact.createdAt
  <2>1. e \in DOMAIN d.entities /\ d.entities[e].space = fact.space
    BY DEF FactAccepted, EndpointKnown
  <2>2. PICK r \in DOMAIN d.entityRevisions :
          d.entityRevisions[r].entity = e /\ d.entityRevisions[r].txTime = d.entities[e].createdAt
    BY <2>1 DEF EntitiesAreLogged
  <2>3. d.entities[e].createdAt <= d.entities[e].updatedAt
    BY <2>2 DEF EntitiesAreLogged
  <2>4. d.entities[e].updatedAt <= t
    BY <2>1 DEF StampedBy
  <2> QED BY <2>1, <2>3, <2>4, OtherStamps
<1>2. ASSUME NEW ep \in fact.support
      PROVE  /\ ep \in DOMAIN d.episodes
             /\ d.episodes[ep].space = fact.space
             /\ d.episodes[ep].ingestedAt <= fact.createdAt
  <2>1. ep \in DOMAIN d.episodes /\ d.episodes[ep].space = fact.space
    BY DEF FactAccepted
  <2> QED BY <2>1, OtherStamps DEF StampedBy
<1>3. fact.support # {}
  BY DEF FactAccepted
<1> QED BY <1>1, <1>2, <1>3 DEF Grounded

(* The operations on facts.                                                *)
LEMMA RecordsKeepsGrounded ==
    ASSUME NEW d, IsDB(d), RevisionsAreGrounded(d), FactsAreGrounded(d),
           NEW id, NEW fact, NEW n, NEW e, Records(d, id, fact, n, e),
           \/ id \notin DOMAIN d.facts /\ Grounded(d, fact)
           \/ Restates(d, id, fact)
    PROVE  FactsAreGrounded(e)
<1> DEFINE new == GeneratedID("factrev", n)
<1>1. /\ new \notin DOMAIN d.factRevisions
      /\ DOMAIN e.factRevisions = DOMAIN d.factRevisions \cup {new}
      /\ e.factRevisions[new] = [fact |-> id, txTime |-> fact.updatedAt, record |-> fact]
      /\ \A r \in DOMAIN d.factRevisions : e.factRevisions[r] = d.factRevisions[r]
      /\ DOMAIN e.facts = DOMAIN d.facts \cup {id}
      /\ e.facts[id] = fact
      /\ \A x \in DOMAIN d.facts \ {id} : e.facts[x] = d.facts[x]
  BY RecordsMaps
<1> HIDE DEF new
<1>2. e.episodes = d.episodes /\ e.entities = d.entities
  BY FactWritesKeepStamps
<1>3. \A r \in DOMAIN d.factRevisions : d.factRevisions[r].fact \in DOMAIN d.facts
  BY DEF RevisionsAreGrounded
<1>4. id \in DOMAIN d.facts => SameStatement(d.facts[id], fact)
  BY DEF Restates, SameStatement
<1>5. \A x \in DOMAIN e.facts : Grounded(d, e.facts[x])
  <2>1. ASSUME id \in DOMAIN d.facts
        PROVE  Grounded(d, fact)
    <3>1. Grounded(d, d.facts[id])
      BY <2>1 DEF FactsAreGrounded
    <3> QED BY <1>4, <2>1, <3>1 DEF Grounded, SameStatement
  <2>2. id \notin DOMAIN d.facts => Grounded(d, fact)
    BY DEF Restates
  <2> QED BY <1>1, <2>1, <2>2 DEF FactsAreGrounded
<1>6. \A x \in DOMAIN e.facts : Grounded(e, e.facts[x])
  BY <1>2, <1>5 DEF Grounded
<1>7. StatementsAreLogged(e)
  <2> SUFFICES ASSUME NEW r \in DOMAIN e.factRevisions
               PROVE  SameStatement(e.factRevisions[r].record, e.facts[e.factRevisions[r].fact])
    BY DEF StatementsAreLogged
  <2>1. CASE r = new
    BY <1>1, <2>1 DEF SameStatement
  <2>2. CASE r # new
    <3>1. r \in DOMAIN d.factRevisions /\ e.factRevisions[r] = d.factRevisions[r]
      BY <1>1, <2>2
    <3>2. SameStatement(d.factRevisions[r].record, d.facts[d.factRevisions[r].fact])
      BY <3>1 DEF FactsAreGrounded, StatementsAreLogged
    <3> QED BY <1>1, <1>3, <1>4, <3>1, <3>2 DEF SameStatement
  <2> QED BY <2>1, <2>2
<1> QED BY <1>6, <1>7 DEF FactsAreGrounded

LEMMA FactsUnderOtherWrites ==
    ASSUME NEW d, NEW e, FactsAreGrounded(d), e.facts = d.facts, e.factRevisions = d.factRevisions,
           e.entities = d.entities,
           \A ep \in DOMAIN d.episodes : ep \in DOMAIN e.episodes /\ e.episodes[ep] = d.episodes[ep]
    PROVE  FactsAreGrounded(e)
<1>1. \A f : Grounded(d, f) => Grounded(e, f)
  BY DEF Grounded
<1> QED BY <1>1 DEF FactsAreGrounded, StatementsAreLogged

LEMMA AssertFactKeepsCausal ==
    ASSUME IInv, ClockInv, CausalInv, AssertFact
    PROVE  CausalHolds(db')
<1>1. PICK d, id, fact, n : AssertsOne(txTime, d, id, fact, n)
  BY AssertFactWrites
<1>2. PICK s \in Nat : s >= db.sequence /\ d = SetSequence(db, s)
  BY <1>1 DEF AssertsOne
<1>3. /\ IsDB(db) /\ IsDB(d) /\ RevisionsAreGrounded(d) /\ Records(d, id, fact, n, db')
      /\ Introduces(d, id, fact, txTime) /\ txTime \in Nat /\ db'.sequence \in Nat
      /\ db.sequence \in Nat /\ d.sequence = s
  <2>1. IsDB(db) /\ txTime \in Nat
    BY DEF IInv, TypeOK
  <2>2. /\ IsDB(d) /\ RevisionsAreGrounded(d) /\ Records(d, id, fact, n, db')
        /\ Introduces(d, id, fact, txTime)
    BY <1>1 DEF AssertsOne
  <2>3. d.sequence = s
    BY <1>2, <2>1, SetSequenceFields
  <2>4. IsDB(db')
    BY <2>2, RecordsFields
  <2>5. db.sequence \in Nat /\ db'.sequence \in Nat
    BY <2>1, <2>4 DEF IsDB
  <2> QED BY <2>1, <2>2, <2>3, <2>5
<1>4. /\ d.sources = db.sources /\ d.episodes = db.episodes /\ d.entities = db.entities
      /\ d.facts = db.facts /\ d.factRevisions = db.factRevisions
      /\ d.entityRevisions = db.entityRevisions
  BY <1>2, <1>3, SetSequenceFields
<1>5. StampedBy(d, txTime)
  BY <1>4 DEF AssertFact, ClockInv, Writing, StampedBy
<1>6. EntitiesAreLogged(d) /\ FactsAreGrounded(d)
  BY <1>2, <1>3, <1>4, EntitiesUnderOtherWrites, FactsUnderOtherWrites DEF CausalInv, CausalHolds
<1>7. Grounded(d, fact)
  BY <1>3, <1>5, <1>6, AcceptedIsGrounded DEF Introduces
<1>8. FactsAreGrounded(db')
  BY <1>3, <1>6, <1>7, RecordsKeepsGrounded DEF Introduces
<1>9. OthersKept
  BY FactOperationsKeepOthers
<1>10. EntitiesAreLogged(db') /\ EpisodesAreGrounded(db')
  BY <1>3, <1>9, EntitiesUnderOtherWrites, EpisodesUnderOtherWrites DEF OthersKept, CausalInv, CausalHolds
<1> QED BY <1>8, <1>10 DEF CausalHolds

LEMMA SupersedeFactKeepsCausal ==
    ASSUME IInv, ClockInv, CausalInv, SupersedeFact
    PROVE  CausalHolds(db')
<1>1. PICK d, new, fact, n1, a, old, gone, n2, b, link, n3 :
         SupersedesOne(txTime', d, new, fact, n1, a, old, gone, n2, b, link, n3)
  BY SupersedeFactWrites
<1>2. PICK s \in Nat : s >= db.sequence /\ d = SetSequence(db, s)
  BY <1>1 DEF SupersedesOne
<1> DEFINE now == txTime'
<1>3. /\ IsDB(db) /\ txTime \in Nat /\ old \in DOMAIN db.facts /\ db.sequence \in Nat
      /\ IsDB(d) /\ RevisionsAreGrounded(d) /\ IsDB(a) /\ RevisionsAreGrounded(a)
      /\ IsDB(b) /\ RevisionsAreGrounded(b)
      /\ Records(d, new, fact, n1, a) /\ Introduces(d, new, fact, now)
      /\ Records(a, old, gone, n2, b) /\ Restates(a, old, gone)
      /\ Records(b, new, link, n3, db') /\ Restates(b, new, link)
      /\ now = StrictlyAfter(txTime, db.facts[old].updatedAt)
  BY <1>1 DEF SupersedesOne, IInv, TypeOK, IsDB
<1> HIDE DEF now
<1>4. /\ d.sources = db.sources /\ d.episodes = db.episodes /\ d.entities = db.entities
      /\ d.facts = db.facts /\ d.factRevisions = db.factRevisions /\ d.sequence = s
      /\ d.entityRevisions = db.entityRevisions
  BY <1>2, <1>3, SetSequenceFields
<1>5. now \in Nat /\ txTime <= now
  <2>1. db.facts[old].updatedAt \in Nat
    BY <1>3 DEF IsDB, IsMap, Fact
  <2>2. now \in Nat /\ now >= txTime
    BY <1>3, <2>1, StrictlyAfterFacts
  <2> QED BY <1>3, <2>2
<1>6. StampedBy(d, txTime)
  BY <1>4 DEF SupersedeFact, ClockInv, Writing, StampedBy
<1>7. EntitiesAreLogged(d) /\ FactsAreGrounded(d)
  BY <1>2, <1>3, <1>4, EntitiesUnderOtherWrites, FactsUnderOtherWrites DEF CausalInv, CausalHolds
<1>8. Grounded(d, fact)
  BY <1>3, <1>5, <1>6, <1>7, AcceptedIsGrounded DEF Introduces
<1>9. FactsAreGrounded(a)
  BY <1>3, <1>7, <1>8, RecordsKeepsGrounded DEF Introduces
<1>10. FactsAreGrounded(b)
  BY <1>3, <1>9, RecordsKeepsGrounded
<1>11. FactsAreGrounded(db')
  BY <1>3, <1>10, RecordsKeepsGrounded
<1>12. OthersKept /\ db'.sequence \in Nat
  BY <1>3, FactOperationsKeepOthers, RecordsFields DEF Records
<1>13. EntitiesAreLogged(db') /\ EpisodesAreGrounded(db')
  BY <1>3, <1>12, EntitiesUnderOtherWrites, EpisodesUnderOtherWrites DEF OthersKept, CausalInv, CausalHolds
<1> QED BY <1>11, <1>13 DEF CausalHolds

LEMMA RetractFactKeepsCausal ==
    ASSUME IInv, CausalInv, RetractFact
    PROVE  CausalHolds(db')
<1>1. CASE db' = db
  BY <1>1 DEF CausalInv
<1>2. CASE db' # db
  <2>1. PICK id, fact, n : RetractsOne(id, fact, n)
    BY <1>2, RetractFactWrites
  <2>2. FactsAreGrounded(db')
    BY <2>1, RecordsKeepsGrounded DEF RetractsOne, CausalInv, CausalHolds
  <2>3. OthersKept /\ db'.sequence \in Nat /\ db.sequence \in Nat
    BY <2>1, FactOperationsKeepOthers, RecordsFields DEF RetractsOne, Records, IsDB
  <2>4. EntitiesAreLogged(db') /\ EpisodesAreGrounded(db')
    BY <2>3, EntitiesUnderOtherWrites, EpisodesUnderOtherWrites DEF OthersKept, CausalInv, CausalHolds
  <2> QED BY <2>2, <2>4 DEF CausalHolds
<1> QED BY <1>1, <1>2

LEMMA IngestEpisodeKeepsCausal ==
    ASSUME IInv, ClockInv, CausalInv, IngestEpisode
    PROVE  CausalHolds(db')
<1>1. PICK source, id : IngestsEpisode(source, id)
  BY IngestEpisodeStep DEF IInv
<1>2. /\ IsDB(db) /\ IsDB(db') /\ db.sequence \in Nat /\ db'.sequence \in Nat /\ txTime \in Nat
  BY <1>1 DEF IInv, TypeOK, IngestsEpisode, IsDB
<1>3. StampedBy(db, txTime)
  BY DEF IngestEpisode, ClockInv, Writing
<1>4. EntitiesAreLogged(db') /\ FactsAreGrounded(db')
  BY <1>1, <1>2, EntitiesUnderOtherWrites, FactsUnderOtherWrites
     DEF IngestsEpisode, CausalInv, CausalHolds
<1>5. \A x \in DOMAIN db'.sources : db'.sources[x].createdAt <= txTime
  BY <1>1, <1>2, <1>3 DEF IngestsEpisode, StampedBy
<1>6. EpisodesAreGrounded(db')
  <2> SUFFICES ASSUME NEW ep \in DOMAIN db'.episodes
               PROVE  /\ db'.episodes[ep].source \in DOMAIN db'.sources
                      /\ db'.sources[db'.episodes[ep].source].space = db'.episodes[ep].space
                      /\ db'.sources[db'.episodes[ep].source].createdAt <= db'.episodes[ep].ingestedAt
    BY DEF EpisodesAreGrounded
  <2>1. CASE ep \in DOMAIN db.episodes
    BY <1>1, <2>1 DEF IngestsEpisode, CausalInv, CausalHolds, EpisodesAreGrounded
  <2>2. CASE ep \notin DOMAIN db.episodes
    BY <1>1, <1>5, <2>2 DEF IngestsEpisode
  <2> QED BY <2>1, <2>2
<1> QED BY <1>4, <1>6 DEF CausalHolds

LEMMA UpsertEntityKeepsCausal ==
    ASSUME IInv, ClockInv, CausalInv, UpsertEntity
    PROVE  CausalHolds(db')
<1>1. PICK id, revision : UpsertsEntity(id, revision)
  BY UpsertEntityStep DEF IInv
<1>2. IsDB(db) /\ txTime \in Nat
  BY DEF IInv, TypeOK
<1>3. StampedBy(db, txTime)
  BY DEF UpsertEntity, ClockInv, Writing
<1>4. EntitiesAreLogged(db')
  BY <1>1, <1>2, <1>3, UpsertKeepsEntitiesLogged DEF CausalInv, CausalHolds
<1>5. EpisodesAreGrounded(db')
  BY <1>1, EpisodesUnderOtherWrites DEF UpsertsEntity, CausalInv, CausalHolds
<1>6. FactsAreGrounded(db')
  <2>1. \A e \in DOMAIN db.entities :
          /\ e \in DOMAIN db'.entities
          /\ db'.entities[e].space = db.entities[e].space
          /\ db'.entities[e].createdAt = db.entities[e].createdAt
    <3> DEFINE entity == db'.entities[id]
    <3>1. /\ db'.entities = Put(db.entities, id, entity)
          /\ id \in DOMAIN db.entities =>
               entity.space = db.entities[id].space /\ entity.createdAt = db.entities[id].createdAt
      BY <1>1 DEF UpsertsEntity
    <3> HIDE DEF entity
    <3> QED BY <3>1 DEF Put
  <2>2. \A f : Grounded(db, f) => Grounded(db', f)
    BY <1>1, <2>1 DEF Grounded, UpsertsEntity
  <2> QED BY <1>1, <2>2 DEF UpsertsEntity, CausalInv, CausalHolds, FactsAreGrounded, StatementsAreLogged
<1> QED BY <1>4, <1>5, <1>6 DEF CausalHolds

LEMMA CausalInit == Init => CausalInv
BY DEF Init, CausalInv, CausalHolds, EntitiesAreLogged, EpisodesAreGrounded, FactsAreGrounded,
       StatementsAreLogged, EmptyDB

LEMMA CausalStep ==
    ASSUME IInv, ClockInv, CausalInv, [Next]_vars
    PROVE  CausalInv'
<1>1. CASE Tick
  BY <1>1 DEF Tick, CausalInv
<1>2. CASE BeginMutation
  BY <1>2 DEF BeginMutation, CausalInv
<1>3. CASE Abort
  BY <1>3 DEF Abort, CausalInv
<1>4. CASE Commit
  BY <1>4 DEF Commit, CausalInv
<1>5. CASE IngestEpisode
  BY <1>5, IngestEpisodeKeepsCausal DEF IngestEpisode, CausalInv
<1>6. CASE UpsertEntity
  BY <1>6, UpsertEntityKeepsCausal DEF UpsertEntity, CausalInv
<1>7. CASE AssertFact
  BY <1>7, AssertFactKeepsCausal DEF AssertFact, CausalInv
<1>8. CASE SupersedeFact
  BY <1>8, SupersedeFactKeepsCausal DEF SupersedeFact, CausalInv
<1>9. CASE RetractFact
  BY <1>9, RetractFactKeepsCausal DEF RetractFact, CausalInv
<1>10. CASE UNCHANGED vars
  BY <1>10 DEF vars, CausalInv
<1> QED BY <1>1, <1>2, <1>3, <1>4, <1>5, <1>6, <1>7, <1>8, <1>9, <1>10 DEF Next

LEMMA CausalInvariance ==
    ASSUME ClockMode # "stepping"
    PROVE  Spec => [](ClockInv /\ CausalInv)
<1>1. Init => ClockInv /\ CausalInv
  BY ClockInit, CausalInit
<1>2. IInv /\ (ClockInv /\ CausalInv) /\ [Next]_vars => (ClockInv /\ CausalInv)'
  BY ClockStep, CausalStep
<1> QED BY <1>1, <1>2, InvariantHolds, PTL DEF Spec

(* A cut from the creation of an entity on answers with a version of it.   *)
LEMMA EntityIsReadFromItsCreation ==
    ASSUME NEW d, IsDB(d), EntitiesAreLogged(d), NEW id \in DOMAIN d.entities,
           NEW at \in Nat, d.entities[id].createdAt <= at
    PROVE  /\ EntityVersionAt(d, id, at) \in Entity
           /\ EntityVersionAt(d, id, at).space = d.entities[id].space
           /\ at >= d.entities[id].updatedAt => EntityVersionAt(d, id, at) = d.entities[id]
<1> DEFINE known == EntityVersions(d, id, at)
<1>1. PICK first \in DOMAIN d.entityRevisions :
        d.entityRevisions[first].entity = id /\ d.entityRevisions[first].txTime = d.entities[id].createdAt
  BY DEF EntitiesAreLogged
<1>2. Version(first, d.entityRevisions[first]) \in known
  BY <1>1 DEF EntityVersions
<1>3. PICK v \in known : IsLast(v, known)
  BY <1>2 DEF EntitiesAreLogged
<1>4. \A w \in known : \E r \in DOMAIN d.entityRevisions :
        w = Version(r, d.entityRevisions[r]) /\ d.entityRevisions[r].entity = id
  BY DEF EntityVersions
<1>5. \A w \in known : w.order \in Nat /\ w.txTime \in Nat
  <2> SUFFICES ASSUME NEW w \in known
               PROVE  w.order \in Nat /\ w.txTime \in Nat
    OBVIOUS
  <2>1. PICK r \in DOMAIN d.entityRevisions : w = Version(r, d.entityRevisions[r])
    BY <1>4
  <2>2. PICK n \in 1..d.sequence : r = GeneratedID("entityrev", n)
    BY DEF EntitiesAreLogged
  <2>3. n \in Nat /\ d.entityRevisions[r].txTime \in Nat
    BY DEF IsDB, IsMap, EntityRevision
  <2> QED BY <2>1, <2>2, <2>3 DEF Version, RevisionOrder, GeneratedID
<1>6. PICK r \in DOMAIN d.entityRevisions :
        v = Version(r, d.entityRevisions[r]) /\ d.entityRevisions[r].entity = id
  BY <1>4
<1>7. v.record \in Entity /\ v.record.space = d.entities[id].space
  BY <1>6 DEF EntitiesAreLogged, IsDB, IsMap, EntityRevision, Version
<1> HIDE DEF known
<1>8. Latest(known) = v
  BY <1>3, <1>5, LatestIsUnique DEF IsLast
<1>9. EntityVersionAt(d, id, at) = v.record
  BY <1>2, <1>8 DEF EntityVersionAt, known
<1>10. ASSUME at >= d.entities[id].updatedAt
       PROVE  v.record = d.entities[id]
  <2>1. PICK last : IsLatestEntityRevision(d, id, last)
    BY DEF EntitiesAreLogged
  <2> DEFINE u == Version(last, d.entityRevisions[last])
  <2>2. /\ last \in DOMAIN d.entityRevisions
        /\ d.entityRevisions[last].entity = id
        /\ d.entityRevisions[last].txTime = d.entities[id].updatedAt
        /\ u.record = d.entities[id]
    BY <2>1 DEF IsLatestEntityRevision, EntityRevisionOf, Version
  <2>3. u \in known
    BY <1>10, <2>2, OtherStamps DEF EntityVersions, known
  <2>4. \A w \in known \ {u} : ComesAfter(u, w)
    BY <1>4, <2>1 DEF IsLatestEntityRevision
  <2> HIDE DEF u
  <2>5. Latest(known) = u
    BY <1>5, <2>3, <2>4, LatestIsUnique
  <2> QED BY <1>8, <2>2, <2>5
<1> QED BY <1>7, <1>9, <1>10

(* On a clock that never goes back, a cut from an entity's stamp on        *)
(* rebuilds exactly the live entity (upsertEntityLocked stamps with the    *)
(* pinned time as it is; entityVersionAtLocked).                           *)
THEOREM LiveEntityIsLatest ==
    ASSUME ClockMode # "stepping"
    PROVE  Spec => []LiveEntityIsLatestVersion
<1>1. IInv /\ ClockInv /\ CausalInv => LiveEntityIsLatestVersion
  <2> SUFFICES ASSUME IInv, CausalInv, NEW id \in DOMAIN db.entities, NEW at \in Cuts,
                      at >= db.entities[id].updatedAt
               PROVE  EntityVersionAt(db, id, at) = db.entities[id]
    BY DEF LiveEntityIsLatestVersion
  <2>1. IsDB(db) /\ EntitiesAreLogged(db) /\ at \in Nat
    BY ClockAssumption DEF IInv, TypeOK, CausalInv, CausalHolds
  <2>2. PICK r \in DOMAIN db.entityRevisions :
          db.entityRevisions[r].entity = id /\ db.entityRevisions[r].txTime = db.entities[id].createdAt
    BY <2>1 DEF EntitiesAreLogged
  <2>3. db.entities[id].createdAt <= db.entities[id].updatedAt
    BY <2>1, <2>2 DEF EntitiesAreLogged
  <2>4. db.entities[id].createdAt <= at
    BY <2>1, <2>3, OtherStamps
  <2> QED BY <2>1, <2>4, EntityIsReadFromItsCreation
<1> QED BY <1>1, CausalInvariance, InvariantHolds, PTL

(* On a clock that never goes back, provenance never points into the       *)
(* future: wherever a fact can be read, so can its endpoints, its episodes *)
(* and their source, in the fact's own space (assertFactLocked checks them *)
(* before it stamps the fact).                                             *)
THEOREM HistoryPointsBack ==
    ASSUME ClockMode # "stepping"
    PROVE  Spec => []HistoryIsCausal
<1>1. IInv /\ LineageInv /\ ClockInv /\ CausalInv => HistoryIsCausal
  <2> SUFFICES ASSUME IInv, LineageInv, CausalInv, NEW id \in DOMAIN db.facts, NEW at \in Cuts,
                      FactVersionAt(db, id, at) # None
               PROVE  LET f == FactVersionAt(db, id, at)
                      IN  /\ \A e \in {f.subject, f.object} \ {None} :
                                /\ EntityReadAt(db, e, at) # None
                                /\ EntityReadAt(db, e, at).space = f.space
                          /\ f.support # {}
                          /\ \A ep \in f.support :
                                /\ ep \in EpisodesAt(db, at)
                                /\ db.episodes[ep].space = f.space
                                /\ db.sources[db.episodes[ep].source].space = f.space
                                /\ db.sources[db.episodes[ep].source].createdAt <= at
    BY DEF HistoryIsCausal
  <2> DEFINE f == FactVersionAt(db, id, at)
  <2>1. /\ IsDB(db) /\ RevisionsAreGrounded(db) /\ FactsAreLogged(db) /\ ChainsAreLogged(db)
        /\ EntitiesAreLogged(db) /\ EpisodesAreGrounded(db) /\ FactsAreGrounded(db)
        /\ at \in Nat
    BY ClockAssumption DEF IInv, TypeOK, LineageInv, LineageHolds, CausalInv, CausalHolds
  <2>2. db.facts[id].createdAt \in Nat
    BY <2>1, StampTypes
  <2>3. db.facts[id].createdAt <= at
    BY <2>1, <2>2, CutReadsALast
  <2>4. PICK r \in DOMAIN db.factRevisions :
          db.factRevisions[r].fact = id /\ f = db.factRevisions[r].record
    BY <2>1, <2>2, <2>3, CutReadsALast
  <2> HIDE DEF f
  <2>5. SameStatement(f, db.facts[id])
    BY <2>1, <2>4 DEF FactsAreGrounded, StatementsAreLogged
  <2>6. Grounded(db, db.facts[id])
    BY <2>1 DEF FactsAreGrounded
  <2>7. ASSUME NEW e \in {f.subject, f.object} \ {None}
        PROVE  EntityReadAt(db, e, at) # None /\ EntityReadAt(db, e, at).space = f.space
    <3>1. /\ e \in DOMAIN db.entities /\ db.entities[e].space = f.space
          /\ db.entities[e].createdAt <= db.facts[id].createdAt
      BY <2>5, <2>6 DEF SameStatement, Grounded
    <3>2. db.entities[e].createdAt <= at
      BY <2>1, <2>2, <2>3, <3>1, OtherStamps
    <3>3. EntityVersionAt(db, e, at) \in Entity /\ EntityVersionAt(db, e, at).space = f.space
      BY <2>1, <3>1, <3>2, EntityIsReadFromItsCreation
    <3>4. EntityReadAt(db, e, at) = EntityVersionAt(db, e, at)
      BY <3>1 DEF EntityReadAt, Missing
    <3> QED BY <3>3, <3>4, RecordAssumption
  <2>8. f.support # {}
    BY <2>5, <2>6 DEF SameStatement, Grounded
  <2>9. ASSUME NEW ep \in f.support
        PROVE  /\ ep \in EpisodesAt(db, at)
               /\ db.episodes[ep].space = f.space
               /\ db.sources[db.episodes[ep].source].space = f.space
               /\ db.sources[db.episodes[ep].source].createdAt <= at
    <3>1. /\ ep \in DOMAIN db.episodes /\ db.episodes[ep].space = f.space
          /\ db.episodes[ep].ingestedAt <= db.facts[id].createdAt
      BY <2>5, <2>6 DEF SameStatement, Grounded
    <3>2. db.episodes[ep].ingestedAt \in Nat /\ db.episodes[ep].ingestedAt <= at
      BY <2>1, <2>2, <2>3, <3>1, OtherStamps
    <3>3. /\ db.episodes[ep].source \in DOMAIN db.sources
          /\ db.sources[db.episodes[ep].source].space = db.episodes[ep].space
          /\ db.sources[db.episodes[ep].source].createdAt <= db.episodes[ep].ingestedAt
      BY <2>1, <3>1 DEF EpisodesAreGrounded
    <3>4. db.sources[db.episodes[ep].source].createdAt <= at
      BY <2>1, <3>2, <3>3, OtherStamps
    <3> QED BY <3>1, <3>2, <3>3, <3>4 DEF EpisodesAt
  <2> QED BY <2>7, <2>8, <2>9 DEF f
<1> QED BY <1>1, CausalInvariance, LineageInvariance, InvariantHolds, PTL

-----------------------------------------------------------------------------
(* Single-value slots.                                                     *)

(* The log tells that the fact was retired before it tells anything of the *)
(* other.                                                                  *)
GaveWay(d, id, other) ==
    \E q \in DOMAIN d.factRevisions :
        /\ d.factRevisions[q].fact = id
        /\ d.factRevisions[q].record.status # "active"
        /\ \A r \in DOMAIN d.factRevisions :
              d.factRevisions[r].fact = other => RevisionOrder(q) < RevisionOrder(r)

(* An active fact was never anything else, and never changed its slot or   *)
(* its validity.                                                           *)
ActiveIsUnchanged(d) ==
    \A r \in DOMAIN d.factRevisions :
        LET f == d.facts[d.factRevisions[r].fact]
        IN  f.status = "active" =>
                /\ d.factRevisions[r].record.status = "active"
                /\ d.factRevisions[r].record.validFrom = f.validFrom
                /\ d.factRevisions[r].record.validTo = f.validTo
                /\ SameSlot(d.factRevisions[r].record, f)

(* A fact that left the active state does not come back.                   *)
InactiveStays(d) ==
    \A q, r \in DOMAIN d.factRevisions :
        /\ d.factRevisions[q].fact = d.factRevisions[r].fact
        /\ d.factRevisions[q].record.status # "active"
        /\ d.factRevisions[r].record.status = "active"
        => d.factRevisions[r].txTime < d.factRevisions[q].txTime

(* Of two facts with versions that were active in one slot with            *)
(* overlapping validity, one gave way to the other.                        *)
OneAfterTheOther(d) ==
    \A q, r \in DOMAIN d.factRevisions :
        LET id    == d.factRevisions[q].fact
            other == d.factRevisions[r].fact
            f     == d.factRevisions[q].record
            g     == d.factRevisions[r].record
        IN  /\ id # other /\ d.facts[id].single /\ d.facts[other].single
            /\ SameSlot(f, g)
            /\ f.status = "active" /\ g.status = "active"
            /\ ValidityOverlaps(f.validFrom, f.validTo, g.validFrom, g.validTo)
            => GaveWay(d, id, other) \/ GaveWay(d, other, id)

EveryFactHasARevision(d) ==
    \A id \in DOMAIN d.facts : \E r \in DOMAIN d.factRevisions : d.factRevisions[r].fact = id

SlotHolds(d) ==
    ActiveIsUnchanged(d) /\ InactiveStays(d) /\ OneAfterTheOther(d) /\ EveryFactHasARevision(d)

SlotInv == SlotHolds(db) /\ SlotHolds(snapshot)

LEMMA SlotUnderOtherWrites ==
    ASSUME NEW d, NEW e, SlotHolds(d), e.facts = d.facts, e.factRevisions = d.factRevisions
    PROVE  SlotHolds(e)
<1>1. \A id, other : GaveWay(d, id, other) => GaveWay(e, id, other)
  BY DEF GaveWay
<1>2. ActiveIsUnchanged(e) /\ InactiveStays(e) /\ EveryFactHasARevision(e)
  BY DEF SlotHolds, ActiveIsUnchanged, InactiveStays, EveryFactHasARevision
<1>3. OneAfterTheOther(e)
  BY <1>1 DEF SlotHolds, OneAfterTheOther
<1> QED BY <1>2, <1>3 DEF SlotHolds

LEMMA RecordsKeepsActive ==
    ASSUME NEW d, IsDB(d), RevisionsAreGrounded(d), SlotHolds(d),
           NEW id, NEW fact, NEW n, NEW e, Records(d, id, fact, n, e),
           \/ id \notin DOMAIN d.facts /\ fact.status = "active"
           \/ Restates(d, id, fact)
    PROVE  ActiveIsUnchanged(e) /\ InactiveStays(e) /\ EveryFactHasARevision(e)
<1> DEFINE new == GeneratedID("factrev", n)
<1>1. /\ new \notin DOMAIN d.factRevisions
      /\ DOMAIN e.factRevisions = DOMAIN d.factRevisions \cup {new}
      /\ e.factRevisions[new] = [fact |-> id, txTime |-> fact.updatedAt, record |-> fact]
      /\ \A r \in DOMAIN d.factRevisions : e.factRevisions[r] = d.factRevisions[r]
      /\ DOMAIN e.facts = DOMAIN d.facts \cup {id}
      /\ e.facts[id] = fact
      /\ \A x \in DOMAIN d.facts \ {id} : e.facts[x] = d.facts[x]
      /\ fact.updatedAt \in Nat
  BY RecordsMaps
<1> HIDE DEF new
<1>2. \A r \in DOMAIN d.factRevisions :
        /\ d.factRevisions[r].txTime \in Nat
        /\ d.factRevisions[r].fact \in DOMAIN d.facts
        /\ d.factRevisions[r].txTime <= d.facts[d.factRevisions[r].fact].updatedAt
        /\ d.facts[d.factRevisions[r].fact].updatedAt \in Nat
  BY StampTypes
<1>3. ActiveIsUnchanged(e)
  <2> SUFFICES ASSUME NEW r \in DOMAIN e.factRevisions, e.facts[e.factRevisions[r].fact].status = "active"
               PROVE  LET f == e.facts[e.factRevisions[r].fact]
                      IN  /\ e.factRevisions[r].record.status = "active"
                          /\ e.factRevisions[r].record.validFrom = f.validFrom
                          /\ e.factRevisions[r].record.validTo = f.validTo
                          /\ SameSlot(e.factRevisions[r].record, f)
    BY DEF ActiveIsUnchanged
  <2>1. CASE r = new
    BY <1>1, <2>1 DEF SameSlot
  <2>2. CASE r # new
    <3>1. r \in DOMAIN d.factRevisions /\ e.factRevisions[r] = d.factRevisions[r]
      BY <1>1, <2>2
    <3>2. LET f == d.facts[d.factRevisions[r].fact]
          IN  f.status = "active" =>
                /\ d.factRevisions[r].record.status = "active"
                /\ d.factRevisions[r].record.validFrom = f.validFrom
                /\ d.factRevisions[r].record.validTo = f.validTo
                /\ SameSlot(d.factRevisions[r].record, f)
      BY <3>1 DEF SlotHolds, ActiveIsUnchanged
    <3> QED BY <1>1, <1>2, <3>1, <3>2 DEF Restates, SameSlot
  <2> QED BY <2>1, <2>2
<1>4. InactiveStays(e)
  <2> SUFFICES ASSUME NEW q \in DOMAIN e.factRevisions, NEW r \in DOMAIN e.factRevisions,
                      e.factRevisions[q].fact = e.factRevisions[r].fact,
                      e.factRevisions[q].record.status # "active",
                      e.factRevisions[r].record.status = "active"
               PROVE  e.factRevisions[r].txTime < e.factRevisions[q].txTime
    BY DEF InactiveStays
  <2>1. CASE q # new /\ r # new
    BY <1>1, <2>1 DEF SlotHolds, InactiveStays
  <2>2. CASE q = new /\ r # new
    <3>1. r \in DOMAIN d.factRevisions /\ e.factRevisions[r] = d.factRevisions[r]
      BY <1>1, <2>2
    <3>2. fact.status # "active" /\ d.factRevisions[r].fact = id
      BY <1>1, <2>2, <3>1
    <3>3. d.facts[id].updatedAt < fact.updatedAt
      BY <3>2 DEF Restates
    <3>4. d.factRevisions[r].txTime < fact.updatedAt
      BY <1>1, <1>2, <3>1, <3>2, <3>3
    <3> QED BY <1>1, <2>2, <3>1, <3>4
  <2>3. CASE q # new /\ r = new
    <3>1. q \in DOMAIN d.factRevisions /\ e.factRevisions[q] = d.factRevisions[q]
      BY <1>1, <2>3
    <3>2. d.factRevisions[q].fact = id /\ fact.status = "active" /\ id \in DOMAIN d.facts
      BY <1>1, <1>2, <2>3, <3>1
    <3>3. d.facts[id].status = "active"
      BY <3>2 DEF Restates
    <3> QED BY <3>1, <3>2, <3>3 DEF SlotHolds, ActiveIsUnchanged
  <2>4. CASE q = new /\ r = new
    BY <2>4
  <2> QED BY <2>1, <2>2, <2>3, <2>4
<1>5. EveryFactHasARevision(e)
  BY <1>1 DEF SlotHolds, EveryFactHasARevision
<1> QED BY <1>3, <1>4, <1>5

LEMMA RecordsKeepsGivingWay ==
    ASSUME NEW d, IsDB(d), RevisionsAreGrounded(d),
           NEW id, NEW fact, NEW n, NEW e, Records(d, id, fact, n, e)
    PROVE  /\ \A x, y : GaveWay(d, x, y) => GaveWay(e, x, y)
           /\ id \notin DOMAIN d.facts =>
                \A q \in DOMAIN d.factRevisions :
                    d.factRevisions[q].record.status # "active" => GaveWay(e, d.factRevisions[q].fact, id)
<1> DEFINE new == GeneratedID("factrev", n)
<1>1. /\ DOMAIN e.factRevisions = DOMAIN d.factRevisions \cup {new}
      /\ e.factRevisions[new] = [fact |-> id, txTime |-> fact.updatedAt, record |-> fact]
      /\ \A r \in DOMAIN d.factRevisions : e.factRevisions[r] = d.factRevisions[r]
  BY RecordsMaps
<1>2. \A q \in DOMAIN d.factRevisions :
        RevisionOrder(q) < RevisionOrder(new) /\ d.factRevisions[q].fact \in DOMAIN d.facts
  <2> SUFFICES ASSUME NEW q \in DOMAIN d.factRevisions
               PROVE  RevisionOrder(q) < RevisionOrder(new) /\ d.factRevisions[q].fact \in DOMAIN d.facts
    OBVIOUS
  <2>1. PICK m \in 1..d.sequence : q = GeneratedID("factrev", m)
    BY DEF RevisionsAreGrounded
  <2>2. d.sequence \in Nat /\ n \in Nat /\ n > d.sequence
    BY DEF IsDB, Records
  <2>3. RevisionOrder(q) = m /\ RevisionOrder(new) = n
    BY <2>1 DEF RevisionOrder, GeneratedID
  <2>4. m < n
    BY <2>1, <2>2
  <2> QED BY <2>3, <2>4 DEF RevisionsAreGrounded
<1> HIDE DEF new
<1>3. ASSUME NEW x, NEW y, GaveWay(d, x, y)
      PROVE  GaveWay(e, x, y)
  BY <1>1, <1>2, <1>3 DEF GaveWay
<1>4. ASSUME id \notin DOMAIN d.facts, NEW q \in DOMAIN d.factRevisions,
             d.factRevisions[q].record.status # "active"
      PROVE  GaveWay(e, d.factRevisions[q].fact, id)
  BY <1>1, <1>2, <1>4 DEF GaveWay
<1> QED BY <1>3, <1>4

LEMMA RecordsKeepsSlots ==
    ASSUME NEW d, IsDB(d), RevisionsAreGrounded(d), SlotHolds(d),
           NEW id, NEW fact, NEW n, NEW e, Records(d, id, fact, n, e),
           \/ /\ Introduces(d, id, fact, fact.createdAt)
              /\ fact.single => FactsAreLogged(d)
           \/ Restates(d, id, fact),
           fact.single \in BOOLEAN
    PROVE  SlotHolds(e)
<1> DEFINE new == GeneratedID("factrev", n)
<1>1. /\ new \notin DOMAIN d.factRevisions
      /\ DOMAIN e.factRevisions = DOMAIN d.factRevisions \cup {new}
      /\ e.factRevisions[new] = [fact |-> id, txTime |-> fact.updatedAt, record |-> fact]
      /\ \A r \in DOMAIN d.factRevisions : e.factRevisions[r] = d.factRevisions[r]
      /\ DOMAIN e.facts = DOMAIN d.facts \cup {id}
      /\ e.facts[id] = fact
      /\ \A x \in DOMAIN d.facts \ {id} : e.facts[x] = d.facts[x]
  BY RecordsMaps
<1> HIDE DEF new
<1>2. \A r \in DOMAIN d.factRevisions : d.factRevisions[r].fact \in DOMAIN d.facts
  BY DEF RevisionsAreGrounded
<1>3. ActiveIsUnchanged(e) /\ InactiveStays(e) /\ EveryFactHasARevision(e)
  BY RecordsKeepsActive DEF Introduces
<1>4. /\ \A x, y : GaveWay(d, x, y) => GaveWay(e, x, y)
      /\ id \notin DOMAIN d.facts =>
            \A q \in DOMAIN d.factRevisions :
                d.factRevisions[q].record.status # "active" => GaveWay(e, d.factRevisions[q].fact, id)
  BY RecordsKeepsGivingWay
<1>5. \A x \in DOMAIN d.facts : x \in DOMAIN e.facts /\ e.facts[x].single = d.facts[x].single
  BY <1>1 DEF Introduces, Restates
(* The new version against an older one of another fact.                   *)
<1>6. ASSUME NEW r \in DOMAIN d.factRevisions, d.factRevisions[r].fact # id,
             fact.single, d.facts[d.factRevisions[r].fact].single,
             SameSlot(fact, d.factRevisions[r].record),
             fact.status = "active", d.factRevisions[r].record.status = "active",
             ValidityOverlaps(fact.validFrom, fact.validTo,
                              d.factRevisions[r].record.validFrom, d.factRevisions[r].record.validTo)
      PROVE  GaveWay(e, id, d.factRevisions[r].fact) \/ GaveWay(e, d.factRevisions[r].fact, id)
  <2> DEFINE x == d.factRevisions[r].fact
  <2>1. x \in DOMAIN d.facts
    BY <1>2
  <2>2. CASE id \in DOMAIN d.facts
    <3>1. /\ d.facts[id].status = "active" /\ d.facts[id].single = fact.single
          /\ d.facts[id].validFrom = fact.validFrom /\ d.facts[id].validTo = fact.validTo
          /\ SameSlot(d.facts[id], fact)
      BY <1>6, <2>2 DEF Introduces, Restates, SameSlot
    <3>2. PICK q \in DOMAIN d.factRevisions : d.factRevisions[q].fact = id
      BY <2>2 DEF SlotHolds, EveryFactHasARevision
    <3>3. /\ d.factRevisions[q].record.status = "active"
          /\ d.factRevisions[q].record.validFrom = fact.validFrom
          /\ d.factRevisions[q].record.validTo = fact.validTo
          /\ SameSlot(d.factRevisions[q].record, d.facts[id])
      BY <3>1, <3>2 DEF SlotHolds, ActiveIsUnchanged
    <3>4. SameSlot(d.factRevisions[q].record, d.factRevisions[r].record)
      BY <1>6, <3>1, <3>3 DEF SameSlot
    <3>5. GaveWay(d, id, x) \/ GaveWay(d, x, id)
      BY <1>6, <3>1, <3>2, <3>3, <3>4 DEF SlotHolds, OneAfterTheOther
    <3> QED BY <1>4, <3>5
  <2>3. CASE id \notin DOMAIN d.facts
    <3>1. FactsAreLogged(d) /\ FactAccepted(d, fact, fact.single)
      BY <1>6, <2>3 DEF Introduces, Restates
    <3>2. d.facts[x].status # "active"
      <4>1. SlotOccupants(d, fact) = {}
        BY <1>6, <3>1 DEF FactAccepted
      <4>2. SUFFICES ASSUME d.facts[x].status = "active"
                     PROVE  FALSE
        OBVIOUS
      <4>3. /\ d.factRevisions[r].record.validFrom = d.facts[x].validFrom
            /\ d.factRevisions[r].record.validTo = d.facts[x].validTo
            /\ SameSlot(d.factRevisions[r].record, d.facts[x])
        BY <4>2 DEF SlotHolds, ActiveIsUnchanged
      <4>4. ValidityOverlaps(d.facts[x].validFrom, d.facts[x].validTo, fact.validFrom, fact.validTo)
        BY <1>6, <4>3 DEF ValidityOverlaps
      <4>5. SameSlot(d.facts[x], fact)
        BY <1>6, <4>3 DEF SameSlot
      <4> QED BY <2>1, <4>1, <4>2, <4>4, <4>5 DEF SlotOccupants
    <3>3. PICK q \in DOMAIN d.factRevisions : IsLatestRevision(d, x, q)
      BY <2>1, <3>1 DEF FactsAreLogged
    <3>4. d.factRevisions[q].fact = x /\ d.factRevisions[q].record.status # "active"
      BY <3>2, <3>3 DEF IsLatestRevision
    <3> QED BY <1>4, <2>3, <3>4
  <2> QED BY <2>2, <2>3
<1>7. OneAfterTheOther(e)
  <2> SUFFICES ASSUME NEW q \in DOMAIN e.factRevisions, NEW r \in DOMAIN e.factRevisions,
                      e.factRevisions[q].fact # e.factRevisions[r].fact,
                      e.facts[e.factRevisions[q].fact].single, e.facts[e.factRevisions[r].fact].single,
                      SameSlot(e.factRevisions[q].record, e.factRevisions[r].record),
                      e.factRevisions[q].record.status = "active",
                      e.factRevisions[r].record.status = "active",
                      ValidityOverlaps(e.factRevisions[q].record.validFrom, e.factRevisions[q].record.validTo,
                                       e.factRevisions[r].record.validFrom, e.factRevisions[r].record.validTo)
               PROVE  \/ GaveWay(e, e.factRevisions[q].fact, e.factRevisions[r].fact)
                      \/ GaveWay(e, e.factRevisions[r].fact, e.factRevisions[q].fact)
    BY DEF OneAfterTheOther
  <2>1. CASE q # new /\ r # new
    <3> DEFINE x == d.factRevisions[q].fact
               y == d.factRevisions[r].fact
    <3>1. /\ q \in DOMAIN d.factRevisions /\ e.factRevisions[q] = d.factRevisions[q]
          /\ r \in DOMAIN d.factRevisions /\ e.factRevisions[r] = d.factRevisions[r]
      BY <1>1, <2>1
    <3>2. x \in DOMAIN d.facts /\ y \in DOMAIN d.facts
      BY <1>2, <3>1
    <3>3. d.facts[x].single /\ d.facts[y].single
      <4>1. e.facts[x].single /\ e.facts[y].single
        BY <3>1
      <4> QED BY <1>5, <3>2, <4>1
    <3>4. GaveWay(d, x, y) \/ GaveWay(d, y, x)
      BY <3>1, <3>3 DEF SlotHolds, OneAfterTheOther
    <3> QED BY <1>4, <3>1, <3>4
  <2>2. CASE q = new /\ r # new
    <3>1. r \in DOMAIN d.factRevisions /\ e.factRevisions[r] = d.factRevisions[r]
      BY <1>1, <2>2
    <3>2. e.factRevisions[q].fact = id /\ e.factRevisions[q].record = fact /\ e.facts[id] = fact
      BY <1>1, <2>2
    <3>3. d.factRevisions[r].fact \in DOMAIN d.facts /\ d.factRevisions[r].fact # id
      BY <1>2, <3>1, <3>2
    <3>4. e.facts[d.factRevisions[r].fact] = d.facts[d.factRevisions[r].fact]
      BY <1>1, <3>3
    <3> QED BY <1>6, <3>1, <3>2, <3>3, <3>4
  <2>3. CASE q # new /\ r = new
    <3>1. q \in DOMAIN d.factRevisions /\ e.factRevisions[q] = d.factRevisions[q]
      BY <1>1, <2>3
    <3>2. e.factRevisions[r].fact = id /\ e.factRevisions[r].record = fact /\ e.facts[id] = fact
      BY <1>1, <2>3
    <3>3. d.factRevisions[q].fact \in DOMAIN d.facts /\ d.factRevisions[q].fact # id
      BY <1>2, <3>1, <3>2
    <3>4. e.facts[d.factRevisions[q].fact] = d.facts[d.factRevisions[q].fact]
      BY <1>1, <3>3
    <3>5. SameSlot(fact, d.factRevisions[q].record)
      BY <3>1, <3>2 DEF SameSlot
    <3>6. ValidityOverlaps(fact.validFrom, fact.validTo,
                           d.factRevisions[q].record.validFrom, d.factRevisions[q].record.validTo)
      BY <3>1, <3>2 DEF ValidityOverlaps
    <3> QED BY <1>6, <3>1, <3>2, <3>3, <3>4, <3>5, <3>6
  <2>4. CASE q = new /\ r = new
    BY <2>4
  <2> QED BY <2>1, <2>2, <2>3, <2>4
<1> QED BY <1>3, <1>7 DEF SlotHolds

LEMMA SlotInit == Init => SlotInv
BY DEF Init, SlotInv, SlotHolds, ActiveIsUnchanged, InactiveStays, OneAfterTheOther,
       EveryFactHasARevision, EmptyDB

LEMMA AssertFactKeepsSlots ==
    ASSUME IInv, SlotInv, AssertFact
    PROVE  SlotHolds(db')
<1>1. PICK d, id, fact, n : AssertsOne(txTime, d, id, fact, n)
  BY AssertFactWrites
<1>2. PICK s \in Nat : s >= db.sequence /\ d = SetSequence(db, s)
  BY <1>1 DEF AssertsOne
<1>3. IsDB(db)
  BY DEF IInv, TypeOK
<1>4. d.facts = db.facts /\ d.factRevisions = db.factRevisions
  BY <1>2, <1>3, SetSequenceFields
<1>5. SlotHolds(d)
  BY <1>4, SlotUnderOtherWrites DEF SlotInv
<1>6. /\ IsDB(d) /\ RevisionsAreGrounded(d) /\ FactsAreLogged(d)
      /\ Records(d, id, fact, n, db')
      /\ Introduces(d, id, fact, fact.createdAt) /\ fact.createdAt = txTime
  BY <1>1 DEF AssertsOne, Introduces
<1>7. fact.single \in BOOLEAN
  BY <1>6 DEF Records, Fact
<1> QED BY <1>5, <1>6, <1>7, RecordsKeepsSlots

LEMMA SupersedeFactKeepsSlots ==
    ASSUME IInv, SlotInv, SupersedeFact
    PROVE  SlotHolds(db')
<1>1. PICK d, new, fact, n1, a, old, gone, n2, b, link, n3 :
         SupersedesOne(txTime', d, new, fact, n1, a, old, gone, n2, b, link, n3)
  BY SupersedeFactWrites
<1>2. PICK s \in Nat : s >= db.sequence /\ d = SetSequence(db, s)
  BY <1>1 DEF SupersedesOne
<1>3. IsDB(db)
  BY DEF IInv, TypeOK
<1>4. d.facts = db.facts /\ d.factRevisions = db.factRevisions
  BY <1>2, <1>3, SetSequenceFields
<1>5. SlotHolds(d)
  BY <1>4, SlotUnderOtherWrites DEF SlotInv
<1>6. /\ IsDB(d) /\ RevisionsAreGrounded(d) /\ IsDB(a) /\ RevisionsAreGrounded(a)
      /\ IsDB(b) /\ RevisionsAreGrounded(b)
      /\ Records(d, new, fact, n1, a) /\ Introduces(d, new, fact, fact.createdAt) /\ fact.single = FALSE
      /\ Records(a, old, gone, n2, b) /\ Restates(a, old, gone)
      /\ Records(b, new, link, n3, db') /\ Restates(b, new, link)
  BY <1>1 DEF SupersedesOne, Introduces
<1>7. gone.single \in BOOLEAN /\ link.single \in BOOLEAN
  BY <1>6 DEF Records, Fact
<1>8. SlotHolds(a)
  BY <1>5, <1>6, RecordsKeepsSlots
<1>9. SlotHolds(b)
  BY <1>6, <1>7, <1>8, RecordsKeepsSlots
<1> QED BY <1>6, <1>7, <1>9, RecordsKeepsSlots

LEMMA RetractFactKeepsSlots ==
    ASSUME IInv, SlotInv, RetractFact
    PROVE  SlotHolds(db')
<1>1. CASE db' = db
  BY <1>1 DEF SlotInv
<1>2. CASE db' # db
  <2>1. PICK id, fact, n : RetractsOne(id, fact, n)
    BY <1>2, RetractFactWrites
  <2>2. fact.single \in BOOLEAN
    BY <2>1 DEF RetractsOne, Records, Fact
  <2> QED BY <2>1, <2>2, RecordsKeepsSlots DEF RetractsOne, SlotInv
<1> QED BY <1>1, <1>2

LEMMA SlotStep ==
    ASSUME IInv, SlotInv, [Next]_vars
    PROVE  SlotInv'
<1>1. CASE Tick
  BY <1>1 DEF Tick, SlotInv
<1>2. CASE BeginMutation
  BY <1>2 DEF BeginMutation, SlotInv
<1>3. CASE Abort
  BY <1>3 DEF Abort, SlotInv
<1>4. CASE Commit
  BY <1>4 DEF Commit, SlotInv
<1>5. CASE IngestEpisode
  <2>1. PICK source, id : IngestsEpisode(source, id)
    BY <1>5, IngestEpisodeStep DEF IInv
  <2>2. SlotHolds(db')
    BY <2>1, SlotUnderOtherWrites DEF IngestsEpisode, SlotInv
  <2> QED BY <1>5, <2>2 DEF IngestEpisode, SlotInv
<1>6. CASE UpsertEntity
  <2>1. PICK id, revision : UpsertsEntity(id, revision)
    BY <1>6, UpsertEntityStep DEF IInv
  <2>2. SlotHolds(db')
    BY <2>1, SlotUnderOtherWrites DEF UpsertsEntity, SlotInv
  <2> QED BY <1>6, <2>2 DEF UpsertEntity, SlotInv
<1>7. CASE AssertFact
  BY <1>7, AssertFactKeepsSlots DEF AssertFact, SlotInv
<1>8. CASE SupersedeFact
  BY <1>8, SupersedeFactKeepsSlots DEF SupersedeFact, SlotInv
<1>9. CASE RetractFact
  BY <1>9, RetractFactKeepsSlots DEF RetractFact, SlotInv
<1>10. CASE UNCHANGED vars
  BY <1>10 DEF vars, SlotInv
<1> QED BY <1>1, <1>2, <1>3, <1>4, <1>5, <1>6, <1>7, <1>8, <1>9, <1>10 DEF Next

LEMMA SlotInvariance == Spec => []SlotInv
<1>1. Init => SlotInv
  BY SlotInit
<1>2. IInv /\ SlotInv /\ [Next]_vars => SlotInv'
  BY SlotStep
<1> QED BY <1>1, <1>2, InvariantHolds, PTL DEF Spec

(* A single-value slot is handed on and never shared, on any clock: what   *)
(* is checked of the live facts when a fact is asserted                    *)
(* (factSlotOccupantsLocked) decides which cuts of the past may show two   *)
(* of its values, those the log dates before a retirement that was written *)
(* first.                                                                  *)
THEOREM SlotHoldsEverywhere == Spec => []SlotHoldsAtEveryCut
<1>1. IInv /\ LineageInv /\ SlotInv => SlotHoldsAtEveryCut
  <2> SUFFICES ASSUME IInv, LineageInv, SlotInv,
                      NEW id \in DOMAIN db.facts, NEW other \in DOMAIN db.facts, NEW at \in Cuts,
                      id # other, db.facts[id].single, db.facts[other].single,
                      ActiveAt(db, id, at), ActiveAt(db, other, at),
                      SameSlot(FactVersionAt(db, id, at), FactVersionAt(db, other, at)),
                      ValidityOverlaps(FactVersionAt(db, id, at).validFrom,
                                       FactVersionAt(db, id, at).validTo,
                                       FactVersionAt(db, other, at).validFrom,
                                       FactVersionAt(db, other, at).validTo)
               PROVE  RetiredBefore(db, id, other, at) \/ RetiredBefore(db, other, id, at)
    BY DEF SlotHoldsAtEveryCut
  <2>1. /\ IsDB(db) /\ RevisionsAreGrounded(db) /\ FactsAreLogged(db) /\ ChainsAreLogged(db)
        /\ SlotHolds(db) /\ at \in Nat
    BY ClockAssumption DEF IInv, TypeOK, LineageInv, LineageHolds, SlotInv
  <2>2. /\ \A x \in DOMAIN db.facts : db.facts[x].createdAt \in Nat
        /\ \A r \in DOMAIN db.factRevisions : db.factRevisions[r].txTime \in Nat
    BY <2>1, StampTypes
  <2>3. ASSUME NEW x \in DOMAIN db.facts, ActiveAt(db, x, at)
        PROVE  \E r \in DOMAIN db.factRevisions :
                    /\ db.factRevisions[r].fact = x
                    /\ FactVersionAt(db, x, at) = db.factRevisions[r].record
                    /\ db.factRevisions[r].record.status = "active"
                    /\ \A y \in DOMAIN db.factRevisions :
                          db.factRevisions[y].fact = x /\ db.factRevisions[y].txTime <= at
                            => db.factRevisions[y].txTime <= db.factRevisions[r].txTime
    <3>1. FactVersionAt(db, x, at) # None /\ FactVersionAt(db, x, at).status = "active"
      BY <2>3 DEF ActiveAt
    <3>2. db.facts[x].createdAt <= at
      BY <2>1, <2>2, <3>1, CutReadsALast
    <3>3. PICK r \in DOMAIN db.factRevisions :
            /\ db.factRevisions[r].fact = x
            /\ FactVersionAt(db, x, at) = db.factRevisions[r].record
            /\ \A y \in DOMAIN db.factRevisions :
                  db.factRevisions[y].fact = x /\ db.factRevisions[y].txTime <= at
                    => db.factRevisions[y].txTime <= db.factRevisions[r].txTime
      BY <2>1, <2>3, <3>2, CutReadsALast
    <3>4. db.factRevisions[r].record.status = "active"
      BY <3>1, <3>3
    <3> QED BY <3>3, <3>4
  (* The retirement that made a fact give way is dated after the cut.      *)
  <2>4. ASSUME NEW x \in DOMAIN db.facts, ActiveAt(db, x, at), NEW y, GaveWay(db, x, y)
        PROVE  RetiredBefore(db, x, y, at)
    <3>1. PICK q \in DOMAIN db.factRevisions :
            /\ db.factRevisions[q].fact = x
            /\ db.factRevisions[q].record.status # "active"
            /\ \A r \in DOMAIN db.factRevisions :
                  db.factRevisions[r].fact = y => RevisionOrder(q) < RevisionOrder(r)
      BY <2>4 DEF GaveWay
    <3>2. PICK r \in DOMAIN db.factRevisions :
            /\ db.factRevisions[r].fact = x
            /\ db.factRevisions[r].record.status = "active"
            /\ \A z \in DOMAIN db.factRevisions :
                  db.factRevisions[z].fact = x /\ db.factRevisions[z].txTime <= at
                    => db.factRevisions[z].txTime <= db.factRevisions[r].txTime
      BY <2>3, <2>4
    <3>3. db.factRevisions[r].txTime < db.factRevisions[q].txTime
      BY <2>1, <3>1, <3>2 DEF SlotHolds, InactiveStays
    <3>4. db.factRevisions[q].txTime > at
      BY <2>1, <2>2, <3>1, <3>2, <3>3
    <3> QED BY <3>1, <3>4 DEF RetiredBefore
  <2>5. PICK q \in DOMAIN db.factRevisions :
          /\ db.factRevisions[q].fact = id
          /\ FactVersionAt(db, id, at) = db.factRevisions[q].record
          /\ db.factRevisions[q].record.status = "active"
    BY <2>3
  <2>6. PICK r \in DOMAIN db.factRevisions :
          /\ db.factRevisions[r].fact = other
          /\ FactVersionAt(db, other, at) = db.factRevisions[r].record
          /\ db.factRevisions[r].record.status = "active"
    BY <2>3
  <2>7. GaveWay(db, id, other) \/ GaveWay(db, other, id)
    BY <2>1, <2>5, <2>6 DEF SlotHolds, OneAfterTheOther
  <2> QED BY <2>4, <2>7
<1> QED BY <1>1, SlotInvariance, LineageInvariance, InvariantHolds, PTL
=============================================================================
