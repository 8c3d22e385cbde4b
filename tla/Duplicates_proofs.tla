-------------------------- MODULE Duplicates_proofs --------------------------
(***************************************************************************)
(* Proofs of the properties of Duplicates.                                 *)
(***************************************************************************)
EXTENDS Duplicates, FiniteSetTheorems, WellFoundedInduction, TLAPS

-----------------------------------------------------------------------------
(* Minimal elements stand in for induction.                                *)

(* A set of numbers has a least one.                                       *)
LEMMA LeastNumber ==
    ASSUME NEW S \in SUBSET Nat, S # {}
    PROVE  \E x \in S : \A y \in S : x <= y
<1>1. PICK x \in S : \A y \in S : ~(<<y, x>> \in OpToRel(<, Nat))
  BY NatLessThanWellFounded, WFMin
<1>2. \A y \in S : ~(y < x)
  BY <1>1 DEF OpToRel
<1> QED BY <1>2

(* Lowest names a member below all others, as the id order is total.       *)
LEMMA LowestIsLeast ==
    ASSUME NEW S \in SUBSET Nat, S # {}
    PROVE  Lowest(S) \in S /\ \A y \in S : Lowest(S) <= y
<1>1. \E x \in S : \A y \in S : x <= y
  BY LeastNumber
<1> QED BY <1>1 DEF Lowest

(* In a finite set, a strict total order has a first element.              *)
LEMMA FirstOfAnOrder ==
    ASSUME NEW U, NEW R,
           \A x, y, z \in U : <<x, y>> \in R /\ <<y, z>> \in R => <<x, z>> \in R,
           \A x, y \in U : x # y => <<x, y>> \in R \/ <<y, x>> \in R,
           NEW S \in SUBSET U, IsFiniteSet(S), S # {}
    PROVE  \E x \in S : \A y \in S \ {x} : <<x, y>> \in R
<1> DEFINE First(T) == \E x \in T : \A y \in T \ {x} : <<x, y>> \in R
<1> DEFINE Bad == {T \in SUBSET S : T # {} /\ ~First(T)}
<1>1. SUFFICES ASSUME Bad # {} PROVE FALSE
  OBVIOUS
<1>2. Bad \subseteq FiniteSubsetsOf(S)
  BY FS_Subset DEF FiniteSubsetsOf
<1>3. PICK T \in Bad : \A V \in Bad : V \subseteq T => V = T
  <2>1. \A T \in Bad : T \subseteq S
    OBVIOUS
  <2> HIDE DEF Bad
  <2>2. PICK T \in Bad : \A V \in Bad : ~(<<V, T>> \in StrictSubsetOrdering(S))
    BY <1>1, <1>2, FS_StrictSubsetOrderingWellFounded, WFMin
  <2> QED BY <2>1, <2>2 DEF StrictSubsetOrdering
<1>4. PICK x \in T : TRUE
  OBVIOUS
<1>5. T \ {x} # {}
  <2>1. ASSUME T \ {x} = {} PROVE First(T)
    BY <1>4, <2>1
  <2> QED BY <2>1, <1>3
<1>6. T \ {x} \notin Bad
  <2> HIDE DEF Bad
  <2> QED BY <1>3, <1>4
<1>7. First(T \ {x})
  <2> HIDE DEF First
  <2> QED BY <1>5, <1>6
<1>8. PICK y \in T \ {x} : \A z \in (T \ {x}) \ {y} : <<y, z>> \in R
  BY <1>7
<1>9. x \in U /\ y \in U /\ x # y /\ T \subseteq U
  BY <1>4, <1>8
<1>10. CASE <<y, x>> \in R
  <2>1. \A z \in T \ {y} : <<y, z>> \in R
    BY <1>8, <1>10
  <2> QED BY <2>1, <1>8, <1>3
<1>11. CASE <<x, y>> \in R
  <2>1. \A z \in T \ {x} : <<x, z>> \in R
    BY <1>8, <1>9, <1>11
  <2> QED BY <2>1, <1>4, <1>3
<1> QED BY <1>9, <1>10, <1>11

(* f starts in start and takes N times the given step.                     *)
Iterates(f, step, start, N) == f[0] = start /\ \A k \in 1..N : f[k] = step[f[k - 1]]

(* A function defined by iteration exists.                                 *)
LEMMA Iteration ==
    ASSUME NEW V, NEW step \in [V -> V], NEW start \in V, NEW N \in Nat
    PROVE  \E f \in [0..N -> V] : Iterates(f, step, start, N)
<1> DEFINE Bad == {n \in Nat : ~ \E f \in [0..n -> V] : Iterates(f, step, start, n)}
<1>1. Bad = {}
  <2>1. SUFFICES ASSUME Bad # {} PROVE FALSE
    OBVIOUS
  <2>2. PICK m \in Bad : \A n \in Bad : m <= n
    BY <2>1, LeastNumber
  <2>3. m # 0
    <3>1. Iterates([n \in 0..0 |-> start], step, start, 0)
      BY DEF Iterates
    <3>2. [n \in 0..0 |-> start] \in [0..0 -> V]
      OBVIOUS
    <3> QED BY <3>1, <3>2, <2>2
  <2>4. m - 1 \in Nat /\ m - 1 \notin Bad
    <3>1. m \in Nat /\ m - 1 \in Nat /\ ~(m <= m - 1)
      BY <2>2, <2>3
    <3> HIDE DEF Bad
    <3> QED BY <2>2, <3>1
  <2>5. PICK f \in [0..(m - 1) -> V] : Iterates(f, step, start, m - 1)
    BY <2>4
  <2> DEFINE g == [k \in 0..m |-> IF k = m THEN step[f[m - 1]] ELSE f[k]]
  <2>6. g \in [0..m -> V]
    <3>1. f[m - 1] \in V
      BY <2>4
    <3>2. \A k \in 0..m : k # m => k \in 0..(m - 1)
      BY <2>2
    <3> QED BY <3>1, <3>2
  <2>7. Iterates(g, step, start, m)
    <3>1. g[0] = start
      BY <2>2, <2>3, <2>5 DEF Iterates
    <3>2. ASSUME NEW k \in 1..m PROVE g[k] = step[g[k - 1]]
      <4>1. k \in 0..m /\ k - 1 \in 0..(m - 1) /\ k - 1 \in 0..m /\ k - 1 # m
        BY <2>2
      <4>2. CASE k = m
        BY <4>1, <4>2
      <4>3. CASE k # m
          BY <4>1, <4>3, <2>5, <2>2 DEF Iterates
      <4> QED BY <4>2, <4>3
    <3> QED BY <3>1, <3>2 DEF Iterates
  <2> QED BY <2>2, <2>6, <2>7
<1> QED BY <1>1

-----------------------------------------------------------------------------
(* Redirect chains.                                                        *)

LEMMA RedirectFacts ==
    ASSUME NEW es, NEW id
    PROVE  /\ Redirect(es, id) \in DOMAIN es \cup {None}
           /\ Redirect(es, id) # None =>
                /\ id \in DOMAIN es /\ Redirect(es, id) \in DOMAIN es
                /\ Redirect(es, id) = es[id].duplicateOf
                /\ es[id].duplicateOf \notin {None, Blank}
                /\ es[Redirect(es, id)].space = es[id].space
BY DEF Redirect, Marked

LEMMA HopsDefined ==
    ASSUME NEW es, NEW id
    PROVE  /\ Hops(es, id) = [hop \in 0..MaxHops |->
                 IF hop = 0 THEN id ELSE Redirect(es, Hops(es, id)[hop - 1])]
           /\ Hops(es, id) \in [0..MaxHops -> DOMAIN es \cup {id, None}]
<1> DEFINE V == DOMAIN es \cup {id, None}
<1> DEFINE step == [x \in V |-> Redirect(es, x)]
<1> DEFINE Body(f) == [hop \in 0..MaxHops |-> IF hop = 0 THEN id ELSE Redirect(es, f[hop - 1])]
<1>1. step \in [V -> V]
  BY RedirectFacts
<1>2. MaxHops \in Nat
  BY InputAssumption
<1>3. PICK f \in [0..MaxHops -> V] : Iterates(f, step, id, MaxHops)
  <2>1. id \in V
    OBVIOUS
  <2> HIDE DEF step, V
  <2> QED BY <1>1, <1>2, <2>1, Iteration
<1>4. ASSUME NEW n \in 0..MaxHops, n # 0 PROVE f[n] = Redirect(es, f[n - 1])
  <2>1. n - 1 \in 0..MaxHops /\ n \in 1..MaxHops
    BY <1>2, <1>4
  <2> QED BY <2>1, <1>3 DEF Iterates
<1>5. f = Body(f)
  BY <1>3, <1>4 DEF Iterates
<1>6. Hops(es, id) = CHOOSE g : g = Body(g)
  BY DEF Hops
<1>7. Hops(es, id) = Body(Hops(es, id))
  <2> HIDE DEF Body
  <2> QED BY <1>5, <1>6
<1>8. ASSUME NEW hop \in 0..MaxHops PROVE Hops(es, id)[hop] \in V
  BY <1>7, RedirectFacts
<1> QED BY <1>7, <1>8

(* What the facts about chains assume of a set of records: None is no id.  *)
LEMMA HopFacts ==
    ASSUME NEW es, NEW id
    PROVE  /\ Hops(es, id)[0] = id
           /\ \A k \in 1..MaxHops : Hops(es, id)[k] = Redirect(es, Hops(es, id)[k - 1])
           /\ MaxHops \in Nat
<1>1. MaxHops \in Nat
  BY InputAssumption
<1>2. 0 \in 0..MaxHops /\ \A k \in 1..MaxHops : k \in 0..MaxHops /\ k # 0
  BY <1>1
<1> QED BY <1>1, <1>2, HopsDefined

(* A chain never picks up again once it broke.                             *)
LEMMA BrokenStaysBroken ==
    ASSUME NEW es, None \notin DOMAIN es, NEW id,
           NEW k \in 0..MaxHops, Hops(es, id)[k] = None,
           NEW n \in k..MaxHops
    PROVE  Hops(es, id)[n] = None
<1> DEFINE Bad == {m \in k..MaxHops : Hops(es, id)[m] # None}
<1>1. SUFFICES ASSUME Bad # {} PROVE FALSE
  OBVIOUS
<1>2. MaxHops \in Nat /\ Bad \in SUBSET Nat
  BY HopFacts
<1>3. PICK m \in Bad : \A x \in Bad : m <= x
  <2> HIDE DEF Bad
  <2> QED BY <1>1, <1>2, LeastNumber
<1>4. m # k /\ m \in 1..MaxHops /\ m - 1 \in k..MaxHops /\ ~(m <= m - 1)
  BY <1>2, <1>3
<1>5. m - 1 \notin Bad
  <2> HIDE DEF Bad
  <2> QED BY <1>3, <1>4
<1>6. Hops(es, id)[m - 1] = None
  BY <1>4, <1>5
<1>7. Hops(es, id)[m] = Redirect(es, None)
  BY <1>4, <1>6, HopFacts
<1>8. Redirect(es, None) = None
  BY RedirectFacts
<1> QED BY <1>3, <1>7, <1>8

(* An end has no hop out of it, so a chain meets one end at most.          *)
LEMMA EndHasNoHop ==
    ASSUME NEW es, NEW x, IsEnd(es, x)
    PROVE  Redirect(es, x) = None
BY RedirectFacts DEF IsEnd

LEMMA EndIsLast ==
    ASSUME NEW es, None \notin DOMAIN es, NEW id,
           NEW a \in 0..MaxHops, IsEnd(es, Hops(es, id)[a]),
           NEW b \in (a + 1)..MaxHops
    PROVE  Hops(es, id)[b] = None
<1>1. MaxHops \in Nat /\ a + 1 \in 1..MaxHops /\ a + 1 \in 0..MaxHops /\ (a + 1) - 1 = a
  BY HopFacts
<1>2. Hops(es, id)[a + 1] = None
  BY <1>1, HopFacts, EndHasNoHop
<1> QED BY <1>1, <1>2, BrokenStaysBroken

LEMMA OneEnd ==
    ASSUME NEW es, None \notin DOMAIN es, NEW id,
           NEW a \in 0..MaxHops, IsEnd(es, Hops(es, id)[a]),
           NEW b \in 0..MaxHops, IsEnd(es, Hops(es, id)[b])
    PROVE  a = b
<1>1. \A x : IsEnd(es, x) => x # None
  BY DEF IsEnd
<1>2. ~(a < b)
  <2>1. ASSUME a < b PROVE FALSE
    <3>1. b \in (a + 1)..MaxHops
      BY <2>1, HopFacts
    <3> QED BY <3>1, <1>1, EndIsLast
  <2> QED BY <2>1
<1>3. ~(b < a)
  <2>1. ASSUME b < a PROVE FALSE
    <3>1. a \in (b + 1)..MaxHops
      BY <2>1, HopFacts
    <3> QED BY <3>1, <1>1, EndIsLast
  <2> QED BY <2>1
<1> QED BY <1>2, <1>3, HopFacts

(* An entity reads as the end its chain meets within the bound ...         *)
LEMMA ReadsAsItsEnd ==
    ASSUME NEW es, None \notin DOMAIN es, NEW id,
           NEW hop \in 0..(MaxHops - 1), IsEnd(es, Hops(es, id)[hop])
    PROVE  CanonicalID(es, id) = Hops(es, id)[hop]
<1>1. EndHops(es, id) \subseteq 0..MaxHops /\ hop \in EndHops(es, id)
  BY HopFacts DEF EndHops
<1>2. \A x \in EndHops(es, id) : IsEnd(es, Hops(es, id)[x])
  BY DEF EndHops
<1>3. \A x \in EndHops(es, id) : x = hop
  BY <1>1, <1>2, OneEnd
<1>4. (CHOOSE x \in EndHops(es, id) : TRUE) = hop
  BY <1>1, <1>3
<1> QED BY <1>1, <1>4 DEF CanonicalID

(* ... and as itself without one.                                          *)
LEMMA ReadsAsItself ==
    ASSUME NEW es, NEW id, \A hop \in 0..(MaxHops - 1) : ~IsEnd(es, Hops(es, id)[hop])
    PROVE  CanonicalID(es, id) = id
BY DEF CanonicalID, EndHops

LEMMA CanonicalCases ==
    ASSUME NEW es, None \notin DOMAIN es, NEW id
    PROVE  \/ /\ CanonicalID(es, id) = id
              /\ \A hop \in 0..(MaxHops - 1) : ~IsEnd(es, Hops(es, id)[hop])
           \/ \E hop \in 0..(MaxHops - 1) :
                 /\ IsEnd(es, Hops(es, id)[hop])
                 /\ CanonicalID(es, id) = Hops(es, id)[hop]
BY ReadsAsItself, ReadsAsItsEnd

(* The chain of the next entity is the chain without its first record.     *)
LEMMA ShiftedHops ==
    ASSUME NEW es, NEW id, NEW k \in 0..(MaxHops - 1)
    PROVE  Hops(es, Redirect(es, id))[k] = Hops(es, id)[k + 1]
<1> DEFINE next == Redirect(es, id)
<1> DEFINE Bad == {m \in 0..(MaxHops - 1) : Hops(es, next)[m] # Hops(es, id)[m + 1]}
<1>1. SUFFICES ASSUME Bad # {} PROVE FALSE
  OBVIOUS
<1>2. MaxHops \in Nat /\ Bad \in SUBSET Nat
  BY HopFacts
<1>3. PICK m \in Bad : \A x \in Bad : m <= x
  <2> HIDE DEF Bad
  <2> QED BY <1>1, <1>2, LeastNumber
<1>4. m \in 0..(MaxHops - 1) /\ Hops(es, next)[m] # Hops(es, id)[m + 1]
  BY <1>3
<1> HIDE DEF Bad, next
<1>5. m # 0
  <2>1. 1 \in 1..MaxHops
    BY <1>2, <1>4
  <2>2. Hops(es, id)[1] = next
    BY <2>1, HopFacts DEF next
  <2> QED BY <2>2, <1>4, HopFacts
<1>6. /\ m \in 1..MaxHops /\ m + 1 \in 1..MaxHops /\ (m + 1) - 1 = m
      /\ m - 1 \in 0..(MaxHops - 1) /\ (m - 1) + 1 = m /\ ~(m <= m - 1)
  BY <1>2, <1>4, <1>5
<1>7. Hops(es, next)[m - 1] = Hops(es, id)[m]
  <2>1. m - 1 \notin Bad
    BY <1>3, <1>6
  <2> QED BY <2>1, <1>6 DEF Bad
<1>8. Hops(es, next)[m] = Redirect(es, Hops(es, next)[m - 1])
  BY <1>6, HopFacts
<1>9. Hops(es, id)[m + 1] = Redirect(es, Hops(es, id)[m])
  BY <1>6, HopFacts
<1> QED BY <1>4, <1>7, <1>8, <1>9

(* A chain stays in the space it started in.                               *)
LEMMA ChainKeepsSpace ==
    ASSUME NEW es, NEW id, NEW k \in 0..MaxHops, Hops(es, id)[k] \in DOMAIN es,
           None \notin DOMAIN es
    PROVE  es[Hops(es, id)[k]].space = es[id].space
<1> DEFINE Bad == {m \in 0..MaxHops : /\ Hops(es, id)[m] \in DOMAIN es
                                       /\ es[Hops(es, id)[m]].space # es[id].space}
<1>1. SUFFICES ASSUME Bad # {} PROVE FALSE
  OBVIOUS
<1>2. MaxHops \in Nat /\ Bad \in SUBSET Nat
  BY HopFacts
<1>3. PICK m \in Bad : \A x \in Bad : m <= x
  <2> HIDE DEF Bad
  <2> QED BY <1>1, <1>2, LeastNumber
<1>4. /\ m \in 0..MaxHops /\ Hops(es, id)[m] \in DOMAIN es
      /\ es[Hops(es, id)[m]].space # es[id].space
  BY <1>3
<1> HIDE DEF Bad
<1>5. m # 0
  BY <1>4, HopFacts
<1>6. m \in 1..MaxHops /\ m - 1 \in 0..MaxHops /\ ~(m <= m - 1)
  BY <1>2, <1>4, <1>5
<1>7. Hops(es, id)[m] = Redirect(es, Hops(es, id)[m - 1])
  BY <1>6, HopFacts
<1>8. /\ Hops(es, id)[m - 1] \in DOMAIN es
      /\ es[Hops(es, id)[m]].space = es[Hops(es, id)[m - 1]].space
  BY <1>4, <1>7, RedirectFacts
<1>9. m - 1 \notin Bad
  BY <1>3, <1>6
<1> QED BY <1>4, <1>6, <1>8, <1>9 DEF Bad

(* A redirect that is followed is safe.                                    *)
LEMMA RedirectIsSafe ==
    ASSUME NEW es, None \notin DOMAIN es, NEW id \in DOMAIN es, CanonicalID(es, id) # id
    PROVE  LET c == CanonicalID(es, id)
           IN  /\ c \in DOMAIN es /\ es[c].duplicateOf = None
               /\ es[c].space = es[id].space
               /\ CanonicalID(es, c) = c
               /\ CanonicalID(es, es[id].duplicateOf) = c
<1> DEFINE c == CanonicalID(es, id)
<1>1. PICK hop \in 0..(MaxHops - 1) : IsEnd(es, Hops(es, id)[hop]) /\ c = Hops(es, id)[hop]
  BY CanonicalCases
<1> HIDE DEF c
<1>2. hop # 0
  BY <1>1, HopFacts DEF c
<1>3. /\ MaxHops \in Nat /\ hop \in 0..MaxHops /\ hop - 1 \in 0..(MaxHops - 1) /\ (hop - 1) + 1 = hop
      /\ 0 \in 0..(MaxHops - 1) /\ 1 \in 0..MaxHops /\ 1 \in 1..MaxHops /\ hop \in 1..MaxHops
  BY <1>1, <1>2, HopFacts
<1>4. IsEnd(es, c)
  BY <1>1
<1>5. c \in DOMAIN es /\ es[c].duplicateOf = None
  BY <1>4 DEF IsEnd
<1>6. es[c].space = es[id].space
  BY <1>1, <1>3, <1>5, ChainKeepsSpace
<1>7. CanonicalID(es, c) = c
  <2>1. Hops(es, c)[0] = c
    BY HopFacts
  <2> QED BY <2>1, <1>3, <1>4, ReadsAsItsEnd
<1>8. Redirect(es, id) = es[id].duplicateOf
  <2>1. Redirect(es, id) # None
    <3>1. Hops(es, id)[1] = Redirect(es, id)
      BY <1>3, HopFacts
    <3>2. ASSUME Hops(es, id)[1] = None PROVE FALSE
      <4>1. Hops(es, id)[hop] = None
        BY <3>2, <1>3, BrokenStaysBroken
      <4> QED BY <4>1, <1>1, <1>5
    <3> QED BY <3>1, <3>2
  <2> QED BY <2>1, RedirectFacts
<1>9. CanonicalID(es, Redirect(es, id)) = c
  <2>1. Hops(es, Redirect(es, id))[hop - 1] = c
    BY <1>1, <1>3, ShiftedHops
  <2> QED BY <2>1, <1>3, <1>4, ReadsAsItsEnd
<1> QED BY <1>5, <1>6, <1>7, <1>8, <1>9 DEF c

-----------------------------------------------------------------------------
(* What a write leaves of the records.                                     *)

Records == {es \in UNION {[D -> Entity] : D \in SUBSET IDs} : IsFiniteSet(DOMAIN es)}

LEMMA RecordsAre ==
    ASSUME NEW es
    PROVE  es \in Records <=> /\ DOMAIN es \subseteq IDs /\ IsFiniteSet(DOMAIN es)
                              /\ es \in [DOMAIN es -> Entity]
BY DEF Records

LEMMA UpsertIDIsAnID ==
    ASSUME NEW es, NEW in \in EntityInput
    PROVE  UpsertID(es, in) \in IDs
<1>1. in.key \in Words /\ in.name \in Words /\ in.namespace \in Words /\ in.type \in Words
  BY DEF EntityInput
<1>2. in.id # None => in.id \in IDs
  BY DEF EntityInput
<1>3. IdentityWord(in) \in Words
  BY <1>1 DEF IdentityWord
<1>4. <<in.namespace, in.type, IdentityWord(in)>> \in Words \X Words \X Words
  BY <1>1, <1>3
<1>5. Derived(in) \in IDs /\ Legacy(in) \in IDs
  <2>1. \A map \in [Words \X Words \X Words -> IDs] :
            map[<<in.namespace, in.type, IdentityWord(in)>>] \in IDs
    BY <1>4
  <2>2. /\ Derived(in) = DerivedID[<<in.namespace, in.type, IdentityWord(in)>>]
        /\ Legacy(in) = LegacyID[<<in.namespace, in.type, IdentityWord(in)>>]
    BY DEF Derived, Legacy
  <2> QED BY <2>1, <2>2, InputAssumption
<1> QED BY <1>2, <1>5 DEF UpsertID

LEMMA CreatedIsAnEntity ==
    ASSUME NEW in \in EntityInput
    PROVE  Created(in) \in Entity
BY DEF EntityInput, Created, Entity

LEMMA EntityExcept ==
    ASSUME NEW e \in Entity, NEW a, NEW b, NEW c, NEW d, NEW k, NEW m, NEW l
    PROVE  [e EXCEPT !.namespace = a, !.type = b, !.name = c, !.aliases = d, !.key = k,
                     !.duplicateOf = m, !.logged = l]
           = [space |-> e.space, namespace |-> a, type |-> b, name |-> c, aliases |-> d, key |-> k,
              duplicateOf |-> m, logged |-> l]
<1> DEFINE n == [e EXCEPT !.namespace = a, !.type = b, !.name = c, !.aliases = d, !.key = k,
                     !.duplicateOf = m, !.logged = l]
<1> DEFINE r == [space |-> e.space, namespace |-> a, type |-> b, name |-> c, aliases |-> d, key |-> k,
              duplicateOf |-> m, logged |-> l]
<1>1. DOMAIN n = DOMAIN e /\ DOMAIN e = DOMAIN r
  BY DEF Entity
<1>2. n.namespace = a /\ n.type = b /\ n.name = c /\ n.aliases = d /\ n.key = k /\ n.duplicateOf = m
      /\ n.logged = l /\ n.space = e.space
  BY DEF Entity
<1>3. DOMAIN r = {"space", "namespace", "type", "name", "aliases", "key", "duplicateOf", "logged"}
  OBVIOUS
<1>4. r.namespace = a /\ r.type = b /\ r.name = c /\ r.aliases = d /\ r.key = k /\ r.duplicateOf = m
      /\ r.logged = l /\ r.space = e.space
  OBVIOUS
<1>5. n = [x \in DOMAIN n |-> n[x]] /\ r = [x \in DOMAIN r |-> r[x]]
  BY DEF Entity
<1> HIDE DEF n, r
<1>6. \A x \in DOMAIN r : n[x] = r[x]
  BY <1>2, <1>3, <1>4
<1> QED BY <1>1, <1>5, <1>6 DEF n, r

LEMMA UpdatedFields ==
    ASSUME NEW e \in Entity, NEW in \in EntityInput
    PROVE  Updated(e, in) =
             [space |-> e.space,
              namespace |-> IF e.namespace # Blank THEN e.namespace ELSE in.namespace,
              type |-> IF e.type # Blank THEN e.type ELSE in.type,
              name |-> in.name,
              aliases |-> e.aliases \cup in.aliases,
              key |-> IF in.key # Blank THEN in.key ELSE e.key,
              duplicateOf |-> IF in.duplicateOf # None THEN in.duplicateOf ELSE e.duplicateOf,
              logged |-> TRUE]
<1> DEFINE namespace == IF e.namespace # Blank THEN e.namespace ELSE in.namespace
<1> DEFINE type == IF e.type # Blank THEN e.type ELSE in.type
<1> DEFINE aliases == e.aliases \cup in.aliases
<1> DEFINE key == IF in.key # Blank THEN in.key ELSE e.key
<1> DEFINE mark == IF in.duplicateOf # None THEN in.duplicateOf ELSE e.duplicateOf
<1> DEFINE name == in.name
<1>1. Updated(e, in) = [e EXCEPT !.namespace = namespace, !.type = type, !.name = name,
                          !.aliases = aliases, !.key = key, !.duplicateOf = mark, !.logged = TRUE]
  BY Zenon DEF Updated
<1> HIDE DEF namespace, type, aliases, key, mark, name
<1>2. Updated(e, in) = [space |-> e.space, namespace |-> namespace, type |-> type, name |-> name,
                        aliases |-> aliases, key |-> key, duplicateOf |-> mark, logged |-> TRUE]
  BY <1>1, EntityExcept
<1> QED BY <1>2, Zenon DEF namespace, type, aliases, key, mark, name

LEMMA UpdatedIsAnEntity ==
    ASSUME NEW e \in Entity, NEW in \in EntityInput
    PROVE  Updated(e, in) \in Entity
<1>1. /\ e.space \in STRING /\ e.namespace \in Words /\ e.type \in Words
      /\ e.aliases \in SUBSET Words /\ e.key \in Words /\ e.duplicateOf \in IDs \cup {None, Blank}
  BY DEF Entity
<1>2. /\ in.namespace \in Words /\ in.type \in Words /\ in.name \in Words
      /\ in.aliases \in SUBSET Words /\ in.key \in Words /\ in.duplicateOf \in IDs \cup {None, Blank}
  BY DEF EntityInput
<1> DEFINE namespace == IF e.namespace # Blank THEN e.namespace ELSE in.namespace
<1> DEFINE type == IF e.type # Blank THEN e.type ELSE in.type
<1> DEFINE aliases == e.aliases \cup in.aliases
<1> DEFINE key == IF in.key # Blank THEN in.key ELSE e.key
<1> DEFINE mark == IF in.duplicateOf # None THEN in.duplicateOf ELSE e.duplicateOf
<1>3. /\ namespace \in Words /\ type \in Words /\ aliases \in SUBSET Words /\ key \in Words
      /\ mark \in IDs \cup {None, Blank}
  BY <1>1, <1>2
<1> DEFINE space == e.space
<1> DEFINE name == in.name
<1> DEFINE updated == [space |-> space, namespace |-> namespace, type |-> type, name |-> name,
                       aliases |-> aliases, key |-> key, duplicateOf |-> mark, logged |-> TRUE]
<1> DEFINE T == [space : STRING, namespace : Words, type : Words, name : Words,
                 aliases : SUBSET Words, key : Words, duplicateOf : IDs \cup {None, Blank},
                 logged : BOOLEAN]
<1>4. Updated(e, in) = updated
  BY UpdatedFields
<1> HIDE DEF namespace, type, aliases, key, mark
<1>5. space \in STRING /\ TRUE \in BOOLEAN /\ name \in Words
  BY <1>1, <1>2
<1>6. updated = [space |-> space, namespace |-> namespace, type |-> type, name |-> name,
                 aliases |-> aliases, key |-> key, duplicateOf |-> mark, logged |-> TRUE]
  OBVIOUS
<1> HIDE DEF space, name, updated, T
<1>7. updated \in T
  BY <1>3, <1>5, <1>6 DEF T
<1> QED BY <1>4, <1>7 DEF updated, T, Entity, space, name

LEMMA UpsertedRecords ==
    ASSUME NEW es \in Records, NEW in \in EntityInput
    PROVE  /\ Upserted(es, in) \in Records
           /\ DOMAIN Upserted(es, in) = DOMAIN es \cup {UpsertID(es, in)}
           /\ \A x \in DOMAIN es : x # UpsertID(es, in) => Upserted(es, in)[x] = es[x]
           /\ Upserted(es, in)[UpsertID(es, in)] =
                IF UpsertID(es, in) \in DOMAIN es THEN Updated(es[UpsertID(es, in)], in) ELSE Created(in)
<1> DEFINE id == UpsertID(es, in)
<1> DEFINE record == IF id \in DOMAIN es THEN Updated(es[id], in) ELSE Created(in)
<1>1. id \in IDs
  BY UpsertIDIsAnID
<1>2. record \in Entity
  <2> HIDE DEF id
  <2>1. id \in DOMAIN es => es[id] \in Entity
    BY RecordsAre
  <2>2. id \in DOMAIN es => Updated(es[id], in) \in Entity
    BY <2>1, UpdatedIsAnEntity
  <2> QED BY <2>2, CreatedIsAnEntity
<1>3. Upserted(es, in) = Put(es, id, record)
  BY DEF Upserted
<1> HIDE DEF id, record
<1>4. Put(es, id, record) = [x \in DOMAIN es \cup {id} |-> IF x = id THEN record ELSE es[x]]
  BY DEF Put
<1>5. Put(es, id, record) \in [DOMAIN es \cup {id} -> Entity]
  BY <1>2, <1>4, RecordsAre
<1>6. DOMAIN es \cup {id} \subseteq IDs /\ IsFiniteSet(DOMAIN es \cup {id})
  BY <1>1, RecordsAre, FS_AddElement
<1>7. Put(es, id, record) \in Records
  BY <1>4, <1>5, <1>6, RecordsAre
<1> QED BY <1>3, <1>4, <1>7 DEF id, record

(* A merge writes its participants back: it marks the sources and leaves   *)
(* of every entity what identifies it.                                     *)
LEMMA ReadBackIsAnInput ==
    ASSUME NEW es \in Records, NEW id \in DOMAIN es, NEW d \in IDs \cup {None, Blank},
           NEW aliases \in SUBSET Words
    PROVE  [id |-> id, space |-> es[id].space, namespace |-> es[id].namespace,
            type |-> es[id].type, name |-> es[id].name, aliases |-> aliases, key |-> Blank,
            duplicateOf |-> d, carriesLog |-> es[id].logged] \in EntityInput
<1>1. es[id] \in Entity /\ id \in IDs /\ Blank \in Words
  BY RecordsAre, InputAssumption
<1>2. /\ es[id].space \in STRING /\ es[id].namespace \in Words /\ es[id].type \in Words
      /\ es[id].name \in Words /\ es[id].logged \in BOOLEAN
  BY <1>1 DEF Entity
<1> QED BY <1>1, <1>2 DEF EntityInput

LEMMA MarkedByFacts ==
    ASSUME NEW es \in Records, NEW target \in DOMAIN es, NEW sources \in SUBSET DOMAIN es,
           target \notin sources, NEW aliases \in SUBSET Words
    PROVE  LET new == MarkedBy(es, target, sources, aliases) IN
           /\ new \in Records /\ DOMAIN new = DOMAIN es
           /\ \A id \in DOMAIN es :
                /\ new[id].space = es[id].space /\ new[id].namespace = es[id].namespace
                /\ new[id].type = es[id].type /\ new[id].name = es[id].name
                /\ new[id].key = es[id].key
                /\ new[id].duplicateOf = IF id \in sources THEN target ELSE es[id].duplicateOf
<1> DEFINE new == MarkedBy(es, target, sources, aliases)
<1>1. DOMAIN new = DOMAIN es
  BY DEF MarkedBy
<1>2. ASSUME NEW id \in DOMAIN es
      PROVE  /\ id \in sources => new[id] = Updated(es[id], MarkInput(es, id, target))
             /\ id \notin sources /\ id = target =>
                   new[id] = Updated(es[id], [ReadBack(es, id) EXCEPT !.aliases = aliases])
             /\ id \notin sources /\ id # target => new[id] = es[id]
  <2> DEFINE a == Updated(es[id], MarkInput(es, id, target))
  <2> DEFINE b == Updated(es[id], [ReadBack(es, id) EXCEPT !.aliases = aliases])
  <2>1. new[id] = CASE id \in sources -> a [] id = target -> b [] OTHER -> es[id]
    BY DEF MarkedBy
  <2> HIDE DEF a, b, new
  <2> QED BY <2>1 DEF a, b
<1>3. ASSUME NEW id \in DOMAIN es
      PROVE  /\ new[id] \in Entity
             /\ new[id].space = es[id].space /\ new[id].namespace = es[id].namespace
             /\ new[id].type = es[id].type /\ new[id].name = es[id].name
             /\ new[id].key = es[id].key
             /\ new[id].duplicateOf = IF id \in sources THEN target ELSE es[id].duplicateOf
  <2>1. es[id] \in Entity /\ target \in IDs /\ target # None
    BY RecordsAre, InputAssumption
  <2>2. CASE id \in sources
    <3> DEFINE in == MarkInput(es, id, target)
    <3> DEFINE row == [id |-> id, space |-> es[id].space, namespace |-> es[id].namespace,
                       type |-> es[id].type, name |-> es[id].name, aliases |-> es[id].aliases,
                       key |-> Blank, duplicateOf |-> target, carriesLog |-> es[id].logged]
    <3>1. in = row
      BY DEF MarkInput, ReadBack
    <3>2. row \in EntityInput
      <4>1. es[id].aliases \in SUBSET Words
        BY <2>1 DEF Entity
      <4> HIDE DEF in
      <4> QED BY <2>1, <4>1, ReadBackIsAnInput
    <3>3. /\ in \in EntityInput
          /\ in.namespace = es[id].namespace /\ in.type = es[id].type /\ in.name = es[id].name
          /\ in.key = Blank /\ in.duplicateOf = target
      <4> HIDE DEF in
      <4> QED BY <3>1, <3>2
    <3>4. new[id] = Updated(es[id], in)
      BY <2>2, <1>2
    <3> HIDE DEF in, new
    <3>5. Updated(es[id], in) \in Entity
      BY <2>1, <3>3, UpdatedIsAnEntity
    <3> QED BY <2>1, <2>2, <3>3, <3>4, <3>5, UpdatedFields
  <2>3. CASE id \notin sources /\ id = target
    <3> DEFINE in == [ReadBack(es, id) EXCEPT !.aliases = aliases]
    <3> DEFINE row == [id |-> id, space |-> es[id].space, namespace |-> es[id].namespace,
                       type |-> es[id].type, name |-> es[id].name, aliases |-> aliases,
                       key |-> Blank, duplicateOf |-> es[id].duplicateOf, carriesLog |-> es[id].logged]
    <3>1. in = row
      BY DEF ReadBack
    <3>2. row \in EntityInput
      <4>1. es[id].duplicateOf \in IDs \cup {None, Blank}
        BY <2>1 DEF Entity
      <4> HIDE DEF in
      <4> QED BY <4>1, ReadBackIsAnInput
    <3>3. /\ in \in EntityInput
          /\ in.namespace = es[id].namespace /\ in.type = es[id].type /\ in.name = es[id].name
          /\ in.key = Blank /\ in.duplicateOf = es[id].duplicateOf
      <4> HIDE DEF in
      <4> QED BY <3>1, <3>2
    <3>4. new[id] = Updated(es[id], in)
      BY <2>3, <1>2
    <3> HIDE DEF in, new
    <3>5. Updated(es[id], in) \in Entity
      BY <2>1, <3>3, UpdatedIsAnEntity
    <3> QED BY <2>1, <2>3, <3>3, <3>4, <3>5, UpdatedFields
  <2>4. CASE id \notin sources /\ id # target
    BY <2>1, <2>4, <1>2
  <2> QED BY <2>2, <2>3, <2>4
<1>4. new \in [DOMAIN es -> Entity]
  BY <1>1, <1>3 DEF MarkedBy
<1>5. new \in Records
  BY <1>1, <1>4, RecordsAre
<1> QED BY <1>1, <1>3, <1>5

-----------------------------------------------------------------------------
(* The plan of a compaction.                                               *)

LEMMA SameIdentityFields ==
    ASSUME NEW e, NEW f
    PROVE  SameIdentity(e, f) <=> /\ e.space = f.space /\ e.namespace = f.namespace
                                  /\ e.type = f.type /\ e.name = f.name /\ e.key = f.key
BY DEF SameIdentity

LEMMA UnmarkedIsFinite ==
    ASSUME NEW es \in Records, NEW S \in SUBSET Unmarked(es)
    PROVE  IsFiniteSet(S) /\ S \in SUBSET Nat /\ S \subseteq DOMAIN es
BY RecordsAre, FS_Subset, InputAssumption DEF Unmarked

(* The candidates are classes: an entity of one has that class for its     *)
(* own.                                                                    *)
LEMMA GroupFacts ==
    ASSUME NEW es \in Records, NEW g \in EntityGroups(es)
    PROVE  /\ g \subseteq Unmarked(es) /\ g # {} /\ Cardinality(g) >= 2
           /\ \A x \in g : g = IdentityGroup(es, x)
           /\ \A x \in Unmarked(es) : x \notin g => IdentityGroup(es, x) \cap g = {}
<1>1. PICK id \in Unmarked(es) : g = IdentityGroup(es, id)
  BY DEF EntityGroups
<1>2. id \in g /\ g \subseteq Unmarked(es)
  BY <1>1, SameIdentityFields DEF IdentityGroup
<1>3. \A x \in g : g = IdentityGroup(es, x)
  BY <1>1, SameIdentityFields DEF IdentityGroup
<1>4. \A x \in Unmarked(es) : x \notin g => IdentityGroup(es, x) \cap g = {}
  BY <1>1, SameIdentityFields DEF IdentityGroup
<1>5. Cardinality(g) >= 2
  BY DEF EntityGroups
<1> QED BY <1>2, <1>3, <1>4, <1>5

(* Absorbing a candidate leaves the others as they are.                    *)
LEMMA AbsorbedGroup ==
    ASSUME NEW es \in Records, NEW g \in EntityGroups(es), NEW target \in g,
           NEW aliases \in SUBSET Words
    PROVE  LET new == MarkedBy(es, target, g \ {target}, aliases)
           IN  EntityGroups(new) = EntityGroups(es) \ {g}
<1> DEFINE sources == g \ {target}
<1> DEFINE new == MarkedBy(es, target, sources, aliases)
<1>1. /\ g \subseteq Unmarked(es) /\ Cardinality(g) >= 2
      /\ \A x \in g : g = IdentityGroup(es, x)
      /\ \A x \in Unmarked(es) : x \notin g => IdentityGroup(es, x) \cap g = {}
  BY GroupFacts
<1>2. target \in DOMAIN es /\ sources \in SUBSET DOMAIN es /\ target \notin sources
  BY <1>1 DEF Unmarked
<1>3. /\ new \in Records /\ DOMAIN new = DOMAIN es
      /\ \A id \in DOMAIN es :
           /\ new[id].space = es[id].space /\ new[id].namespace = es[id].namespace
           /\ new[id].type = es[id].type /\ new[id].name = es[id].name
           /\ new[id].key = es[id].key
           /\ new[id].duplicateOf = IF id \in sources THEN target ELSE es[id].duplicateOf
  <2> HIDE DEF sources
  <2> QED BY <1>2, MarkedByFacts
<1> HIDE DEF new
<1>4. Unmarked(new) = Unmarked(es) \ sources
  <2>1. target \notin {None, Blank}
    BY <1>2, RecordsAre, InputAssumption
  <2>2. \A id \in DOMAIN es : Marked(new[id]) <=> (id \in sources \/ Marked(es[id]))
    BY <1>3, <2>1 DEF Marked
  <2> QED BY <1>3, <2>2 DEF Unmarked
<1>5. \A x, y \in DOMAIN es : SameIdentity(new[x], new[y]) <=> SameIdentity(es[x], es[y])
  BY <1>3, SameIdentityFields
<1>6. \A x \in Unmarked(new) : IdentityGroup(new, x) = IdentityGroup(es, x) \ sources
  BY <1>4, <1>5 DEF IdentityGroup, Unmarked
<1>7. \A x \in Unmarked(new) : x \notin g => IdentityGroup(new, x) = IdentityGroup(es, x)
  BY <1>1, <1>4, <1>6
<1>8. target \in Unmarked(new) /\ IdentityGroup(new, target) = {target}
  BY <1>1, <1>4, <1>6
<1>9. Cardinality({target}) = 1
  BY FS_Singleton
<1>10. \A x \in Unmarked(new) : x \in g => x = target
  BY <1>4
<1>11. ASSUME NEW h \in EntityGroups(new) PROVE h \in EntityGroups(es) \ {g}
  <2>1. PICK x \in Unmarked(new) : h = IdentityGroup(new, x) /\ Cardinality(h) >= 2
    BY DEF EntityGroups
  <2>2. x \notin g
    BY <1>8, <1>9, <1>10, <2>1
  <2>3. h = IdentityGroup(es, x) /\ x \in Unmarked(es) /\ x \in h
    BY <1>4, <1>7, <2>1, <2>2, SameIdentityFields DEF IdentityGroup
  <2> QED BY <2>1, <2>2, <2>3 DEF EntityGroups
<1>12. ASSUME NEW h \in EntityGroups(es) \ {g} PROVE h \in EntityGroups(new)
  <2>1. PICK x \in Unmarked(es) : h = IdentityGroup(es, x) /\ Cardinality(h) >= 2
    BY DEF EntityGroups
  <2>2. x \notin g
    BY <1>1, <2>1, <1>12
  <2>3. x \in Unmarked(new)
    BY <1>4, <2>2
  <2>4. h = IdentityGroup(new, x)
    BY <1>7, <2>1, <2>2, <2>3
  <2> QED BY <2>1, <2>3, <2>4 DEF EntityGroups
<1> QED BY <1>11, <1>12 DEF new

(* What survives an active fact: the first of the copies in the            *)
(* documented order.                                                       *)
FactRecords == {fs \in UNION {[D -> Fact] : D \in SUBSET Nat} : IsFiniteSet(DOMAIN fs)}

LEMMA FactRecordsAre ==
    ASSUME NEW fs
    PROVE  fs \in FactRecords <=> /\ DOMAIN fs \subseteq Nat /\ IsFiniteSet(DOMAIN fs)
                                  /\ fs \in [DOMAIN fs -> Fact]
BY DEF FactRecords

Active(fs) == {f \in DOMAIN fs : fs[f].status = "active"}
Copies(fs, f) == {g \in Active(fs) : FactIdentity(fs[g]) = FactIdentity(fs[f])}
IsSurvivor(fs, f, g) ==
    g \in Copies(fs, f) /\ \A h \in Copies(fs, f) \ {g} : SurvivesBefore(fs, g, h)

LEMMA SurvivalIsAnOrder ==
    ASSUME NEW fs \in FactRecords, NEW f \in DOMAIN fs, NEW g \in DOMAIN fs, NEW h \in DOMAIN fs
    PROVE  /\ f # g => SurvivesBefore(fs, f, g) \/ SurvivesBefore(fs, g, f)
           /\ ~(SurvivesBefore(fs, f, g) /\ SurvivesBefore(fs, g, f))
           /\ SurvivesBefore(fs, f, g) /\ SurvivesBefore(fs, g, h) => SurvivesBefore(fs, f, h)
<1>1. /\ f \in Nat /\ g \in Nat /\ h \in Nat
      /\ fs[f] \in Fact /\ fs[g] \in Fact /\ fs[h] \in Fact
  BY FactRecordsAre
<1>2. /\ fs[f].confidence \in Nat /\ fs[g].confidence \in Nat /\ fs[h].confidence \in Nat
      /\ fs[f].observed \in Nat /\ fs[g].observed \in Nat /\ fs[h].observed \in Nat
  BY <1>1 DEF Fact
<1> QED BY <1>1, <1>2 DEF SurvivesBefore

LEMMA OneSurvivor ==
    ASSUME NEW fs \in FactRecords, NEW f \in Active(fs)
    PROVE  /\ \E g : IsSurvivor(fs, f, g)
           /\ \A g, h : IsSurvivor(fs, f, g) /\ IsSurvivor(fs, f, h) => g = h
<1> DEFINE U == DOMAIN fs
<1> DEFINE R == {p \in U \X U : SurvivesBefore(fs, p[1], p[2])}
<1>1. \A x, y : <<x, y>> \in R <=> x \in U /\ y \in U /\ SurvivesBefore(fs, x, y)
  OBVIOUS
<1>2. /\ \A x, y, z \in U : <<x, y>> \in R /\ <<y, z>> \in R => <<x, z>> \in R
      /\ \A x, y \in U : x # y => <<x, y>> \in R \/ <<y, x>> \in R
  BY <1>1, SurvivalIsAnOrder
<1>3. Copies(fs, f) \in SUBSET U /\ f \in Copies(fs, f) /\ IsFiniteSet(Copies(fs, f))
  BY FactRecordsAre, FS_Subset DEF Copies, Active
<1> HIDE DEF R, U
<1>4. \E x \in Copies(fs, f) : \A y \in Copies(fs, f) \ {x} : <<x, y>> \in R
  BY <1>2, <1>3, FirstOfAnOrder
<1>5. \E g : IsSurvivor(fs, f, g)
  BY <1>1, <1>4 DEF IsSurvivor
<1>6. ASSUME NEW g, NEW h, IsSurvivor(fs, f, g), IsSurvivor(fs, f, h) PROVE g = h
  BY <1>3, <1>6, SurvivalIsAnOrder DEF IsSurvivor, U
<1> QED BY <1>5, <1>6

LEMMA RetractionFacts ==
    ASSUME NEW fs \in FactRecords
    PROVE  /\ \A f, g : <<f, g>> \in FactRetractions(fs) <=>
                           f \in Active(fs) /\ IsSurvivor(fs, f, g) /\ g # f
           /\ \A r \in FactRetractions(fs) : r = <<r[1], r[2]>>
<1> DEFINE survivor(f) == CHOOSE g \in Copies(fs, f) : \A h \in Copies(fs, f) \ {g} : SurvivesBefore(fs, g, h)
<1>1. FactRetractions(fs) = {<<f, survivor(f)>> : f \in {g \in Active(fs) : survivor(g) # g}}
  BY DEF FactRetractions, Active, Copies
<1>2. ASSUME NEW f \in Active(fs) PROVE IsSurvivor(fs, f, survivor(f))
  <2>1. \E g \in Copies(fs, f) : \A h \in Copies(fs, f) \ {g} : SurvivesBefore(fs, g, h)
    BY OneSurvivor DEF IsSurvivor
  <2> QED BY <2>1 DEF IsSurvivor
<1>3. \A f \in Active(fs) : \A g : IsSurvivor(fs, f, g) <=> g = survivor(f)
  <2> HIDE DEF survivor
  <2> QED BY <1>2, OneSurvivor
<1> HIDE DEF survivor
<1> QED BY <1>1, <1>3

(* Retracting one duplicate leaves the others as they are.                 *)
Retracted(fs, f, g) == [fs EXCEPT ![f].status = "retracted", ![f].retractedFor = g]

LEMMA FactExcept ==
    ASSUME NEW e \in Fact, NEW a, NEW b
    PROVE  [e EXCEPT !.status = a, !.retractedFor = b] =
             [subject |-> e.subject, content |-> e.content, confidence |-> e.confidence,
              observed |-> e.observed, status |-> a, retractedFor |-> b]
<1> DEFINE n == [e EXCEPT !.status = a, !.retractedFor = b]
<1> DEFINE r == [subject |-> e.subject, content |-> e.content, confidence |-> e.confidence,
                 observed |-> e.observed, status |-> a, retractedFor |-> b]
<1>1. DOMAIN n = DOMAIN e /\ DOMAIN e = DOMAIN r
  BY DEF Fact
<1>2. /\ n.subject = e.subject /\ n.content = e.content /\ n.confidence = e.confidence
      /\ n.observed = e.observed /\ n.status = a /\ n.retractedFor = b
  BY DEF Fact
<1>3. DOMAIN r = {"subject", "content", "confidence", "observed", "status", "retractedFor"}
  OBVIOUS
<1>4. n = [x \in DOMAIN n |-> n[x]] /\ r = [x \in DOMAIN r |-> r[x]]
  BY DEF Fact
<1>5. /\ r.subject = e.subject /\ r.content = e.content /\ r.confidence = e.confidence
      /\ r.observed = e.observed /\ r.status = a /\ r.retractedFor = b
  OBVIOUS
<1> HIDE DEF n, r
<1>6. \A x \in DOMAIN r : n[x] = r[x]
  BY <1>2, <1>3, <1>5
<1> QED BY <1>1, <1>4, <1>6 DEF n, r

LEMMA RetractedFields ==
    ASSUME NEW fs \in FactRecords, NEW f \in DOMAIN fs, NEW g \in DOMAIN fs
    PROVE  LET new == Retracted(fs, f, g) IN
           /\ new \in FactRecords /\ DOMAIN new = DOMAIN fs
           /\ \A x \in DOMAIN fs :
                /\ new[x].subject = fs[x].subject /\ new[x].content = fs[x].content
                /\ new[x].confidence = fs[x].confidence /\ new[x].observed = fs[x].observed
                /\ new[x].status = IF x = f THEN "retracted" ELSE fs[x].status
                /\ new[x].retractedFor = IF x = f THEN g ELSE fs[x].retractedFor
<1> DEFINE new == Retracted(fs, f, g)
<1>1. \A x \in DOMAIN fs : fs[x] \in Fact
  BY FactRecordsAre
<1>2. f \in Nat /\ g \in Nat
  BY FactRecordsAre
<1>4. new = [fs EXCEPT ![f] = [fs[f] EXCEPT !.status = "retracted", !.retractedFor = g]]
  BY Zenon DEF Retracted
<1>5. [fs[f] EXCEPT !.status = "retracted", !.retractedFor = g] =
        [subject |-> fs[f].subject, content |-> fs[f].content, confidence |-> fs[f].confidence,
         observed |-> fs[f].observed, status |-> "retracted", retractedFor |-> g]
  BY <1>1, FactExcept
<1>6. /\ DOMAIN new = DOMAIN fs
      /\ new[f] = [subject |-> fs[f].subject, content |-> fs[f].content,
                   confidence |-> fs[f].confidence, observed |-> fs[f].observed,
                   status |-> "retracted", retractedFor |-> g]
      /\ \A x \in DOMAIN fs : x # f => new[x] = fs[x]
  <2> HIDE DEF new
  <2> QED BY <1>4, <1>5
<1> HIDE DEF new
<1>7. new[f] \in Fact
  BY <1>1, <1>2, <1>6 DEF Fact
<1>8. new = [x \in DOMAIN fs |-> new[x]]
  BY <1>4
<1>9. new \in FactRecords
  BY <1>1, <1>6, <1>7, <1>8, FactRecordsAre
<1> QED BY <1>6, <1>9 DEF new

LEMMA RetractedFact ==
    ASSUME NEW fs \in FactRecords, NEW f, NEW g, <<f, g>> \in FactRetractions(fs)
    PROVE  FactRetractions(Retracted(fs, f, g)) = FactRetractions(fs) \ {<<f, g>>}
<1> DEFINE new == Retracted(fs, f, g)
<1>1. f \in Active(fs) /\ IsSurvivor(fs, f, g) /\ g # f
  BY RetractionFacts
<1>2. g \in Copies(fs, f) /\ f \in DOMAIN fs /\ g \in DOMAIN fs
  BY <1>1 DEF IsSurvivor, Copies, Active
<1>3. /\ new \in FactRecords /\ DOMAIN new = DOMAIN fs
      /\ \A x \in DOMAIN fs :
           /\ new[x].subject = fs[x].subject /\ new[x].content = fs[x].content
           /\ new[x].confidence = fs[x].confidence /\ new[x].observed = fs[x].observed
           /\ new[x].status = IF x = f THEN "retracted" ELSE fs[x].status
  BY <1>2, RetractedFields
<1> HIDE DEF new
<1>4. Active(new) = Active(fs) \ {f}
  BY <1>3 DEF Active
<1>5. \A x \in DOMAIN fs : FactIdentity(new[x]) = FactIdentity(fs[x])
  BY <1>3 DEF FactIdentity
<1>6. \A x \in Active(new) : Copies(new, x) = Copies(fs, x) \ {f}
  BY <1>4, <1>5 DEF Copies, Active
<1>7. \A x, y \in DOMAIN fs : SurvivesBefore(new, x, y) <=> SurvivesBefore(fs, x, y)
  BY <1>3 DEF SurvivesBefore
<1>8. \A x \in Active(fs) : \A y \in Copies(fs, x) : Copies(fs, y) = Copies(fs, x) /\ y \in Active(fs)
  BY DEF Copies
<1>9. \A x \in Active(fs) : Copies(fs, x) \subseteq DOMAIN fs /\ x \in Copies(fs, x)
  BY DEF Copies, Active
<1>10. \A x \in Active(fs) : ~IsSurvivor(fs, x, f)
  <2>1. SUFFICES ASSUME NEW x \in Active(fs), IsSurvivor(fs, x, f) PROVE FALSE
    OBVIOUS
  <2>2. f \in Copies(fs, x)
    BY <2>1 DEF IsSurvivor
  <2>3. Copies(fs, f) = Copies(fs, x)
    BY <1>8, <2>2
  <2>4. IsSurvivor(fs, f, f)
    BY <2>1, <2>3 DEF IsSurvivor
  <2> QED BY <2>4, <1>1, OneSurvivor
<1>11. ASSUME NEW x \in Active(new), NEW y PROVE IsSurvivor(new, x, y) <=> IsSurvivor(fs, x, y)
  <2>1. x \in Active(fs) /\ Copies(new, x) = Copies(fs, x) \ {f} /\ Copies(fs, x) \subseteq DOMAIN fs
    BY <1>4, <1>6, <1>9
  <2>2. ASSUME IsSurvivor(fs, x, y) PROVE IsSurvivor(new, x, y)
    BY <1>7, <1>10, <2>1, <2>2 DEF IsSurvivor
  <2>3. ASSUME IsSurvivor(new, x, y) PROVE IsSurvivor(fs, x, y)
    <3>1. y \in Copies(fs, x) /\ \A h \in Copies(fs, x) \ {f, y} : SurvivesBefore(fs, y, h)
      BY <1>7, <2>1, <2>3 DEF IsSurvivor
    <3>2. ASSUME f \in Copies(fs, x), y # f PROVE SurvivesBefore(fs, y, f)
      <4>1. Copies(fs, x) = Copies(fs, f)
        BY <1>8, <2>1, <3>2
      <4>2. CASE y = g
        BY <1>1, <3>2, <4>1, <4>2, <1>9 DEF IsSurvivor
      <4>3. CASE y # g
        <5>1. SurvivesBefore(fs, y, g)
          BY <3>1, <4>1, <4>3, <1>1, <1>2
        <5>2. SurvivesBefore(fs, g, f)
          BY <1>1, <1>9 DEF IsSurvivor
        <5>3. y \in DOMAIN fs
          BY <3>1, <2>1
        <5> QED BY <5>1, <5>2, <5>3, <1>2, SurvivalIsAnOrder
      <4> QED BY <4>2, <4>3
    <3>3. y # f
      BY <2>1, <2>3 DEF IsSurvivor
    <3> QED BY <3>1, <3>2, <3>3 DEF IsSurvivor
  <2> QED BY <2>2, <2>3
<1>12. \A x, y : <<x, y>> \in FactRetractions(new) <=>
                   x \in Active(new) /\ IsSurvivor(new, x, y) /\ y # x
  BY <1>3, RetractionFacts
<1>13. \A x, y : <<x, y>> \in FactRetractions(fs) <=>
                   x \in Active(fs) /\ IsSurvivor(fs, x, y) /\ y # x
  BY RetractionFacts
<1>14. \A y : IsSurvivor(fs, f, y) => y = g
  BY <1>1, OneSurvivor
<1>15. \A x, y : <<x, y>> \in FactRetractions(new) <=>
                    <<x, y>> \in FactRetractions(fs) /\ <<x, y>> # <<f, g>>
  BY <1>4, <1>11, <1>12, <1>13, <1>14
<1>16. /\ \A r \in FactRetractions(fs) : r = <<r[1], r[2]>>
       /\ \A r \in FactRetractions(new) : r = <<r[1], r[2]>>
  BY <1>3, RetractionFacts
<1>17. \A r : r \in FactRetractions(new) <=> r \in FactRetractions(fs) \ {<<f, g>>}
  BY <1>15, <1>16
<1> QED BY <1>17 DEF new

-----------------------------------------------------------------------------
(* The inductive invariant.                                                *)

LEMMA TypeParts ==
    TypeOK <=> /\ clientele \in DOMAIN Clienteles
               /\ entities \in Records /\ facts \in FactRecords
               /\ DOMAIN window = {"phase", "groups", "retractions"}
               /\ window.phase \in {"closed", "entities", "finished"}
               /\ window.phase = "closed" => window = NoWindow
BY RecordsAre, FactRecordsAre DEF TypeOK

LEMMA TypePartsPrimed ==
    TypeOK' <=> /\ clientele' \in DOMAIN Clienteles
                /\ entities' \in Records /\ facts' \in FactRecords
                /\ DOMAIN window' = {"phase", "groups", "retractions"}
                /\ window'.phase \in {"closed", "entities", "finished"}
                /\ window'.phase = "closed" => window' = NoWindow
BY RecordsAre, FactRecordsAre DEF TypeOK

LEMMA NoWindowFields ==
    /\ NoWindow.phase = "closed" /\ NoWindow.groups = {} /\ NoWindow.retractions = {}
    /\ DOMAIN NoWindow = {"phase", "groups", "retractions"}
BY DEF NoWindow

(* What `fact assert' passes for a subject or an object it is to upsert.   *)
AutomaticInput ==
    {in \in EntityInput : /\ in.id = None /\ in.space = DefaultSpace
                          /\ in.aliases = {} /\ in.duplicateOf = None}

LEMMA CallersAsk ==
    ASSUME TypeOK
    PROVE  /\ \A in \in Callers.entities : in \in EntityInput
           /\ \A in \in Callers.automatic : in \in AutomaticInput
           /\ \A in \in Callers.facts : in \in FactInput
           /\ \A r \in Callers.merges : r[1] \in IDs /\ r[2] \subseteq IDs
<1>1. clientele \in DOMAIN Clienteles
  BY DEF TypeOK
<1>2. \A name \in DOMAIN Clienteles :
         /\ \A in \in Clienteles[name].entities : in \in EntityInput
         /\ \A in \in Clienteles[name].automatic : in \in AutomaticInput
         /\ Clienteles[name].facts \subseteq FactInput
         /\ \A r \in Clienteles[name].merges : r[1] \in IDs /\ r[2] \subseteq IDs
  BY InputAssumption DEF AutomaticInput
<1> QED BY <1>1, <1>2 DEF Callers

LEMMA NewFactRecords ==
    ASSUME NEW fs \in FactRecords, NEW in \in FactInput, NEW subject \in IDs, in.id \notin DOMAIN fs
    PROVE  LET new == Put(fs, in.id, NewFact(subject, in)) IN
           /\ new \in FactRecords /\ DOMAIN new = DOMAIN fs \cup {in.id}
           /\ \A f \in DOMAIN fs : new[f] = fs[f]
           /\ new[in.id] = NewFact(subject, in)
<1> DEFINE id == in.id
<1> DEFINE record == NewFact(subject, in)
<1> DEFINE new == Put(fs, id, record)
<1>1. id \in Nat /\ in.content \in STRING /\ in.confidence \in Nat /\ in.observed \in Nat
  BY DEF FactInput
<1>2. record \in Fact
  BY <1>1 DEF NewFact, Fact
<1> HIDE DEF record, id
<1>3. new = [x \in DOMAIN fs \cup {id} |-> IF x = id THEN record ELSE fs[x]]
  BY DEF Put
<1>4. new \in [DOMAIN fs \cup {id} -> Fact]
  BY <1>2, <1>3, FactRecordsAre
<1>5. DOMAIN fs \cup {id} \subseteq Nat /\ IsFiniteSet(DOMAIN fs \cup {id})
  BY <1>1, FactRecordsAre, FS_AddElement
<1>6. new \in FactRecords
  BY <1>3, <1>4, <1>5, FactRecordsAre
<1>7. id \notin DOMAIN fs
  BY DEF id
<1> QED BY <1>3, <1>6, <1>7 DEF record, id

RetractedByCaller(fs, f) == [fs EXCEPT ![f].status = "retracted"]

LEMMA CallerRetracted ==
    ASSUME NEW fs \in FactRecords, NEW f \in DOMAIN fs
    PROVE  LET new == RetractedByCaller(fs, f) IN
           /\ new \in FactRecords /\ DOMAIN new = DOMAIN fs
           /\ \A x \in DOMAIN fs :
                /\ new[x].subject = fs[x].subject /\ new[x].content = fs[x].content
                /\ new[x].confidence = fs[x].confidence /\ new[x].observed = fs[x].observed
                /\ new[x].retractedFor = fs[x].retractedFor
<1> DEFINE new == RetractedByCaller(fs, f)
<1>1. \A x \in DOMAIN fs : fs[x] \in Fact
  BY FactRecordsAre
<1>2. [fs[f] EXCEPT !.status = "retracted"] =
        [subject |-> fs[f].subject, content |-> fs[f].content, confidence |-> fs[f].confidence,
         observed |-> fs[f].observed, status |-> "retracted", retractedFor |-> fs[f].retractedFor]
  <2>1. \A e \in Fact : [e EXCEPT !.status = "retracted"] =
          [subject |-> e.subject, content |-> e.content, confidence |-> e.confidence,
           observed |-> e.observed, status |-> "retracted", retractedFor |-> e.retractedFor]
    BY DEF Fact
  <2> QED BY <1>1, <2>1
<1>3. /\ DOMAIN new = DOMAIN fs
      /\ new[f] = [fs[f] EXCEPT !.status = "retracted"]
      /\ \A x \in DOMAIN fs : x # f => new[x] = fs[x]
  BY DEF RetractedByCaller
<1>4. new = [x \in DOMAIN fs |-> new[x]]
  BY DEF RetractedByCaller
<1> HIDE DEF new
<1>5. new[f] \in Fact
  BY <1>1, <1>2, <1>3 DEF Fact
<1>6. new \in FactRecords
  BY <1>1, <1>3, <1>4, <1>5, FactRecordsAre
<1>7. /\ new[f].subject = fs[f].subject /\ new[f].content = fs[f].content
      /\ new[f].confidence = fs[f].confidence /\ new[f].observed = fs[f].observed
      /\ new[f].retractedFor = fs[f].retractedFor
  BY <1>2, <1>3
<1>8. \A x \in DOMAIN fs :
        /\ new[x].subject = fs[x].subject /\ new[x].content = fs[x].content
        /\ new[x].confidence = fs[x].confidence /\ new[x].observed = fs[x].observed
        /\ new[x].retractedFor = fs[x].retractedFor
  BY <1>3, <1>7
<1> QED BY <1>3, <1>6, <1>8 DEF new

(* What a compaction keeps of the facts it reads as one.                   *)
SurvivesOf(fs) ==
    \A f \in DOMAIN fs :
        fs[f].retractedFor # None =>
            /\ fs[f].retractedFor \in DOMAIN fs /\ SurvivesBefore(fs, fs[f].retractedFor, f)
            /\ FactIdentity(fs[fs[f].retractedFor]) = FactIdentity(fs[f])

LEMMA SurvivesParts ==
    /\ CompactionKeepsASurvivor <=> SurvivesOf(facts)
    /\ CompactionKeepsASurvivor' <=> SurvivesOf(facts')
BY DEF CompactionKeepsASurvivor, SurvivesOf, SurvivesBefore, Preferred

LEMMA SurvivesKept ==
    ASSUME NEW old, NEW new, DOMAIN old \subseteq DOMAIN new, SurvivesOf(old),
           \A x \in DOMAIN old :
                /\ new[x].subject = old[x].subject /\ new[x].content = old[x].content
                /\ new[x].confidence = old[x].confidence /\ new[x].observed = old[x].observed,
           \A x \in DOMAIN new :
              \/ x \in DOMAIN old /\ new[x].retractedFor = old[x].retractedFor
              \/ new[x].retractedFor = None
              \/ /\ x \in DOMAIN old /\ new[x].retractedFor \in DOMAIN old
                 /\ SurvivesBefore(old, new[x].retractedFor, x)
                 /\ FactIdentity(old[new[x].retractedFor]) = FactIdentity(old[x])
    PROVE  SurvivesOf(new)
<1> SUFFICES ASSUME NEW f \in DOMAIN new, new[f].retractedFor # None
             PROVE  /\ new[f].retractedFor \in DOMAIN new /\ SurvivesBefore(new, new[f].retractedFor, f)
                    /\ FactIdentity(new[new[f].retractedFor]) = FactIdentity(new[f])
  BY DEF SurvivesOf
<1>1. /\ f \in DOMAIN old /\ new[f].retractedFor \in DOMAIN old
      /\ SurvivesBefore(old, new[f].retractedFor, f)
      /\ FactIdentity(old[new[f].retractedFor]) = FactIdentity(old[f])
  BY DEF SurvivesOf
<1> QED BY <1>1 DEF SurvivesBefore, FactIdentity

(* A step that leaves the window closed and the facts alone.               *)
LEMMA IInvInit == Init => IInv
<1> SUFFICES ASSUME Init PROVE IInv
  OBVIOUS
<1>1. entities = [x \in {} |-> None] /\ facts = [x \in {} |-> None]
  BY DEF Init
<1>2. entities \in Records /\ facts \in FactRecords
  BY <1>1, FS_EmptySet, RecordsAre, FactRecordsAre
<1>3. TypeOK
  BY <1>2, TypeParts, NoWindowFields DEF Init
<1>4. PlanIsCurrent
  BY NoWindowFields DEF Init, PlanIsCurrent
<1>5. CompactionKeepsASurvivor
  BY <1>1 DEF CompactionKeepsASurvivor
<1> QED BY <1>3, <1>4, <1>5 DEF IInv

LEMMA ClosedKept ==
    ASSUME TypeOK, window = NoWindow, window' = window, clientele' = clientele,
           entities' \in Records, facts' \in FactRecords, SurvivesOf(facts')
    PROVE  IInv'
<1>1. TypeOK'
  BY TypePartsPrimed, TypeParts, NoWindowFields
<1>2. PlanIsCurrent'
  BY NoWindowFields DEF PlanIsCurrent
<1> QED BY <1>1, <1>2, SurvivesParts DEF IInv

LEMMA UpsertStep == IInv /\ UpsertEntity => IInv'
<1> SUFFICES ASSUME IInv, UpsertEntity PROVE IInv'
  OBVIOUS
<1>1. TypeOK /\ SurvivesOf(facts) /\ entities \in Records /\ facts \in FactRecords
  BY SurvivesParts, TypeParts DEF IInv
<1>2. PICK in \in Callers.entities : entities' = Upserted(entities, in)
  BY DEF UpsertEntity
<1>3. entities' \in Records
  BY <1>1, <1>2, CallersAsk, UpsertedRecords
<1>4. window = NoWindow /\ window' = window /\ clientele' = clientele /\ facts' = facts
  BY DEF UpsertEntity
<1> QED BY <1>1, <1>3, <1>4, ClosedKept

LEMMA AssertStep == IInv /\ AssertFact => IInv'
<1> SUFFICES ASSUME IInv, AssertFact PROVE IInv'
  OBVIOUS
<1>1. TypeOK /\ SurvivesOf(facts) /\ entities \in Records /\ facts \in FactRecords
  BY SurvivesParts, TypeParts DEF IInv
<1>2. PICK in \in Callers.facts : /\ in.id \notin DOMAIN facts /\ in.subject \in DOMAIN entities
                                  /\ facts' = Put(facts, in.id, NewFact(in.subject, in))
  BY DEF AssertFact
<1>3. in \in FactInput /\ in.subject \in IDs
  BY <1>1, <1>2, CallersAsk, RecordsAre
<1>4. /\ facts' \in FactRecords /\ DOMAIN facts' = DOMAIN facts \cup {in.id}
      /\ \A f \in DOMAIN facts : facts'[f] = facts[f]
      /\ facts'[in.id] = NewFact(in.subject, in)
  BY <1>1, <1>2, <1>3, NewFactRecords
<1>5. facts'[in.id].retractedFor = None
  BY <1>4 DEF NewFact
<1>6. SurvivesOf(facts')
  BY <1>1, <1>4, <1>5, SurvivesKept
<1>7. window = NoWindow /\ window' = window /\ clientele' = clientele /\ entities' = entities
  BY DEF AssertFact
<1> QED BY <1>1, <1>4, <1>6, <1>7, ClosedKept

LEMMA RetractStep == IInv /\ RetractFact => IInv'
<1> SUFFICES ASSUME IInv, RetractFact PROVE IInv'
  OBVIOUS
<1>1. TypeOK /\ SurvivesOf(facts) /\ entities \in Records /\ facts \in FactRecords
  BY SurvivesParts, TypeParts DEF IInv
<1>2. PICK f \in DOMAIN facts : facts' = RetractedByCaller(facts, f)
  BY DEF RetractFact, RetractedByCaller
<1>3. /\ facts' \in FactRecords /\ DOMAIN facts' = DOMAIN facts
      /\ \A x \in DOMAIN facts :
           /\ facts'[x].subject = facts[x].subject /\ facts'[x].content = facts[x].content
           /\ facts'[x].confidence = facts[x].confidence /\ facts'[x].observed = facts[x].observed
           /\ facts'[x].retractedFor = facts[x].retractedFor
  <2> DEFINE new == RetractedByCaller(facts, f)
  <2>1. /\ new \in FactRecords /\ DOMAIN new = DOMAIN facts
        /\ \A x \in DOMAIN facts :
             /\ new[x].subject = facts[x].subject /\ new[x].content = facts[x].content
             /\ new[x].confidence = facts[x].confidence /\ new[x].observed = facts[x].observed
             /\ new[x].retractedFor = facts[x].retractedFor
    BY <1>1, CallerRetracted
  <2> HIDE DEF new
  <2>2. facts' = new
    BY <1>2 DEF new
  <2> QED BY <2>1, <2>2
<1>4. SurvivesOf(facts')
  BY <1>1, <1>3, SurvivesKept
<1>5. window = NoWindow /\ window' = window /\ clientele' = clientele /\ entities' = entities
  BY DEF RetractFact
<1> QED BY <1>1, <1>3, <1>4, <1>5, ClosedKept

LEMMA AutomaticStep == IInv /\ AutomaticAssert => IInv'
<1> SUFFICES ASSUME IInv, AutomaticAssert PROVE IInv'
  OBVIOUS
<1>1. TypeOK /\ SurvivesOf(facts) /\ entities \in Records /\ facts \in FactRecords
  BY SurvivesParts, TypeParts DEF IInv
<1>2. PICK subject \in Callers.automatic, object \in Callers.automatic \cup {None}, in \in Callers.facts :
        /\ in.id \notin DOMAIN facts
        /\ entities' = IF object = None THEN Upserted(entities, subject)
                       ELSE Upserted(Upserted(entities, subject), object)
        /\ facts' = Put(facts, in.id, NewFact(Reference(entities, subject), in))
  BY DEF AutomaticAssert
<1>3. in \in FactInput /\ subject \in EntityInput /\ (object # None => object \in EntityInput)
  BY <1>1, <1>2, CallersAsk DEF AutomaticInput
<1>4. Reference(entities, subject) \in IDs
  BY <1>3, UpsertIDIsAnID DEF Reference
<1>5. /\ facts' \in FactRecords /\ DOMAIN facts' = DOMAIN facts \cup {in.id}
      /\ \A f \in DOMAIN facts : facts'[f] = facts[f]
      /\ facts'[in.id] = NewFact(Reference(entities, subject), in)
  BY <1>1, <1>2, <1>3, <1>4, NewFactRecords
<1>6. facts'[in.id].retractedFor = None
  BY <1>5 DEF NewFact
<1>7. SurvivesOf(facts')
  BY <1>1, <1>5, <1>6, SurvivesKept
<1>8. Upserted(entities, subject) \in Records
  BY <1>1, <1>3, UpsertedRecords
<1>9. entities' \in Records
  <2>1. CASE object = None
    BY <1>2, <1>8, <2>1
  <2>2. CASE object # None
    <3>1. object \in EntityInput
      BY <1>3, <2>2
    <3>2. Upserted(Upserted(entities, subject), object) \in Records
      BY <1>8, <3>1, UpsertedRecords
    <3> QED BY <1>2, <2>2, <3>2
  <2> QED BY <2>1, <2>2
<1>10. window = NoWindow /\ window' = window /\ clientele' = clientele
  BY DEF AutomaticAssert
<1> QED BY <1>1, <1>5, <1>7, <1>9, <1>10, ClosedKept

(* What a merge or a compaction is given to write.                         *)
LEMMA MergedAliasesAreWords ==
    ASSUME NEW es \in Records, NEW target \in DOMAIN es, NEW sources \in SUBSET DOMAIN es
    PROVE  /\ MergedAliases(es, target, sources) \in SUBSET Words
           /\ es[target].aliases \in SUBSET Words
<1>1. \A id \in DOMAIN es : es[id].aliases \in SUBSET Words /\ es[id].name \in Words
  BY RecordsAre DEF Entity
<1> QED BY <1>1 DEF MergedAliases

LEMMA MergeStep == IInv /\ MergeEntities => IInv'
<1> SUFFICES ASSUME IInv, MergeEntities PROVE IInv'
  OBVIOUS
<1>1. TypeOK /\ SurvivesOf(facts) /\ entities \in Records /\ facts \in FactRecords
  BY SurvivesParts, TypeParts DEF IInv
<1>2. PICK request \in Callers.merges :
        /\ request[2] \cup {request[1]} \subseteq DOMAIN entities
        /\ \A s \in request[2] : Mergeable(entities, request[1], s)
        /\ entities' = MarkedBy(entities, request[1], request[2],
                                MergedAliases(entities, request[1], request[2]))
  BY DEF MergeEntities
<1>3. request[1] \notin request[2]
  BY <1>2 DEF Mergeable
<1>4. entities' \in Records
  BY <1>1, <1>2, <1>3, MergedAliasesAreWords, MarkedByFacts
<1>5. window = NoWindow /\ window' = window /\ clientele' = clientele /\ facts' = facts
  BY DEF MergeEntities
<1> QED BY <1>1, <1>4, <1>5, ClosedKept

LEMMA BeginStep == IInv /\ BeginCompaction => IInv'
<1> SUFFICES ASSUME IInv, BeginCompaction PROVE IInv'
  OBVIOUS
<1>1. /\ window' = [phase |-> "entities", groups |-> EntityGroups(entities),
                    retractions |-> FactRetractions(facts)]
      /\ clientele' = clientele /\ entities' = entities /\ facts' = facts
  BY DEF BeginCompaction
<1>2. /\ DOMAIN window' = {"phase", "groups", "retractions"} /\ window'.phase = "entities"
      /\ window'.groups = EntityGroups(entities) /\ window'.retractions = FactRetractions(facts)
  BY <1>1
<1>3. TypeOK'
  BY <1>1, <1>2, TypeParts, TypePartsPrimed DEF IInv
<1>4. PlanIsCurrent'
  BY <1>1, <1>2 DEF PlanIsCurrent
<1> QED BY <1>1, <1>3, <1>4, SurvivesParts DEF IInv

(* The group compaction takes next, and the retraction.                    *)
LEMMA NextGroupIsPlanned ==
    ASSUME NEW es \in Records, window.groups = EntityGroups(es), window.groups # {}
    PROVE  NextGroup \in EntityGroups(es)
<1> DEFINE groups == EntityGroups(es)
<1> DEFINE lowest == {Lowest(g) : g \in groups}
<1>1. \A g \in groups : g \in SUBSET Nat /\ g # {}
  BY GroupFacts, UnmarkedIsFinite
<1>2. \A g \in groups : Lowest(g) \in Nat
  BY <1>1, LowestIsLeast
<1>3. lowest \in SUBSET Nat /\ lowest # {}
  BY <1>2
<1>4. PICK n \in lowest : \A m \in lowest : n <= m
  <2> HIDE DEF lowest
  <2> QED BY <1>3, LeastNumber
<1>5. \E g \in groups : \A h \in groups : Lowest(g) <= Lowest(h)
  BY <1>4
<1> QED BY <1>5 DEF NextGroup

LEMMA NextRetractionIsPlanned ==
    ASSUME NEW fs \in FactRecords, window.retractions = FactRetractions(fs), window.retractions # {}
    PROVE  NextRetraction \in FactRetractions(fs)
<1> DEFINE retractions == FactRetractions(fs)
<1>1. \A r \in retractions : r[1] \in Nat /\ r[2] \in Nat
  <2>1. \A r \in retractions : r[1] \in Active(fs) /\ IsSurvivor(fs, r[1], r[2])
    BY RetractionFacts
  <2>2. \A f, g : f \in Active(fs) /\ IsSurvivor(fs, f, g) => f \in DOMAIN fs /\ g \in DOMAIN fs
    BY DEF IsSurvivor, Copies, Active
  <2> QED BY <2>1, <2>2, FactRecordsAre
<1> DEFINE survivors == {r[2] : r \in retractions}
<1>2. survivors \in SUBSET Nat /\ survivors # {}
  BY <1>1
<1>3. PICK n \in survivors : \A m \in survivors : n <= m
  <2> HIDE DEF survivors
  <2> QED BY <1>2, LeastNumber
<1> DEFINE firsts == {r[1] : r \in {q \in retractions : q[2] = n}}
<1>4. firsts \in SUBSET Nat /\ firsts # {}
  BY <1>1, <1>3
<1>5. PICK k \in firsts : \A m \in firsts : k <= m
  <2> HIDE DEF firsts
  <2> QED BY <1>4, LeastNumber
<1>6. PICK r \in retractions : r[2] = n /\ r[1] = k
  BY <1>5
<1>7. n \in Nat /\ k \in Nat
  BY <1>2, <1>3, <1>4, <1>5
<1>8. \A q \in retractions : r[2] < q[2] \/ (r[2] = q[2] /\ r[1] <= q[1])
  <2>1. ASSUME NEW q \in retractions PROVE n < q[2] \/ (n = q[2] /\ k <= q[1])
    <3>1. n <= q[2] /\ q[2] \in Nat /\ q[1] \in Nat
      BY <1>1, <1>3
    <3>2. q[2] = n => k <= q[1]
      BY <1>5
    <3> QED BY <3>1, <3>2, <1>7
  <2> QED BY <2>1, <1>6
<1> QED BY <1>8 DEF NextRetraction

LEMMA CompactEntitiesStep == IInv /\ CompactEntities => IInv'
<1> SUFFICES ASSUME IInv, CompactEntities PROVE IInv'
  OBVIOUS
<1> DEFINE g == NextGroup
<1> DEFINE target == Lowest(g)
<1>1. TypeOK /\ SurvivesOf(facts) /\ entities \in Records /\ facts \in FactRecords /\ PlanIsCurrent
  BY SurvivesParts, TypeParts DEF IInv
<1>2. /\ window.phase = "entities" /\ window.groups # {}
      /\ entities' = MarkedBy(entities, target, g \ {target}, entities[target].aliases)
      /\ window' = [window EXCEPT !.groups = @ \ {g}]
      /\ clientele' = clientele /\ facts' = facts
  BY DEF CompactEntities
<1>3. window.groups = EntityGroups(entities) /\ window.retractions = FactRetractions(facts)
  BY <1>1, <1>2 DEF PlanIsCurrent
<1>4. g \in EntityGroups(entities)
  BY <1>1, <1>2, <1>3, NextGroupIsPlanned
<1>5. g \subseteq DOMAIN entities /\ target \in g
  BY <1>1, <1>4, GroupFacts, UnmarkedIsFinite, LowestIsLeast
<1> HIDE DEF target, g
<1>6. entities[target].aliases \in SUBSET Words
  BY <1>1, <1>5, MergedAliasesAreWords
<1>7. entities' \in Records
  BY <1>1, <1>2, <1>5, <1>6, MarkedByFacts
<1>8. EntityGroups(entities') = EntityGroups(entities) \ {g}
  BY <1>1, <1>2, <1>4, <1>5, <1>6, AbsorbedGroup
<1>9. /\ DOMAIN window' = {"phase", "groups", "retractions"} /\ window'.phase = "entities"
      /\ window'.groups = window.groups \ {g} /\ window'.retractions = window.retractions
  BY <1>1, <1>2, TypeParts
<1>10. TypeOK'
  BY <1>1, <1>2, <1>7, <1>9, TypeParts, TypePartsPrimed
<1>11. PlanIsCurrent'
  BY <1>2, <1>3, <1>8, <1>9 DEF PlanIsCurrent
<1> QED BY <1>1, <1>2, <1>10, <1>11, SurvivesParts DEF IInv

LEMMA CompactFactStep == IInv /\ CompactFact => IInv'
<1> SUFFICES ASSUME IInv, CompactFact PROVE IInv'
  OBVIOUS
<1> DEFINE r == NextRetraction
<1>1. TypeOK /\ SurvivesOf(facts) /\ entities \in Records /\ facts \in FactRecords /\ PlanIsCurrent
  BY SurvivesParts, TypeParts DEF IInv
<1>2. /\ window.phase = "entities" /\ window.groups = {} /\ window.retractions # {}
      /\ facts' = Retracted(facts, r[1], r[2])
      /\ window' = [window EXCEPT !.retractions = @ \ {r}]
      /\ clientele' = clientele /\ entities' = entities
  BY DEF CompactFact, Retracted
<1>3. window.groups = EntityGroups(entities) /\ window.retractions = FactRetractions(facts)
  BY <1>1, <1>2 DEF PlanIsCurrent
<1>4. r \in FactRetractions(facts)
  BY <1>1, <1>2, <1>3, NextRetractionIsPlanned
<1> HIDE DEF r
<1>5. r = <<r[1], r[2]>>
  BY <1>1, <1>4, RetractionFacts
<1> DEFINE f == r[1]
<1> DEFINE g == r[2]
<1>6. <<f, g>> \in FactRetractions(facts) /\ r = <<f, g>>
  BY <1>4, <1>5
<1> HIDE DEF f, g
<1>7. f \in Active(facts) /\ IsSurvivor(facts, f, g) /\ g # f
  BY <1>1, <1>6, RetractionFacts
<1>8. /\ f \in DOMAIN facts /\ g \in DOMAIN facts /\ f \in Copies(facts, f)
      /\ FactIdentity(facts[g]) = FactIdentity(facts[f])
  BY <1>7 DEF IsSurvivor, Copies, Active
<1>9. SurvivesBefore(facts, g, f)
  BY <1>7, <1>8 DEF IsSurvivor
<1>10. facts' = Retracted(facts, f, g)
  BY <1>2 DEF f, g
<1>11. FactRetractions(facts') = FactRetractions(facts) \ {r}
  BY <1>1, <1>6, <1>10, RetractedFact
<1>12. /\ facts' \in FactRecords /\ DOMAIN facts' = DOMAIN facts
       /\ \A x \in DOMAIN facts :
            /\ facts'[x].subject = facts[x].subject /\ facts'[x].content = facts[x].content
            /\ facts'[x].confidence = facts[x].confidence /\ facts'[x].observed = facts[x].observed
            /\ facts'[x].retractedFor = IF x = f THEN g ELSE facts[x].retractedFor
  <2> DEFINE new == Retracted(facts, f, g)
  <2>1. /\ new \in FactRecords /\ DOMAIN new = DOMAIN facts
        /\ \A x \in DOMAIN facts :
             /\ new[x].subject = facts[x].subject /\ new[x].content = facts[x].content
             /\ new[x].confidence = facts[x].confidence /\ new[x].observed = facts[x].observed
             /\ new[x].retractedFor = IF x = f THEN g ELSE facts[x].retractedFor
    BY <1>1, <1>8, RetractedFields
  <2> HIDE DEF new
  <2>2. facts' = new
    BY <1>10 DEF new
  <2> QED BY <2>1, <2>2
<1>13. SurvivesOf(facts')
  BY <1>1, <1>8, <1>9, <1>12, SurvivesKept
<1>14. /\ DOMAIN window' = {"phase", "groups", "retractions"} /\ window'.phase = "entities"
       /\ window'.groups = {} /\ window'.retractions = window.retractions \ {r}
  BY <1>1, <1>2, TypeParts
<1>15. TypeOK'
  BY <1>1, <1>2, <1>12, <1>14, TypeParts, TypePartsPrimed
<1>16. PlanIsCurrent'
  BY <1>2, <1>3, <1>11, <1>14 DEF PlanIsCurrent
<1> QED BY <1>13, <1>15, <1>16, SurvivesParts DEF IInv

LEMMA WindowStep == IInv /\ (CompactionRefused \/ EndCompaction \/ Report \/ CompactionStops) => IInv'
<1> SUFFICES ASSUME IInv, CompactionRefused \/ EndCompaction \/ Report \/ CompactionStops PROVE IInv'
  OBVIOUS
<1>1. TypeOK /\ SurvivesOf(facts) /\ PlanIsCurrent
  BY SurvivesParts DEF IInv
<1>2. clientele' = clientele /\ entities' = entities /\ facts' = facts
  BY DEF CompactionRefused, EndCompaction, Report, CompactionStops
<1>3. CASE window' = NoWindow
  <2>1. TypeOK'
    BY <1>1, <1>2, <1>3, TypeParts, TypePartsPrimed, NoWindowFields
  <2>2. PlanIsCurrent'
    BY <1>3, NoWindowFields DEF PlanIsCurrent
  <2> QED BY <1>1, <1>2, <2>1, <2>2, SurvivesParts DEF IInv
<1>4. CASE EndCompaction
  <2>1. /\ window.phase = "entities" /\ window.groups = {} /\ window.retractions = {}
        /\ window' = [window EXCEPT !.phase = "finished"]
    BY <1>4 DEF EndCompaction
  <2>2. /\ DOMAIN window' = {"phase", "groups", "retractions"} /\ window'.phase = "finished"
        /\ window'.groups = {} /\ window'.retractions = {}
    BY <1>1, <2>1, TypeParts
  <2>3. TypeOK'
    BY <1>1, <1>2, <2>2, TypeParts, TypePartsPrimed
  <2>4. PlanIsCurrent'
    BY <1>1, <1>2, <2>1, <2>2 DEF PlanIsCurrent
  <2> QED BY <1>1, <1>2, <2>3, <2>4, SurvivesParts DEF IInv
<1> QED BY <1>3, <1>4 DEF CompactionRefused, Report, CompactionStops

LEMMA IInvStutter == IInv /\ UNCHANGED vars => IInv'
BY DEF IInv, vars, TypeOK, PlanIsCurrent, CompactionKeepsASurvivor, Preferred

LEMMA IInvStep == IInv /\ [Next]_vars => IInv'
BY UpsertStep, AssertStep, RetractStep, AutomaticStep, MergeStep, BeginStep, CompactEntitiesStep,
   CompactFactStep, WindowStep, IInvStutter DEF Next

LEMMA InductiveInvariant == Spec => []IInv
BY IInvInit, IInvStep, PTL DEF Spec

-----------------------------------------------------------------------------
(* Every reachable database is well formed, and what a maintenance window  *)
(* has left to do is what planning it afresh would find.                   *)
THEOREM TypeCorrect == Spec => []TypeOK
<1>1. IInv => TypeOK
  BY DEF IInv
<1> QED BY InductiveInvariant, <1>1, PTL

(* Following the mark of a merged entity is safe whatever marks callers    *)
(* wrote (canonicalEntityIDAtLocked), for any number of entities and any   *)
(* bound on the hops.                                                      *)
THEOREM RedirectsAreSafe == Spec => []RedirectsEndInCanonicalEntities
<1>1. TypeOK => None \notin DOMAIN entities
  BY InputAssumption DEF TypeOK
<1>2. TypeOK => RedirectsEndInCanonicalEntities
  BY <1>1, RedirectIsSafe DEF RedirectsEndInCanonicalEntities
<1> QED BY TypeCorrect, <1>2, PTL

(* Compaction never loses a statement: what it retracted names a preferred *)
(* fact of the same identity, wherever the command stopped.                *)
THEOREM CompactionIsLossless == Spec => []CompactionKeepsASurvivor
<1>1. IInv => CompactionKeepsASurvivor
  BY DEF IInv
<1> QED BY InductiveInvariant, <1>1, PTL

LEMMA TwoOfAGroup ==
    ASSUME NEW es \in Records, EntityGroups(es) = {}, NEW x \in Unmarked(es), NEW y \in Unmarked(es),
           SameIdentity(es[x], es[y])
    PROVE  x = y
<1> DEFINE g == IdentityGroup(es, x)
<1>1. x \in g /\ y \in g /\ g \in SUBSET Unmarked(es)
  BY SameIdentityFields DEF IdentityGroup
<1>2. IsFiniteSet(g) /\ ~(Cardinality(g) >= 2)
  BY <1>1, UnmarkedIsFinite DEF EntityGroups
<1> HIDE DEF g
<1>3. Cardinality(g) \in Nat /\ Cardinality(g) # 0
  BY <1>1, <1>2, FS_CardinalityType, FS_EmptySet
<1>4. Cardinality(g) = 1
  BY <1>2, <1>3
<1>5. PICK z : g = {z}
  BY <1>2, <1>4, FS_Singleton
<1> QED BY <1>1, <1>5

(* A window that ran to its end leaves nothing to compact, whatever was    *)
(* stored when it opened.                                                  *)
THEOREM CompactionIsComplete == Spec => []FinishedCompactionLeavesNoDuplicates
<1>1. IInv => FinishedCompactionLeavesNoDuplicates
  <2> SUFFICES ASSUME IInv, window.phase = "finished" PROVE FinishedCompactionLeavesNoDuplicates
    BY DEF FinishedCompactionLeavesNoDuplicates
  <2>1. /\ entities \in Records /\ facts \in FactRecords
        /\ EntityGroups(entities) = {} /\ FactRetractions(facts) = {}
    BY TypeParts DEF IInv, PlanIsCurrent
  <2>2. ASSUME NEW id \in DOMAIN entities, NEW other \in DOMAIN entities, id # other,
               SameIdentity(entities[id], entities[other])
        PROVE  Marked(entities[id]) \/ Marked(entities[other])
    BY <2>1, <2>2, TwoOfAGroup DEF Unmarked
  <2>3. ASSUME NEW f \in DOMAIN facts, NEW g \in DOMAIN facts, f # g,
               facts[f].status = "active", facts[g].status = "active"
        PROVE  FactIdentity(facts[f]) # FactIdentity(facts[g])
    <3>1. SUFFICES ASSUME FactIdentity(facts[f]) = FactIdentity(facts[g]) PROVE FALSE
      OBVIOUS
    <3>2. f \in Active(facts) /\ g \in Active(facts) /\ Copies(facts, f) = Copies(facts, g)
      BY <2>3, <3>1 DEF Active, Copies
    <3>3. PICK s : IsSurvivor(facts, f, s)
      BY <2>1, <3>2, OneSurvivor
    <3>4. IsSurvivor(facts, g, s)
      BY <3>2, <3>3 DEF IsSurvivor
    <3>5. s = f /\ s = g
      BY <2>1, <3>2, <3>3, <3>4, RetractionFacts
    <3> QED BY <2>3, <3>5
  <2> QED BY <2>2, <2>3 DEF FinishedCompactionLeavesNoDuplicates
<1> QED BY InductiveInvariant, <1>1, PTL

-----------------------------------------------------------------------------
(* The candidates of `entity merge-preview'.                               *)

(* The values a function takes on a finite set: when there is exactly one, *)
(* any two of them are equal.                                              *)
OneValueBesides(b, f, S) == Cardinality({f[x] : x \in S} \ {b}) = 1
LEMMA OneValue ==
    ASSUME NEW S, IsFiniteSet(S), NEW f, NEW b, OneValueBesides(b, f, S)
    PROVE  \A x, y \in S : f[x] = b \/ f[y] = b \/ f[x] = f[y]
<1> DEFINE T == {f[x] : x \in S}
<1> DEFINE h == [x \in S |-> f[x]]
<1>1. h \in Surjection(S, T)
  BY DEF Surjection
<1>2. IsFiniteSet(T)
  <2> HIDE DEF h, T
  <2> QED BY <1>1, FS_Surjection
<1>3. IsFiniteSet(T \ {b})
  <2> HIDE DEF T
  <2> QED BY <1>2, FS_RemoveElement
<1>4. PICK v : T \ {b} = {v}
  <2>1. Cardinality(T \ {b}) = 1
    BY DEF OneValueBesides
  <2> HIDE DEF T
  <2> QED BY <1>3, <2>1, FS_Singleton
<1> QED BY <1>4

LEMMA DriftGroupIsAClass ==
    ASSUME NEW es, NEW id \in Unmarked(es)
    PROVE  /\ id \in DriftGroup(es, id) /\ DriftGroup(es, id) \subseteq Unmarked(es)
           /\ \A x \in DriftGroup(es, id) : DriftGroup(es, x) = DriftGroup(es, id)
BY DEF DriftGroup

LEMMA ScopeSubgroupIsAClass ==
    ASSUME NEW es, NEW id \in Unmarked(es)
    PROVE  /\ id \in ScopeSubgroup(es, id) /\ ScopeSubgroup(es, id) \subseteq DriftGroup(es, id)
           /\ \A x \in ScopeSubgroup(es, id) : ScopeSubgroup(es, x) = ScopeSubgroup(es, id)
BY DriftGroupIsAClass DEF ScopeSubgroup

LEMMA KeyBucketIsAClass ==
    ASSUME NEW es, NEW id \in Unmarked(es)
    PROVE  /\ id \in KeyBucket(es, id) /\ KeyBucket(es, id) \subseteq ScopeSubgroup(es, id)
           /\ \A x \in KeyBucket(es, id) : KeyBucket(es, x) = KeyBucket(es, id)
BY ScopeSubgroupIsAClass DEF KeyBucket

LEMMA ScopesOfASubgroup ==
    ASSUME NEW es \in Records, NEW id \in Unmarked(es),
           NEW x \in ScopeSubgroup(es, id), NEW y \in ScopeSubgroup(es, id)
    PROVE  Blank \in {es[x].namespace, es[y].namespace}
              \/ Fold[es[x].namespace] = Fold[es[y].namespace]
<1> DEFINE group == DriftGroup(es, id)
<1> DEFINE scope == [z \in group |-> Fold[es[z].namespace]]
<1>1. IsFiniteSet(group) /\ group \subseteq DOMAIN es /\ x \in group /\ y \in group
  BY DriftGroupIsAClass, ScopeSubgroupIsAClass, UnmarkedIsFinite
<1>2. {Fold[es[z].namespace] : z \in group} = {scope[z] : z \in group}
  OBVIOUS
<1>3. es[x].namespace \in Words /\ es[y].namespace \in Words
  BY <1>1, RecordsAre DEF Entity
<1>4. CASE OneValueBesides(Blank, scope, group)
  <2>1. scope[x] = Blank \/ scope[y] = Blank \/ scope[x] = scope[y]
    <3> HIDE DEF scope, group
    <3>1. \A a, c \in group : scope[a] = Blank \/ scope[c] = Blank \/ scope[a] = scope[c]
      BY <1>1, <1>4, OneValue
    <3> QED BY <1>1, <3>1
  <2> QED BY <2>1, <1>1, <1>3, InputAssumption
<1>5. CASE ~OneValueBesides(Blank, scope, group)
  BY <1>2, <1>5 DEF ScopeSubgroup, OneValueBesides
<1> QED BY <1>4, <1>5

LEMMA KeysOfABucket ==
    ASSUME NEW es \in Records, NEW id \in Unmarked(es),
           NEW x \in KeyBucket(es, id), NEW y \in KeyBucket(es, id)
    PROVE  Compatible(es[x].key, es[y].key)
<1> DEFINE group == ScopeSubgroup(es, id)
<1> DEFINE key == [z \in group |-> es[z].key]
<1>1. IsFiniteSet(group) /\ group \subseteq DOMAIN es /\ x \in group /\ y \in group
  <2>1. group \in SUBSET Unmarked(es)
    BY DriftGroupIsAClass, ScopeSubgroupIsAClass
  <2> QED BY <2>1, KeyBucketIsAClass, UnmarkedIsFinite
<1>2. {es[z].key : z \in group} = {key[z] : z \in group}
  OBVIOUS
<1>3. CASE OneValueBesides(Blank, key, group)
  <2>1. key[x] = Blank \/ key[y] = Blank \/ key[x] = key[y]
    <3> HIDE DEF key, group
    <3>1. \A a, c \in group : key[a] = Blank \/ key[c] = Blank \/ key[a] = key[c]
      BY <1>1, <1>3, OneValue
    <3> QED BY <1>1, <3>1
  <2> QED BY <2>1, <1>1 DEF Compatible
<1>4. CASE ~OneValueBesides(Blank, key, group)
  BY <1>2, <1>4 DEF KeyBucket, Compatible, OneValueBesides
<1> QED BY <1>3, <1>4

LEMMA BucketIsMergeable ==
    ASSUME NEW es \in Records, NEW id \in Unmarked(es),
           NEW t \in KeyBucket(es, id), NEW s \in KeyBucket(es, id), s # t
    PROVE  Mergeable(es, t, s)
<1>1. /\ s \in Unmarked(es) /\ t \in Unmarked(es)
      /\ s \in ScopeSubgroup(es, id) /\ t \in ScopeSubgroup(es, id)
      /\ s \in DriftGroup(es, id) /\ t \in DriftGroup(es, id)
  BY DriftGroupIsAClass, ScopeSubgroupIsAClass, KeyBucketIsAClass
<1>2. /\ es[s].space = es[t].space /\ Fold[es[s].type] = Fold[es[t].type]
      /\ Fold[es[s].name] = Fold[es[t].name] /\ ~Marked(es[s])
  BY <1>1 DEF DriftGroup, Unmarked
<1>3. Compatible(es[s].key, es[t].key)
  BY KeysOfABucket
<1>4. Blank \in {es[s].namespace, es[t].namespace} \/ Fold[es[s].namespace] = Fold[es[t].namespace]
  BY <1>1, ScopesOfASubgroup
<1>5. NamesOverlap(es[t], es[s])
  <2>1. Fold[es[s].name] \in DisplayNames(es[s]) \cap DisplayNames(es[t])
    BY <1>2 DEF DisplayNames
  <2> QED BY <2>1, <1>3 DEF NamesOverlap, Compatible
<1> QED BY <1>2, <1>3, <1>4, <1>5 DEF Mergeable

(* Every source a preview names passes the checks of `entity merge' into   *)
(* the target it names, whatever folding does to the words, and no entity  *)
(* is claimed by two candidates (merge.go against fact_cmd.go).            *)
THEOREM PreviewsCanBeMerged == Spec => []PreviewIsMergeable
<1>1. TypeOK => PreviewIsMergeable
  <2> SUFFICES ASSUME TypeOK, NEW g \in PreviewGroups(entities)
               PROVE  /\ \A s \in g \ {Lowest(g)} : Mergeable(entities, Lowest(g), s)
                      /\ \A s, t \in g : Compatible(entities[s].key, entities[t].key)
                      /\ \A h \in PreviewGroups(entities) : g # h => g \cap h = {}
    BY DEF PreviewIsMergeable
  <2>1. entities \in Records
    BY TypeParts
  <2>2. PICK id \in Unmarked(entities) : g = KeyBucket(entities, id)
    BY DEF PreviewGroups
  <2>3. id \in g /\ g \in SUBSET Unmarked(entities)
    BY <2>2, DriftGroupIsAClass, ScopeSubgroupIsAClass, KeyBucketIsAClass
  <2>4. g \in SUBSET Nat
    BY <2>1, <2>3, UnmarkedIsFinite
  <2>5. Lowest(g) \in g
    <3> HIDE DEF Lowest
    <3> QED BY <2>3, <2>4, LowestIsLeast
  <2>6. ASSUME NEW h \in PreviewGroups(entities), NEW x \in g \cap h PROVE g = h
    <3>1. PICK other \in Unmarked(entities) : h = KeyBucket(entities, other)
      BY DEF PreviewGroups
    <3> QED BY <2>2, <2>6, <3>1, KeyBucketIsAClass
  <2>7. \A s \in g \ {Lowest(g)} : Mergeable(entities, Lowest(g), s)
    BY <2>1, <2>2, <2>5, BucketIsMergeable
  <2>8. \A s, t \in g : Compatible(entities[s].key, entities[t].key)
    BY <2>1, <2>2, KeysOfABucket
  <2> QED BY <2>6, <2>7, <2>8
<1> QED BY TypeCorrect, <1>1, PTL

-----------------------------------------------------------------------------
(* `fact assert' with automatic upserts.                                   *)

(* What an automatic upsert leaves of the record it wrote to.              *)
LEMMA AutomaticUpsert ==
    ASSUME NEW es \in Records, NEW in \in AutomaticInput, UpsertAccepted(es, in)
    PROVE  LET id == UpsertID(es, in)
               new == Upserted(es, in)
           IN  /\ new \in Records /\ DOMAIN new = DOMAIN es \cup {id}
               /\ \A x \in DOMAIN es : x # id => new[x] = es[x]
               /\ new[id].namespace = in.namespace /\ new[id].type = in.type
               /\ new[id].name = in.name /\ new[id].key = in.key
               /\ new[id].space = DefaultSpace
               /\ id \in DOMAIN es =>
                    /\ es[id].namespace = in.namespace /\ es[id].type = in.type
                    /\ es[id].key = in.key /\ es[id].space = DefaultSpace
                    /\ in.key = Blank => es[id].name = in.name
                    /\ new[id].aliases = es[id].aliases
                    /\ new[id].duplicateOf = es[id].duplicateOf
               /\ id \notin DOMAIN es => new[id].aliases = {} /\ new[id].duplicateOf = None
<1> DEFINE id == UpsertID(es, in)
<1> DEFINE new == Upserted(es, in)
<1>1. in \in EntityInput /\ in.id = None /\ in.space = DefaultSpace /\ in.aliases = {} /\ in.duplicateOf = None
  BY DEF AutomaticInput
<1>2. /\ new \in Records /\ DOMAIN new = DOMAIN es \cup {id}
      /\ \A x \in DOMAIN es : x # id => new[x] = es[x]
      /\ new[id] = IF id \in DOMAIN es THEN Updated(es[id], in) ELSE Created(in)
  BY <1>1, UpsertedRecords
<1>3. id \in DOMAIN es => IdentityMatches(es[id], in) /\ es[id].space = in.space
  BY <1>1 DEF UpsertAccepted
<1> HIDE DEF id, new
<1>4. CASE id \in DOMAIN es
  <2>1. es[id] \in Entity /\ new[id] = Updated(es[id], in)
    BY <1>2, <1>4, RecordsAre
  <2>2. /\ es[id].namespace = in.namespace /\ es[id].type = in.type /\ es[id].key = in.key
        /\ in.key = Blank => es[id].name = in.name
    BY <1>3, <1>4 DEF IdentityMatches
  <2>3. Updated(es[id], in) =
          [space |-> es[id].space, namespace |-> in.namespace, type |-> in.type, name |-> in.name,
           aliases |-> es[id].aliases, key |-> in.key, duplicateOf |-> es[id].duplicateOf,
           logged |-> TRUE]
    <3> DEFINE e == es[id]
    <3>1. e \in Entity /\ e.namespace = in.namespace /\ e.type = in.type /\ e.key = in.key
      BY <2>1, <2>2
    <3> HIDE DEF e
    <3>2. Updated(e, in) =
             [space |-> e.space,
              namespace |-> IF e.namespace # Blank THEN e.namespace ELSE in.namespace,
              type |-> IF e.type # Blank THEN e.type ELSE in.type,
              name |-> in.name, aliases |-> e.aliases \cup in.aliases,
              key |-> IF in.key # Blank THEN in.key ELSE e.key,
              duplicateOf |-> IF in.duplicateOf # None THEN in.duplicateOf ELSE e.duplicateOf,
              logged |-> TRUE]
      BY <1>1, <3>1, UpdatedFields
    <3>3. /\ (IF e.namespace # Blank THEN e.namespace ELSE in.namespace) = in.namespace
          /\ (IF e.type # Blank THEN e.type ELSE in.type) = in.type
          /\ e.aliases \cup in.aliases = e.aliases
          /\ (IF in.key # Blank THEN in.key ELSE e.key) = in.key
          /\ (IF in.duplicateOf # None THEN in.duplicateOf ELSE e.duplicateOf) = e.duplicateOf
      BY <1>1, <3>1
    <3>4. Updated(e, in) =
            [space |-> e.space, namespace |-> in.namespace, type |-> in.type, name |-> in.name,
             aliases |-> e.aliases, key |-> in.key, duplicateOf |-> e.duplicateOf, logged |-> TRUE]
      BY <3>2, <3>3, Zenon
    <3> QED BY <3>4 DEF e
  <2>4. /\ new[id].namespace = in.namespace /\ new[id].type = in.type
        /\ new[id].name = in.name /\ new[id].key = in.key /\ new[id].space = es[id].space
        /\ new[id].aliases = es[id].aliases /\ new[id].duplicateOf = es[id].duplicateOf
    BY <2>1, <2>3
  <2> QED BY <1>1, <1>2, <1>3, <1>4, <2>2, <2>4 DEF id, new
<1>5. CASE id \notin DOMAIN es
  <2>1. new[id] = Created(in)
    BY <1>2, <1>5
  <2>2. /\ new[id].namespace = in.namespace /\ new[id].type = in.type
        /\ new[id].name = in.name /\ new[id].key = in.key /\ new[id].space = in.space
        /\ new[id].aliases = in.aliases /\ new[id].duplicateOf = in.duplicateOf
    BY <2>1 DEF Created
  <2> QED BY <1>1, <1>2, <1>5, <2>2 DEF id, new
<1> QED BY <1>4, <1>5

(* What resolution sees of an entity and of a request.                     *)
LEMMA ResolvesAlike ==
    ASSUME NEW e, NEW f, NEW a, NEW b,
           e.type = f.type, e.namespace = f.namespace, e.key = f.key,
           DisplayNames(e) \subseteq DisplayNames(f),
           a.type = b.type, a.namespace = b.namespace, a.key = b.key, a.name = b.name,
           Resolves(e, a, TRUE)
    PROVE  Resolves(f, b, TRUE)
BY DEF Resolves

LEMMA SameRequest ==
    ASSUME NEW e, NEW a, NEW b, a.type = b.type, a.namespace = b.namespace, a.key = b.key,
           a.name = b.name, Resolves(e, a, TRUE)
    PROVE  Resolves(e, b, TRUE)
BY DEF Resolves

(* An entity named and keyed like a request matches it.                    *)
LEMMA NamedAlikeResolves ==
    ASSUME NEW e, NEW in, e.type = in.type, e.namespace = in.namespace, e.key = in.key,
           in.key = Blank => e.name = in.name
    PROVE  Resolves(e, in, TRUE)
BY DEF Resolves, DisplayNames

(* A renamed record matches a request by what it was, by its key or by the *)
(* new name.                                                               *)
LEMMA RenamedResolves ==
    ASSUME NEW old, NEW new, NEW in, NEW request,
           new.type = old.type, new.namespace = old.namespace, new.key = old.key,
           new.type = in.type, new.namespace = in.namespace, new.key = in.key,
           new.aliases = old.aliases, new.name = in.name,
           Resolves(new, request, TRUE)
    PROVE  Resolves(old, request, TRUE) \/ Resolves(AsStored(in), request, TRUE)
<1>1. /\ AsStored(in).type = in.type /\ AsStored(in).namespace = in.namespace
      /\ AsStored(in).key = in.key /\ AsStored(in).name = in.name /\ AsStored(in).aliases = in.aliases
  BY DEF AsStored, Created
<1>2. DisplayNames(new) \subseteq DisplayNames(old) \cup DisplayNames(AsStored(in))
  BY <1>1 DEF DisplayNames
<1>3. CASE new.key # Blank /\ request.key # Blank
  BY <1>3 DEF Resolves
<1>4. CASE ~(new.key # Blank /\ request.key # Blank)
  <2>1. Fold[request.name] \in DisplayNames(new)
    BY <1>4 DEF Resolves
  <2>2. CASE Fold[request.name] \in DisplayNames(old)
    <3> HIDE DEF DisplayNames
    <3> QED BY <1>4, <2>2 DEF Resolves
  <2>3. CASE Fold[request.name] \in DisplayNames(AsStored(in))
    BY <1>1, <1>4, <2>3 DEF Resolves
  <2> QED BY <1>2, <2>1, <2>2, <2>3
<1> QED BY <1>3, <1>4

(* The guard lets a new id through when nothing matches, or when what      *)
(* matches is the exact legacy form, which the upsert then reuses.         *)
LEMMA GuardedMatches ==
    ASSUME NEW es, NEW in \in AutomaticInput, GuardPasses(es, in), Derived(in) \notin DOMAIN es
    PROVE  \/ \A x \in DOMAIN es : es[x].space = DefaultSpace => ~Resolves(es[x], in, TRUE)
           \/ /\ Legacy(in) \in DOMAIN es /\ LegacyMatches(es[Legacy(in)], in)
              /\ es[Legacy(in)].key = in.key /\ (in.key = Blank => es[Legacy(in)].name = in.name)
              /\ ~Marked(es[Legacy(in)])
              /\ \A x \in DOMAIN es :
                    es[x].space = DefaultSpace /\ Resolves(es[x], in, TRUE) => x = Legacy(in)
<1> DEFINE legacy == Legacy(in)
<1> DEFINE matches == ResolveEntity(es, DefaultSpace, in, TRUE, TRUE)
<1>1. matches = {x \in DOMAIN es : es[x].space = DefaultSpace /\ Resolves(es[x], in, TRUE)}
  BY DEF ResolveEntity
<1>2. \/ matches = {}
      \/ matches = {legacy} /\ ~Marked(es[legacy]) /\ ~Drifts(es[legacy], in)
  BY DEF GuardPasses
<1>3. CASE matches = {}
  BY <1>1, <1>3
<1>4. CASE matches = {legacy} /\ ~Marked(es[legacy]) /\ ~Drifts(es[legacy], in)
  <2>1. legacy \in DOMAIN es /\ Resolves(es[legacy], in, TRUE)
    BY <1>1, <1>4
  <2>2. /\ es[legacy].type = in.type /\ es[legacy].namespace = in.namespace
        /\ (es[legacy].key = Blank) = (in.key = Blank)
        /\ es[legacy].key = Blank => es[legacy].name = in.name
    BY <1>4 DEF Drifts
  <2>3. es[legacy].key = in.key
    BY <2>1, <2>2 DEF Resolves
  <2>4. LegacyMatches(es[legacy], in)
    BY <2>2, <2>3 DEF LegacyMatches
  <2> QED BY <1>1, <1>4, <2>1, <2>2, <2>3, <2>4
<1> QED BY <1>2, <1>3, <1>4

(* Where an automatic upsert writes.                                       *)
LEMMA AutomaticIDs ==
    ASSUME NEW es, NEW in \in AutomaticInput
    PROVE  /\ Derived(in) \in DOMAIN es => UpsertID(es, in) = Derived(in)
           /\ /\ Derived(in) \notin DOMAIN es /\ Legacy(in) \in DOMAIN es
              /\ LegacyMatches(es[Legacy(in)], in)
              => UpsertID(es, in) = Legacy(in)
           /\ \/ UpsertID(es, in) = Derived(in)
              \/ /\ UpsertID(es, in) = Legacy(in) /\ Legacy(in) \in DOMAIN es
                 /\ LegacyMatches(es[Legacy(in)], in) /\ Derived(in) \notin DOMAIN es
<1>1. in.id = None
  BY DEF AutomaticInput
<1> QED BY <1>1 DEF UpsertID

(* An entity that matches what it asks for itself, and nothing else of its *)
(* space does.                                                             *)
LEMMA AloneIf ==
    ASSUME NEW es, NEW id \in DOMAIN es, es[id].space = DefaultSpace,
           \A x \in DOMAIN es :
              /\ x # id /\ es[x].space = DefaultSpace
              => ~Resolves(es[x], AsRequest(id, es[id]), TRUE)
    PROVE  AloneInItsIdentity(es, id)
<1> DEFINE request == AsRequest(id, es[id])
<1>1. /\ request.type = es[id].type /\ request.namespace = es[id].namespace
      /\ request.key = es[id].key /\ request.name = es[id].name
  BY DEF AsRequest
<1>2. Resolves(es[id], request, TRUE)
  <2> HIDE DEF request
  <2> QED BY <1>1, NamedAlikeResolves
<1> HIDE DEF request
<1>3. ResolveEntity(es, DefaultSpace, request, TRUE, TRUE) =
        {x \in DOMAIN es : es[x].space = DefaultSpace /\ Resolves(es[x], request, TRUE)}
  BY DEF ResolveEntity
<1>4. ResolveEntity(es, DefaultSpace, request, TRUE, TRUE) = {id}
  BY <1>2, <1>3 DEF request
<1> QED BY <1>4 DEF AloneInItsIdentity, request

(* One automatic entity alone.                                             *)
LEMMA OneAutomaticAlone ==
    ASSUME NEW es \in Records, NEW in \in AutomaticInput, GuardPasses(es, in), UpsertAccepted(es, in)
    PROVE  LET id == UpsertID(es, in)
               new == Upserted(es, in)
           IN  /\ ~Marked(new[id])
               /\ id \notin DOMAIN es =>
                     /\ id = Derived(in)
                     /\ \A x \in DOMAIN es : es[x].space = DefaultSpace => ~Resolves(es[x], in, TRUE)
<1> DEFINE id == UpsertID(es, in)
<1> DEFINE new == Upserted(es, in)
<1>1. /\ id \in DOMAIN es => new[id].duplicateOf = es[id].duplicateOf /\ es[id].space = DefaultSpace
      /\ id \notin DOMAIN es => new[id].duplicateOf = None
  BY AutomaticUpsert
<1>2. Marked(new[id]) => id \in DOMAIN es /\ Marked(es[id])
  <2> HIDE DEF id, new
  <2> QED BY <1>1 DEF Marked
<1>3. CASE Derived(in) \in DOMAIN es
  <2>1. id = Derived(in)
    BY <1>3, AutomaticIDs
  <2>2. ~Marked(es[id])
    BY <1>3, <2>1 DEF GuardPasses
  <2> QED BY <1>2, <1>3, <2>1, <2>2
<1>4. CASE Derived(in) \notin DOMAIN es
  <2>1. CASE \A x \in DOMAIN es : es[x].space = DefaultSpace => ~Resolves(es[x], in, TRUE)
    <3>1. id \notin DOMAIN es => id = Derived(in)
      BY AutomaticIDs
    <3>2. ASSUME id \in DOMAIN es PROVE FALSE
      <4>1. id = Legacy(in) /\ LegacyMatches(es[id], in)
        BY <1>4, <3>2, AutomaticIDs
      <4> HIDE DEF id, new
      <4>2. /\ es[id].type = in.type /\ es[id].namespace = in.namespace /\ es[id].key = in.key
            /\ in.key = Blank => es[id].name = in.name
        BY <4>1 DEF LegacyMatches
      <4>3. Resolves(es[id], in, TRUE)
        BY <4>2, NamedAlikeResolves
      <4> QED BY <1>1, <2>1, <3>2, <4>3
    <3> QED BY <1>2, <2>1, <3>1, <3>2
  <2>2. CASE /\ Legacy(in) \in DOMAIN es /\ LegacyMatches(es[Legacy(in)], in)
             /\ ~Marked(es[Legacy(in)])
    <3>1. id = Legacy(in)
      BY <1>4, <2>2, AutomaticIDs
    <3> QED BY <1>2, <2>2, <3>1
  <2> QED BY <1>4, <2>1, <2>2, GuardedMatches
<1> QED BY <1>3, <1>4

(* What is stored of the entity an input names, to a request.              *)
LEMMA StoredResolves ==
    ASSUME NEW e, NEW in, NEW request, e.type = in.type, e.namespace = in.namespace,
           e.key = in.key, e.name = in.name, e.aliases \subseteq in.aliases,
           Resolves(e, request, TRUE)
    PROVE  Resolves(AsStored(in), request, TRUE)
<1>1. /\ AsStored(in).type = in.type /\ AsStored(in).namespace = in.namespace
      /\ AsStored(in).key = in.key /\ AsStored(in).name = in.name /\ AsStored(in).aliases = in.aliases
  BY DEF AsStored, Created
<1>2. DisplayNames(e) \subseteq DisplayNames(AsStored(in))
  BY <1>1 DEF DisplayNames
<1> QED BY <1>1, <1>2, ResolvesAlike

(* Two automatic entities in one batch.                                    *)
LEMMA TwoAutomaticAlone ==
    ASSUME NEW es \in Records, NEW a \in AutomaticInput, NEW b \in AutomaticInput,
           GuardPasses(es, a), GuardPasses(es, b), PendingDistinct(a, b),
           UpsertAccepted(es, a), UpsertAccepted(Upserted(es, a), b), ReferencesAgree(es, a, b)
    PROVE  LET new == Upserted(Upserted(es, a), b)
           IN  /\ \A id \in DOMAIN new \ DOMAIN es : AloneInItsIdentity(new, id)
               /\ ~Marked(new[UpsertID(es, a)])
<1> DEFINE s == UpsertID(es, a)
<1> DEFINE mid == Upserted(es, a)
<1> DEFINE o == UpsertID(mid, b)
<1> DEFINE new == Upserted(mid, b)
<1>a. /\ mid \in Records /\ DOMAIN mid = DOMAIN es \cup {s}
      /\ \A x \in DOMAIN es : x # s => mid[x] = es[x]
      /\ mid[s].namespace = a.namespace /\ mid[s].type = a.type
      /\ mid[s].name = a.name /\ mid[s].key = a.key /\ mid[s].space = DefaultSpace
      /\ s \in DOMAIN es =>
           /\ es[s].namespace = a.namespace /\ es[s].type = a.type
           /\ es[s].key = a.key /\ es[s].space = DefaultSpace
           /\ a.key = Blank => es[s].name = a.name
           /\ mid[s].aliases = es[s].aliases
      /\ s \notin DOMAIN es => mid[s].aliases = {}
  BY AutomaticUpsert
<1>b. ~Marked(mid[s]) /\ (s \notin DOMAIN es =>
         /\ s = Derived(a)
         /\ \A x \in DOMAIN es : es[x].space = DefaultSpace => ~Resolves(es[x], a, TRUE))
  BY OneAutomaticAlone
<1>c. /\ new \in Records /\ DOMAIN new = DOMAIN mid \cup {o}
      /\ \A x \in DOMAIN mid : x # o => new[x] = mid[x]
      /\ new[o].namespace = b.namespace /\ new[o].type = b.type
      /\ new[o].name = b.name /\ new[o].key = b.key /\ new[o].space = DefaultSpace
      /\ o \in DOMAIN mid =>
           /\ mid[o].namespace = b.namespace /\ mid[o].type = b.type
           /\ mid[o].key = b.key /\ mid[o].space = DefaultSpace
           /\ b.key = Blank => mid[o].name = b.name
           /\ new[o].aliases = mid[o].aliases /\ new[o].duplicateOf = mid[o].duplicateOf
      /\ o \notin DOMAIN mid => new[o].aliases = {} /\ new[o].duplicateOf = None
  <2>1. mid \in Records
    BY <1>a
  <2> HIDE DEF mid
  <2> QED BY <2>1, AutomaticUpsert DEF mid
<1>d. /\ Derived(b) \in DOMAIN mid => o = Derived(b)
      /\ Derived(b) \notin DOMAIN mid /\ Legacy(b) \in DOMAIN mid /\ LegacyMatches(mid[Legacy(b)], b)
         => o = Legacy(b)
      /\ o = Derived(b) \/ (o = Legacy(b) /\ o \in DOMAIN mid /\ LegacyMatches(mid[o], b)
                            /\ Derived(b) \notin DOMAIN mid)
  <2> HIDE DEF mid
  <2> QED BY AutomaticIDs
<1>e. Derived(a) # Derived(b) => ~Resolves(AsStored(a), b, TRUE) /\ ~Resolves(AsStored(b), a, TRUE)
  BY DEF PendingDistinct
<1>f. a.aliases = {} /\ b.aliases = {}
  BY DEF AutomaticInput
<1>0. Derived(a) = Derived(b) => s = o
  BY DEF ReferencesAgree
<1>g. s = Derived(a) \/ (s = Legacy(a) /\ s \in DOMAIN es /\ LegacyMatches(es[s], a) /\ Derived(a) \notin DOMAIN es)
  BY AutomaticIDs
<1> HIDE DEF s, mid, o, new
<1>1. ~Marked(new[s])
  BY <1>a, <1>b, <1>c DEF Marked
<1>2. ASSUME o \notin DOMAIN es, o # s
      PROVE  /\ o = Derived(b) /\ o \notin DOMAIN mid
             /\ \A x \in DOMAIN es : es[x].space = DefaultSpace => ~Resolves(es[x], b, TRUE)
  <2>1. o \notin DOMAIN mid /\ o = Derived(b)
    BY <1>2, <1>a, <1>d
  <2>2. Derived(b) \notin DOMAIN es
    BY <1>2, <2>1
  <2>3. ASSUME Legacy(b) \in DOMAIN es, LegacyMatches(es[Legacy(b)], b),
               b.key = Blank => es[Legacy(b)].name = b.name, es[Legacy(b)].key = b.key
        PROVE  FALSE
    <3>1. CASE Legacy(b) # s
      <4>1. mid[Legacy(b)] = es[Legacy(b)] /\ Legacy(b) \in DOMAIN mid
        BY <1>a, <2>3, <3>1
      <4> QED BY <4>1, <1>d, <2>1, <2>3
    <3>2. CASE Legacy(b) = s
      <4>1. es[s].namespace = b.namespace /\ es[s].type = b.type
        BY <2>3, <3>2 DEF LegacyMatches
      <4>2. /\ mid[s].namespace = b.namespace /\ mid[s].type = b.type /\ mid[s].key = b.key
            /\ b.key = Blank => mid[s].name = b.name
        BY <1>a, <2>3, <3>2, <4>1
      <4>3. LegacyMatches(mid[s], b)
        BY <4>2 DEF LegacyMatches
      <4>4. s \in DOMAIN mid
        BY <1>a
      <4> QED BY <4>3, <4>4, <3>2, <1>d, <2>1
    <3> QED BY <3>1, <3>2
  <2> QED BY <2>1, <2>2, <2>3, GuardedMatches
<1>3. ASSUME s \notin DOMAIN es, o # s PROVE AloneInItsIdentity(new, s)
  <2>1. s \in DOMAIN new /\ new[s] = mid[s]
    BY <1>3, <1>a, <1>c
  <2>2. ASSUME NEW x \in DOMAIN new, x # s, new[x].space = DefaultSpace,
               Resolves(new[x], AsRequest(s, new[s]), TRUE)
        PROVE  FALSE
    <3>1. Resolves(new[x], a, TRUE)
      <4> DEFINE request == AsRequest(s, new[s])
      <4>1. /\ request.namespace = a.namespace /\ request.type = a.type /\ request.name = a.name
            /\ request.key = a.key
        BY <2>1, <1>a DEF AsRequest
      <4>2. Resolves(new[x], request, TRUE)
        BY <2>2
      <4> HIDE DEF request
      <4> QED BY <4>1, <4>2, SameRequest
    <3>2. CASE x # o
      <4>1. x \in DOMAIN es /\ new[x] = es[x]
        BY <1>a, <1>c, <2>2, <3>2
      <4> QED BY <4>1, <3>1, <2>2, <1>3, <1>b
    <3>3. CASE x = o
      <4>1. Derived(a) # Derived(b)
        <5>1. SUFFICES ASSUME Derived(a) = Derived(b) PROVE FALSE
          OBVIOUS
        <5>2. Derived(b) \in DOMAIN mid
          BY <5>1, <1>3, <1>a, <1>b
        <5> QED BY <5>1, <5>2, <1>3, <1>b, <1>d
      <4>2. CASE o \notin DOMAIN mid
        <5>1. Resolves(AsStored(b), a, TRUE)
          BY <1>c, <1>f, <3>1, <3>3, <4>2, StoredResolves
        <5> QED BY <5>1, <4>1, <1>e
      <4>3. CASE o \in DOMAIN mid
        <5>1. o \in DOMAIN es /\ mid[o] = es[o]
          BY <4>3, <1>a, <1>3
        <5>2. Resolves(es[o], a, TRUE) \/ Resolves(AsStored(b), a, TRUE)
          BY <5>1, <4>3, <1>c, <3>1, <3>3, RenamedResolves
        <5>3. es[o].space = DefaultSpace
          BY <5>1, <4>3, <1>c
        <5> QED BY <5>1, <5>2, <5>3, <4>1, <1>e, <1>3, <1>b
      <4> QED BY <4>2, <4>3
    <3> QED BY <3>2, <3>3
  <2>3. new[s].space = DefaultSpace
    BY <2>1, <1>a
  <2> QED BY <2>1, <2>2, <2>3, AloneIf
<1>4. ASSUME o \notin DOMAIN es, o # s PROVE AloneInItsIdentity(new, o)
  <2>1. o \in DOMAIN new /\ o = Derived(b) /\ o \notin DOMAIN mid
    BY <1>2, <1>4, <1>c
  <2>2. ASSUME NEW x \in DOMAIN new, x # o, new[x].space = DefaultSpace,
               Resolves(new[x], AsRequest(o, new[o]), TRUE)
        PROVE  FALSE
    <3>1. Resolves(new[x], b, TRUE)
      <4> DEFINE request == AsRequest(o, new[o])
      <4>1. /\ request.namespace = b.namespace /\ request.type = b.type /\ request.name = b.name
            /\ request.key = b.key
        BY <1>c DEF AsRequest
      <4>2. Resolves(new[x], request, TRUE)
        BY <2>2
      <4> HIDE DEF request
      <4> QED BY <4>1, <4>2, SameRequest
    <3>2. CASE x # s
      <4>1. x \in DOMAIN es /\ new[x] = es[x]
        BY <1>a, <1>c, <2>2, <3>2
      <4> QED BY <4>1, <3>1, <2>2, <1>4, <1>2
    <3>3. CASE x = s
      <4>1. new[s] = mid[s]
        BY <1>a, <1>c, <1>4
      <4>2. CASE Derived(a) # Derived(b)
        <5>1. CASE s \notin DOMAIN es
          <6>1. Resolves(AsStored(a), b, TRUE)
            BY <1>a, <1>f, <3>1, <3>3, <4>1, <5>1, StoredResolves
          <6> QED BY <6>1, <4>2, <1>e
        <5>2. CASE s \in DOMAIN es
          <6>1. Resolves(es[s], b, TRUE) \/ Resolves(AsStored(a), b, TRUE)
            BY <5>2, <1>a, <3>1, <3>3, <4>1, RenamedResolves
          <6>2. es[s].space = DefaultSpace
            BY <5>2, <1>a
          <6> QED BY <6>1, <6>2, <5>2, <4>2, <1>e, <1>4, <1>2
        <5> QED BY <5>1, <5>2
      <4>3. CASE Derived(a) = Derived(b)
        BY <4>3, <1>0, <1>4
      <4> QED BY <4>2, <4>3
    <3> QED BY <3>2, <3>3
  <2>3. new[o].space = DefaultSpace
    BY <1>c
  <2> QED BY <2>1, <2>2, <2>3, AloneIf
<1>5. ASSUME s \notin DOMAIN es, o = s PROVE AloneInItsIdentity(new, s)
  <2>1. s \in DOMAIN new /\ s \in DOMAIN mid /\ s = Derived(a)
    BY <1>5, <1>a, <1>b, <1>c
  <2>2. /\ a.namespace = b.namespace /\ a.type = b.type /\ a.key = b.key
        /\ b.key = Blank => a.name = b.name
    BY <1>5, <2>1, <1>a, <1>c
  <2>3. Derived(a) = Derived(b)
    <3>1. SUFFICES ASSUME Derived(a) # Derived(b) PROVE FALSE
      OBVIOUS
    <3>2. /\ AsStored(a).namespace = b.namespace /\ AsStored(a).type = b.type
          /\ AsStored(a).key = b.key /\ (b.key = Blank => AsStored(a).name = b.name)
      BY <2>2 DEF AsStored, Created
    <3>3. Resolves(AsStored(a), b, TRUE)
      BY <3>2, NamedAlikeResolves
    <3> QED BY <3>1, <3>3, <1>e
  <2>4. ASSUME NEW x \in DOMAIN new, x # s, new[x].space = DefaultSpace,
               Resolves(new[x], AsRequest(s, new[s]), TRUE)
        PROVE  FALSE
    <3>1. x \in DOMAIN es /\ new[x] = es[x]
      BY <1>5, <2>4, <1>a, <1>c
    <3>2. Resolves(es[x], b, TRUE)
      BY <1>5, <2>4, <3>1, <1>c, ResolvesAlike DEF AsRequest
    <3>3. ~Resolves(es[x], a, TRUE)
      BY <1>5, <2>4, <3>1, <1>b
    <3>4. /\ es[x].key = b.key /\ (b.key = Blank => es[x].name = b.name)
          /\ LegacyMatches(es[x], b)
      <4>1. Derived(b) \notin DOMAIN es
        BY <1>5, <2>1, <2>3
      <4>2. es[x].space = DefaultSpace
        BY <2>4, <3>1
      <4>3. \/ \A y \in DOMAIN es : es[y].space = DefaultSpace => ~Resolves(es[y], b, TRUE)
            \/ /\ LegacyMatches(es[Legacy(b)], b)
               /\ es[Legacy(b)].key = b.key /\ (b.key = Blank => es[Legacy(b)].name = b.name)
               /\ \A y \in DOMAIN es :
                     es[y].space = DefaultSpace /\ Resolves(es[y], b, TRUE) => y = Legacy(b)
        BY <4>1, GuardedMatches
      <4> QED BY <4>2, <4>3, <3>1, <3>2
    <3>5. es[x].namespace = a.namespace /\ es[x].type = a.type
      BY <3>4, <2>2 DEF LegacyMatches
    <3>6. es[x].key = a.key /\ (a.key = Blank => es[x].name = a.name)
      BY <3>4, <2>2
    <3> QED BY <3>3, <3>5, <3>6, NamedAlikeResolves
  <2>5. new[s].space = DefaultSpace
    BY <1>5, <1>c
  <2> QED BY <2>1, <2>4, <2>5, AloneIf
<1>6. ASSUME NEW id \in DOMAIN new \ DOMAIN es PROVE AloneInItsIdentity(new, id)
  <2>1. id = s \/ id = o
    BY <1>6, <1>a, <1>c
  <2>2. CASE id = s /\ o # s
    BY <1>3, <1>6, <2>2
  <2>3. CASE id = o /\ o # s
    BY <1>4, <1>6, <2>3
  <2>4. CASE id = s /\ o = s
    BY <1>5, <1>6, <2>4
  <2> QED BY <2>1, <2>2, <2>3, <2>4
<1> QED BY <1>1, <1>6 DEF s, mid, o, new

LEMMA FactOfAnAutomaticAssert ==
    ASSUME NEW fs \in FactRecords, NEW in \in FactInput, NEW subject \in IDs, in.id \notin DOMAIN fs
    PROVE  \A f \in DOMAIN Put(fs, in.id, NewFact(subject, in)) \ DOMAIN fs :
              Put(fs, in.id, NewFact(subject, in))[f].subject = subject
<1> DEFINE new == Put(fs, in.id, NewFact(subject, in))
<1>1. DOMAIN new = DOMAIN fs \cup {in.id} /\ new[in.id] = NewFact(subject, in)
  BY NewFactRecords
<1>2. NewFact(subject, in).subject = subject
  BY DEF NewFact
<1> HIDE DEF new
<1> QED BY <1>1, <1>2 DEF new

(* `fact assert' never splits one identity and never writes behind a       *)
(* redirect, whatever is stored, merged or left by earlier releases.       *)
THEOREM AutomaticAssertIsCareful == Spec => AutomaticAssertKeepsIdentities
<1> DEFINE Careful ==
      writer' = "automatic" =>
          /\ \A new \in DOMAIN entities' \ DOMAIN entities : AloneInItsIdentity(entities', new)
          /\ \A f \in DOMAIN facts' \ DOMAIN facts : ~Marked(entities'[facts'[f].subject])
<1>1. ASSUME IInv, AutomaticAssert PROVE Careful
  <2>1. TypeOK /\ entities \in Records /\ facts \in FactRecords
    BY <1>1, TypeParts DEF IInv
  <2>2. PICK subject \in Callers.automatic, object \in Callers.automatic \cup {None}, in \in Callers.facts :
          /\ GuardPasses(entities, subject)
          /\ object # None => GuardPasses(entities, object) /\ PendingDistinct(subject, object)
          /\ UpsertAccepted(entities, subject)
          /\ object # None => /\ UpsertAccepted(Upserted(entities, subject), object)
                              /\ ReferencesAgree(entities, subject, object)
          /\ in.id \notin DOMAIN facts
          /\ entities' = IF object = None THEN Upserted(entities, subject)
                         ELSE Upserted(Upserted(entities, subject), object)
          /\ facts' = Put(facts, in.id, NewFact(Reference(entities, subject), in))
    BY <1>1 DEF AutomaticAssert
  <2>3. in \in FactInput /\ subject \in AutomaticInput /\ (object # None => object \in AutomaticInput)
    BY <2>1, <2>2, CallersAsk
  <2>4. UpsertID(entities, subject) \in IDs
    BY <2>3, UpsertIDIsAnID DEF AutomaticInput
  <2>5. \A f \in DOMAIN facts' \ DOMAIN facts : facts'[f].subject = UpsertID(entities, subject)
    BY <2>1, <2>2, <2>3, <2>4, FactOfAnAutomaticAssert DEF Reference
  <2> DEFINE new == entities'
  <2>6. /\ \A id \in DOMAIN new \ DOMAIN entities : AloneInItsIdentity(new, id)
        /\ ~Marked(new[UpsertID(entities, subject)])
    <3>1. CASE object = None
      <4> DEFINE id == UpsertID(entities, subject)
      <4>1. entities' = Upserted(entities, subject)
        BY <2>2, <3>1
      <4>2. /\ DOMAIN new = DOMAIN entities \cup {id}
            /\ \A x \in DOMAIN entities : x # id => new[x] = entities[x]
            /\ new[id].namespace = subject.namespace /\ new[id].type = subject.type
            /\ new[id].name = subject.name /\ new[id].key = subject.key
            /\ new[id].space = DefaultSpace
        <5> DEFINE up == Upserted(entities, subject)
        <5>1. /\ DOMAIN up = DOMAIN entities \cup {id}
              /\ \A x \in DOMAIN entities : x # id => up[x] = entities[x]
              /\ up[id].namespace = subject.namespace /\ up[id].type = subject.type
              /\ up[id].name = subject.name /\ up[id].key = subject.key
              /\ up[id].space = DefaultSpace
          BY <2>1, <2>2, <2>3, AutomaticUpsert
        <5>2. up = new
          BY <4>1
        <5> HIDE DEF up, id, new
        <5> QED BY <5>1, <5>2
      <4>3. /\ ~Marked(new[id])
            /\ id \notin DOMAIN entities =>
                  \A x \in DOMAIN entities :
                     entities[x].space = DefaultSpace => ~Resolves(entities[x], subject, TRUE)
        BY <2>1, <2>2, <2>3, <4>1, OneAutomaticAlone
      <4> HIDE DEF id, new
      <4>4. ASSUME id \notin DOMAIN entities PROVE AloneInItsIdentity(new, id)
        <5> DEFINE request == AsRequest(id, new[id])
        <5>1. /\ request.namespace = subject.namespace /\ request.type = subject.type
              /\ request.name = subject.name /\ request.key = subject.key
          BY <4>2 DEF AsRequest
        <5> HIDE DEF request
        <5>2. ASSUME NEW x \in DOMAIN new, x # id, new[x].space = DefaultSpace,
                     Resolves(new[x], request, TRUE)
              PROVE  FALSE
          <6>1. x \in DOMAIN entities /\ new[x] = entities[x]
            BY <4>2, <5>2
          <6>2. Resolves(entities[x], subject, TRUE)
            BY <5>1, <5>2, <6>1, SameRequest
          <6> QED BY <4>3, <4>4, <5>2, <6>1, <6>2
        <5>3. id \in DOMAIN new /\ new[id].space = DefaultSpace
          BY <4>2
        <5> QED BY <5>2, <5>3, AloneIf DEF request
      <4> QED BY <4>2, <4>3, <4>4 DEF id
    <3>2. CASE object # None
      <4>1. entities' = Upserted(Upserted(entities, subject), object) /\ object \in AutomaticInput
        BY <2>2, <2>3, <3>2
      <4> QED BY <4>1, <2>1, <2>2, <2>3, <3>2, TwoAutomaticAlone
    <3> QED BY <3>1, <3>2
  <2> QED BY <2>5, <2>6
<1>2. ASSUME Next, ~AutomaticAssert PROVE Careful
  <2>1. \/ writer' \in {"caller", "merge", "compaction"}
        \/ entities' = entities /\ facts' = facts
    BY <1>2 DEF Next, UpsertEntity, AssertFact, RetractFact, MergeEntities, BeginCompaction,
                CompactEntities, CompactionRefused, CompactFact, EndCompaction, Report, CompactionStops
  <2> QED BY <2>1
<1>3. IInv /\ [Next]_vars => [Careful]_vars
  BY <1>1, <1>2
<1> QED BY InductiveInvariant, <1>3, PTL DEF Spec, AutomaticAssertKeepsIdentities

-----------------------------------------------------------------------------
(* What marking does to the chains.                                        *)

(* new is old with every entity of S marked as a duplicate of t.           *)
Absorbs(old, new, t, S) ==
    /\ None \notin DOMAIN old /\ DOMAIN new = DOMAIN old
    /\ t \in DOMAIN old /\ t \notin {None, Blank} /\ S \subseteq DOMAIN old /\ t \notin S
    /\ \A id \in S \cup {t} : ~Marked(old[id]) /\ old[id].space = old[t].space
    /\ \A id \in DOMAIN old :
          /\ new[id].space = old[id].space
          /\ new[id].duplicateOf = IF id \in S THEN t ELSE old[id].duplicateOf

LEMMA AbsorbedRedirects ==
    ASSUME NEW old, NEW new, NEW t, NEW S, Absorbs(old, new, t, S), NEW x
    PROVE  /\ x \in S => Redirect(new, x) = t /\ Redirect(old, x) = None
           /\ x \notin S => Redirect(new, x) = Redirect(old, x)
           /\ Redirect(new, t) = None
           /\ IsEnd(new, x) <=> IsEnd(old, x) /\ x \notin S
<1>1. /\ None \notin DOMAIN old /\ DOMAIN new = DOMAIN old
      /\ t \in DOMAIN old /\ t \notin {None, Blank} /\ S \subseteq DOMAIN old /\ t \notin S
      /\ \A id \in S \cup {t} : old[id].duplicateOf \in {None, Blank} /\ old[id].space = old[t].space
      /\ \A id \in DOMAIN old :
            /\ new[id].space = old[id].space
            /\ id \in S => new[id].duplicateOf = t
            /\ id \notin S => new[id].duplicateOf = old[id].duplicateOf
  BY DEF Absorbs, Marked
<1>2. ASSUME x \in S PROVE Redirect(new, x) = t /\ Redirect(old, x) = None
  <2>1. /\ x \in DOMAIN new /\ new[x].duplicateOf = t /\ t # x /\ t \in DOMAIN new
        /\ new[t].space = new[x].space
    BY <1>1, <1>2
  <2>2. Redirect(new, x) = t
    BY <1>1, <2>1 DEF Redirect, Marked
  <2>3. Redirect(old, x) = None
    BY <1>1, <1>2, RedirectFacts
  <2> QED BY <2>2, <2>3
<1>3. ASSUME NEW y, y \notin S PROVE Redirect(new, y) = Redirect(old, y)
  <2>1. CASE y \notin DOMAIN old
    BY <1>1, <2>1, RedirectFacts
  <2>2. CASE y \in DOMAIN old
    <3>1. new[y].duplicateOf = old[y].duplicateOf /\ new[y].space = old[y].space
      BY <1>1, <1>3, <2>2
    <3>2. old[y].duplicateOf \in DOMAIN old =>
             new[old[y].duplicateOf].space = old[old[y].duplicateOf].space
      BY <1>1
    <3> QED BY <1>1, <2>2, <3>1, <3>2 DEF Redirect, Marked
  <2> QED BY <2>1, <2>2
<1>4. Redirect(new, t) = None
  BY <1>1, <1>3, RedirectFacts
<1>5. IsEnd(new, x) <=> IsEnd(old, x) /\ x \notin S
  BY <1>1 DEF IsEnd
<1> QED BY <1>2, <1>3, <1>4, <1>5

(* A chain is the same up to the first entity it meets that was marked.    *)
LEMMA AgreeBefore ==
    ASSUME NEW old, NEW new, NEW t, NEW S, Absorbs(old, new, t, S), NEW id,
           NEW n \in 0..MaxHops, \A k \in 0..(n - 1) : Hops(old, id)[k] \notin S
    PROVE  Hops(new, id)[n] = Hops(old, id)[n]
<1> DEFINE Bad == {m \in 0..n : Hops(new, id)[m] # Hops(old, id)[m]}
<1>1. SUFFICES ASSUME Bad # {} PROVE FALSE
  BY HopFacts
<1>2. MaxHops \in Nat /\ n \in Nat /\ n <= MaxHops /\ Bad \in SUBSET Nat
  BY HopFacts
<1>3. PICK m \in Bad : \A x \in Bad : m <= x
  <2> HIDE DEF Bad
  <2> QED BY <1>1, <1>2, LeastNumber
<1>4. m \in 0..n /\ Hops(new, id)[m] # Hops(old, id)[m]
  BY <1>3
<1>5. m # 0
  BY <1>4, HopFacts
<1>6. m \in 1..MaxHops /\ m - 1 \in 0..n /\ m - 1 \in 0..(n - 1) /\ ~(m <= m - 1)
  BY <1>2, <1>4, <1>5
<1>7. Hops(new, id)[m - 1] = Hops(old, id)[m - 1]
  <2>1. m - 1 \notin Bad
    <3> HIDE DEF Bad
    <3> QED BY <1>3, <1>6
  <2> QED BY <2>1, <1>6
<1>8. /\ Hops(new, id)[m] = Redirect(new, Hops(new, id)[m - 1])
      /\ Hops(old, id)[m] = Redirect(old, Hops(old, id)[m - 1])
  BY <1>6, HopFacts
<1>9. Redirect(new, Hops(old, id)[m - 1]) = Redirect(old, Hops(old, id)[m - 1])
  BY <1>6, AbsorbedRedirects
<1> QED BY <1>4, <1>7, <1>8, <1>9

(* The entities marked had no mark, so a chain met one of them at most.    *)
LEMMA ReachedOnce ==
    ASSUME NEW old, NEW new, NEW t, NEW S, Absorbs(old, new, t, S), NEW id,
           NEW h \in 0..MaxHops, Hops(old, id)[h] \in S,
           NEW k \in 0..MaxHops, k # h
    PROVE  /\ Hops(old, id)[k] \notin S
           /\ ~IsEnd(old, Hops(old, id)[k])
<1>1. MaxHops \in Nat /\ None \notin DOMAIN old /\ S \subseteq DOMAIN old
  BY HopFacts DEF Absorbs
<1>2. \A a, b \in 0..MaxHops : a < b /\ Hops(old, id)[a] \in S => Hops(old, id)[b] = None
  <2> TAKE a, b \in 0..MaxHops
  <2> HAVE a < b /\ Hops(old, id)[a] \in S
  <2>1. a + 1 \in 1..MaxHops /\ a + 1 \in 0..MaxHops /\ (a + 1) - 1 = a /\ b \in (a + 1)..MaxHops
    BY <1>1
  <2>2. Hops(old, id)[a + 1] = None
    BY <2>1, HopFacts, AbsorbedRedirects
  <2> QED BY <1>1, <2>1, <2>2, BrokenStaysBroken
<1>3. k < h \/ h < k
  BY <1>1
<1>4. Hops(old, id)[h] # None
  BY <1>1
<1>5. ASSUME k < h, IsEnd(old, Hops(old, id)[k]) PROVE FALSE
  <2>1. h \in (k + 1)..MaxHops
    BY <1>1, <1>5
  <2> QED BY <1>1, <1>4, <1>5, <2>1, EndIsLast
<1>6. h < k => Hops(old, id)[k] = None
  BY <1>2
<1>7. k < h => Hops(old, id)[k] \notin S
  BY <1>2, <1>4
<1> QED BY <1>1, <1>3, <1>5, <1>6, <1>7 DEF IsEnd

(* The chain of id leads to an entity of S, within the bound.              *)
Reaches(es, S, id) == \E h \in 0..(MaxHops - 1) : Hops(es, id)[h] \in S

(* A chain that led to none of the entities marked reads as before.        *)
LEMMA UnreachedReadsAsBefore ==
    ASSUME NEW old, NEW new, NEW t, NEW S, Absorbs(old, new, t, S), NEW id, ~Reaches(old, S, id)
    PROVE  CanonicalID(new, id) = CanonicalID(old, id)
<1>1. MaxHops \in Nat /\ None \notin DOMAIN old /\ None \notin DOMAIN new
  BY HopFacts DEF Absorbs
<1>2. ASSUME NEW hop \in 0..(MaxHops - 1)
      PROVE  /\ Hops(new, id)[hop] = Hops(old, id)[hop]
             /\ IsEnd(new, Hops(new, id)[hop]) <=> IsEnd(old, Hops(old, id)[hop])
  <2>1. hop \in 0..MaxHops /\ \A k \in 0..(hop - 1) : k \in 0..(MaxHops - 1)
    BY <1>1
  <2>2. \A k \in 0..(MaxHops - 1) : Hops(old, id)[k] \notin S
    BY DEF Reaches
  <2>3. Hops(new, id)[hop] = Hops(old, id)[hop]
    BY <2>1, <2>2, AgreeBefore
  <2> QED BY <2>2, <2>3, AbsorbedRedirects
<1>3. CASE \A hop \in 0..(MaxHops - 1) : ~IsEnd(old, Hops(old, id)[hop])
  BY <1>2, <1>3, ReadsAsItself
<1>4. CASE \E hop \in 0..(MaxHops - 1) : IsEnd(old, Hops(old, id)[hop])
  <2>1. PICK hop \in 0..(MaxHops - 1) : IsEnd(old, Hops(old, id)[hop])
    BY <1>4
  <2>2. CanonicalID(old, id) = Hops(old, id)[hop]
    BY <1>1, <2>1, ReadsAsItsEnd
  <2>3. CanonicalID(new, id) = Hops(new, id)[hop]
    BY <1>1, <1>2, <2>1, ReadsAsItsEnd
  <2> QED BY <1>2, <2>2, <2>3
<1> QED BY <1>3, <1>4

(* A chain that led to one of them now leads on to the target, unless it   *)
(* fails closed there.                                                     *)
LEMMA ReachedReadsAsTarget ==
    ASSUME NEW old, NEW new, NEW t, NEW S, Absorbs(old, new, t, S), NEW id, Reaches(old, S, id)
    PROVE  /\ CanonicalID(new, id) \in {t, id}
           /\ ~FailsClosed(new, id) => CanonicalID(new, id) = t
<1>1. /\ MaxHops \in Nat /\ None \notin DOMAIN old /\ None \notin DOMAIN new
      /\ t \in DOMAIN new /\ t # None /\ new[t].duplicateOf \in {None, Blank}
  BY HopFacts DEF Absorbs, Marked
<1>2. PICK h \in 0..(MaxHops - 1) : Hops(old, id)[h] \in S
  BY DEF Reaches
<1>3. /\ h \in 0..MaxHops /\ h + 1 \in 1..MaxHops /\ h + 1 \in 0..MaxHops /\ (h + 1) - 1 = h
      /\ \A k \in 0..(h - 1) : k \in 0..MaxHops /\ k # h
  BY <1>1, <1>2
<1>4. Hops(new, id)[h] = Hops(old, id)[h]
  BY <1>2, <1>3, ReachedOnce, AgreeBefore
<1>5. Hops(new, id)[h + 1] = t
  BY <1>2, <1>3, <1>4, HopFacts, AbsorbedRedirects
<1>6. ASSUME NEW k \in 0..(MaxHops - 1), IsEnd(new, Hops(new, id)[k]) PROVE k = h + 1
  <2>1. k \in 0..MaxHops
    BY <1>1
  <2>2. ASSUME k < h + 1 PROVE FALSE
    <3>1. h + 1 \in (k + 1)..MaxHops
      BY <1>3, <2>1, <2>2
    <3> QED BY <1>1, <1>5, <1>6, <2>1, <3>1, EndIsLast
  <2>3. ASSUME h + 1 < k PROVE FALSE
    <3>1. /\ (h + 1) + 1 \in 1..MaxHops /\ (h + 1) + 1 \in 0..MaxHops
          /\ ((h + 1) + 1) - 1 = h + 1 /\ k \in ((h + 1) + 1)..MaxHops
      BY HopFacts, <1>3, <2>1, <2>3
    <3>2. Hops(new, id)[(h + 1) + 1] = None
      BY <1>5, <3>1, HopFacts, AbsorbedRedirects
    <3>3. Hops(new, id)[k] = None
      BY <1>1, <3>1, <3>2, BrokenStaysBroken
    <3> QED BY <1>1, <1>6, <3>3 DEF IsEnd
  <2> QED BY <1>3, <2>1, <2>2, <2>3
<1>7. CanonicalID(new, id) \in {t, id}
  <2>1. CASE CanonicalID(new, id) = id
    BY <2>1
  <2>2. CASE \E k \in 0..(MaxHops - 1) :
               /\ IsEnd(new, Hops(new, id)[k]) /\ CanonicalID(new, id) = Hops(new, id)[k]
    BY <1>5, <1>6, <2>2
  <2> QED BY <1>1, <2>1, <2>2, CanonicalCases
<1>8. ASSUME ~FailsClosed(new, id) PROVE CanonicalID(new, id) = t
  <2>1. new[t].duplicateOf # Blank /\ ~(h + 1 = MaxHops /\ IsEnd(new, t))
    <3>1. ~(/\ Hops(new, id)[h + 1] \in DOMAIN new
            /\ \/ new[Hops(new, id)[h + 1]].duplicateOf = Blank
               \/ h + 1 = MaxHops /\ IsEnd(new, Hops(new, id)[h + 1]))
      BY <1>3, <1>8 DEF FailsClosed
    <3> QED BY <1>1, <1>5, <3>1
  <2>2. IsEnd(new, t)
    BY <1>1, <2>1 DEF IsEnd
  <2>3. h + 1 \in 0..(MaxHops - 1)
    BY <1>1, <1>3, <2>1, <2>2
  <2> QED BY <1>1, <1>5, <2>2, <2>3, ReadsAsItsEnd
<1> QED BY <1>7, <1>8

(* Before, it read as the entity marked, or as itself at a blank entry.    *)
LEMMA ReachedReadBefore ==
    ASSUME NEW old, NEW new, NEW t, NEW S, Absorbs(old, new, t, S), NEW id, Reaches(old, S, id)
    PROVE  \/ CanonicalID(old, id) \in S
           \/ CanonicalID(old, id) = id /\ ~IsEnd(old, id) /\ FailsClosed(old, id)
<1>1. MaxHops \in Nat /\ None \notin DOMAIN old /\ S \subseteq DOMAIN old
  BY HopFacts DEF Absorbs
<1>2. PICK h \in 0..(MaxHops - 1) : Hops(old, id)[h] \in S
  BY DEF Reaches
<1> DEFINE s == Hops(old, id)[h]
<1>3. s \in DOMAIN old /\ old[s].duplicateOf \in {None, Blank} /\ h \in 0..MaxHops /\ 0 \in 0..(MaxHops - 1)
  <2>1. \A x \in S : old[x].duplicateOf \in {None, Blank}
    BY DEF Absorbs, Marked
  <2> QED BY <1>1, <1>2, <2>1
<1>4. CASE old[s].duplicateOf = None
  <2>1. IsEnd(old, s)
    BY <1>3, <1>4 DEF IsEnd
  <2> QED BY <1>1, <1>2, <2>1, ReadsAsItsEnd
<1>5. CASE old[s].duplicateOf = Blank
  <2>1. FailsClosed(old, id)
    BY <1>3, <1>5 DEF FailsClosed
  <2>2. ~IsEnd(old, s)
    BY <1>5, InputAssumption DEF IsEnd
  <2>3. \A k \in 0..(MaxHops - 1) : ~IsEnd(old, Hops(old, id)[k])
    <3>1. \A k \in 0..(MaxHops - 1) : k \in 0..MaxHops
      BY <1>1
    <3>2. ASSUME NEW k \in 0..(MaxHops - 1), k # h PROVE ~IsEnd(old, Hops(old, id)[k])
      BY <1>2, <1>3, <3>1, <3>2, ReachedOnce
    <3> QED BY <2>2, <3>2
  <2>4. ~IsEnd(old, id)
    BY <1>3, <2>3, HopFacts
  <2> QED BY <2>1, <2>3, <2>4, ReadsAsItself
<1> QED BY <1>3, <1>4, <1>5

(* Two entities that read as one led to the same entities marked.          *)
LEMMA ReachedAlike ==
    ASSUME NEW old, NEW new, NEW t, NEW S, Absorbs(old, new, t, S), NEW id, NEW other,
           CanonicalID(old, id) = CanonicalID(old, other), Reaches(old, S, other)
    PROVE  Reaches(old, S, id)
<1>1. None \notin DOMAIN old /\ 0 \in 0..(MaxHops - 1)
  <2>1. \E h \in 0..(MaxHops - 1) : TRUE
    BY DEF Reaches
  <2> QED BY <2>1, HopFacts DEF Absorbs
<1>2. CASE CanonicalID(old, other) \in S
  <2>1. CASE CanonicalID(old, id) = id
    BY <1>1, <1>2, <2>1, HopFacts DEF Reaches
  <2>2. CASE \E hop \in 0..(MaxHops - 1) : CanonicalID(old, id) = Hops(old, id)[hop]
    BY <1>2, <2>2 DEF Reaches
  <2> QED BY <1>1, <2>1, <2>2, CanonicalCases
<1>3. CASE CanonicalID(old, other) = other /\ ~IsEnd(old, other)
  <2>1. id = other
    BY <1>1, <1>3, CanonicalCases
  <2> QED BY <2>1
<1> QED BY <1>2, <1>3, ReachedReadBefore

(* What a lookup answered it answers still.                                *)
LEMMA AbsorbingKeepsAnswers ==
    ASSUME NEW old, NEW new, NEW t, NEW S, Absorbs(old, new, t, S)
    PROVE  KeepsAnswers(old, new)
<1>1. ASSUME NEW id, NEW other, CanonicalID(old, id) = CanonicalID(old, other),
             ~FailsClosed(new, id), ~FailsClosed(new, other)
      PROVE  CanonicalID(new, id) = CanonicalID(new, other)
  <2>1. CASE Reaches(old, S, id)
    <3>1. Reaches(old, S, other)
      BY <1>1, <2>1, ReachedAlike
    <3> QED BY <1>1, <2>1, <3>1, ReachedReadsAsTarget
  <2>2. CASE ~Reaches(old, S, id)
    <3>1. ~Reaches(old, S, other)
      BY <1>1, <2>2, ReachedAlike
    <3> QED BY <1>1, <2>2, <3>1, UnreachedReadsAsBefore
  <2> QED BY <2>1, <2>2
<1>2. ASSUME NEW id \in DOMAIN old, ~FailsClosed(new, id),
             NEW f \in FactsOf(old, facts, id), ~FailsClosed(new, facts[f].subject)
      PROVE  f \in FactsOf(new, facts, id)
  <2>1. /\ f \in DOMAIN facts /\ facts[f].status = "active"
        /\ CanonicalID(old, facts[f].subject) = CanonicalID(old, id)
    BY <1>2 DEF FactsOf
  <2>2. CanonicalID(new, facts[f].subject) = CanonicalID(new, id)
    BY <1>1, <1>2, <2>1
  <2> QED BY <2>1, <2>2 DEF FactsOf
<1> QED BY <1>2 DEF KeepsAnswers

(* Only what the group was made of reads as one from now on.               *)
LEMMA JoinedToTheGroup ==
    ASSUME NEW old, NEW new, NEW t, NEW S, Absorbs(old, new, t, S), NEW id, NEW other,
           CanonicalID(new, id) = CanonicalID(new, other),
           Reaches(old, S, id), ~FailsClosed(old, id), ~FailsClosed(old, other)
    PROVE  CanonicalID(old, id) \in S /\ CanonicalID(old, other) \in S \cup {t}
<1>1. None \notin DOMAIN old /\ 0 \in 0..(MaxHops - 1)
  <2>1. \E h \in 0..(MaxHops - 1) : TRUE
    BY DEF Reaches
  <2> QED BY <2>1, HopFacts DEF Absorbs
<1>2. CanonicalID(old, id) \in S
  BY ReachedReadBefore
<1>3. CASE Reaches(old, S, other)
  BY <1>2, <1>3, ReachedReadBefore
<1>4. CASE ~Reaches(old, S, other)
  <2>1. CanonicalID(old, other) \in {t, id}
    BY <1>4, UnreachedReadsAsBefore, ReachedReadsAsTarget
  <2>2. ASSUME CanonicalID(old, other) = id PROVE FALSE
    <3>1. id # other
      BY <1>4
    <3>2. PICK hop \in 0..(MaxHops - 1) : IsEnd(old, Hops(old, other)[hop]) /\ id = Hops(old, other)[hop]
      BY <1>1, <2>2, <3>1, CanonicalCases
    <3>3. CanonicalID(old, id) = id
      BY <1>1, <3>2, HopFacts, ReadsAsItsEnd
    <3> QED BY <1>2, <1>4, <3>2, <3>3 DEF Reaches
  <2> QED BY <1>2, <2>1, <2>2
<1> QED BY <1>2, <1>3, <1>4

LEMMA AbsorbingJoinsOneIdentity ==
    ASSUME NEW old, NEW new, NEW t, NEW S, Absorbs(old, new, t, S),
           \A x, y \in S \cup {t} : SameIdentity(old[x], old[y])
    PROVE  JoinsIdentities(old, new)
<1>1. \A x, y \in S \cup {t} : Indistinguishable(old[x], old[y])
  BY SameIdentityFields DEF Indistinguishable
<1>2. ASSUME NEW id, NEW other, CanonicalID(new, id) = CanonicalID(new, other),
             ~FailsClosed(old, id), ~FailsClosed(old, other)
      PROVE  Indistinguishable(old[CanonicalID(old, id)], old[CanonicalID(old, other)])
  <2>1. CASE Reaches(old, S, id)
    BY <1>1, <1>2, <2>1, JoinedToTheGroup
  <2>2. CASE Reaches(old, S, other)
    BY <1>1, <1>2, <2>2, JoinedToTheGroup
  <2>3. CASE ~Reaches(old, S, id) /\ ~Reaches(old, S, other)
    <3>1. CanonicalID(old, id) = CanonicalID(old, other)
      BY <1>2, <2>3, UnreachedReadsAsBefore
    <3> QED BY <3>1 DEF Indistinguishable
  <2> QED BY <2>1, <2>2, <2>3
<1> QED BY <1>2 DEF JoinsIdentities

(* A batch of marks is such a step.                                        *)
LEMMA MarkingAbsorbs ==
    ASSUME NEW es \in Records, NEW target \in DOMAIN es, NEW sources \in SUBSET DOMAIN es,
           target \notin sources, NEW aliases \in SUBSET Words,
           \A id \in sources \cup {target} : ~Marked(es[id]) /\ es[id].space = es[target].space
    PROVE  Absorbs(es, MarkedBy(es, target, sources, aliases), target, sources)
<1> DEFINE new == MarkedBy(es, target, sources, aliases)
<1>1. /\ DOMAIN new = DOMAIN es
      /\ \A id \in DOMAIN es :
           /\ new[id].space = es[id].space
           /\ new[id].duplicateOf = IF id \in sources THEN target ELSE es[id].duplicateOf
  BY MarkedByFacts
<1>2. None \notin DOMAIN es /\ target \notin {None, Blank}
  BY RecordsAre, InputAssumption
<1> HIDE DEF new
<1>3. Absorbs(es, new, target, sources)
  BY <1>1, <1>2 DEF Absorbs
<1> QED BY <1>3 DEF new

(* Merging gathers what belongs together and nothing else: no lookup loses *)
(* a fact it answered but where a chain fails closed, and compaction joins *)
(* only what had one complete identity, for any marks callers wrote and    *)
(* any bound on a chain.                                                   *)
THEOREM MergesGather == Spec => MergesGatherWhatBelongsTogether
<1> DEFINE Gathers ==
      writer' \in {"merge", "compaction"} /\ facts' = facts =>
          /\ KeepsAnswers(entities, entities')
          /\ writer' = "compaction" => JoinsIdentities(entities, entities')
<1>1. ASSUME IInv, MergeEntities PROVE Gathers
  <2>1. TypeOK /\ entities \in Records
    BY <1>1, TypeParts DEF IInv
  <2>2. PICK request \in Callers.merges :
          /\ request[2] \cup {request[1]} \subseteq DOMAIN entities
          /\ ~Marked(entities[request[1]])
          /\ \A s \in request[2] : Mergeable(entities, request[1], s)
          /\ entities' = MarkedBy(entities, request[1], request[2],
                                  MergedAliases(entities, request[1], request[2]))
    BY <1>1 DEF MergeEntities
  <2>3. /\ request[1] \notin request[2]
        /\ \A s \in request[2] : ~Marked(entities[s]) /\ entities[s].space = entities[request[1]].space
    BY <2>2 DEF Mergeable
  <2>4. MergedAliases(entities, request[1], request[2]) \in SUBSET Words
    BY <2>1, <2>2, MergedAliasesAreWords
  <2>5. Absorbs(entities, entities', request[1], request[2])
    BY <2>1, <2>2, <2>3, <2>4, MarkingAbsorbs
  <2>6. writer' = "merge"
    BY <1>1 DEF MergeEntities
  <2> QED BY <2>5, <2>6, AbsorbingKeepsAnswers
<1>2. ASSUME IInv, CompactEntities PROVE Gathers
  <2> DEFINE g == NextGroup
  <2> DEFINE target == Lowest(g)
  <2>1. TypeOK /\ entities \in Records /\ PlanIsCurrent
    BY <1>2, TypeParts DEF IInv
  <2>2. /\ window.phase = "entities" /\ window.groups # {}
        /\ entities' = MarkedBy(entities, target, g \ {target}, entities[target].aliases)
    BY <1>2 DEF CompactEntities
  <2>3. g \in EntityGroups(entities)
    BY <2>1, <2>2, NextGroupIsPlanned DEF PlanIsCurrent
  <2>4. g \subseteq Unmarked(entities) /\ target \in g /\ \A x \in g : g = IdentityGroup(entities, x)
    BY <2>1, <2>3, GroupFacts, UnmarkedIsFinite, LowestIsLeast
  <2> HIDE DEF g, target
  <2>5. g \subseteq DOMAIN entities /\ \A x \in g : ~Marked(entities[x])
    BY <2>4 DEF Unmarked
  <2>6. \A x, y \in g : SameIdentity(entities[x], entities[y])
    BY <2>4 DEF IdentityGroup
  <2>7. \A x \in g : entities[x].space = entities[target].space
    BY <2>4, <2>6, SameIdentityFields
  <2>8. entities[target].aliases \in SUBSET Words
    BY <2>1, <2>4, <2>5, MergedAliasesAreWords
  <2> DEFINE sources == g \ {target}
  <2>9. target \notin sources /\ sources \subseteq g /\ sources \cup {target} = g
    BY <2>4
  <2>10. entities' = MarkedBy(entities, target, sources, entities[target].aliases)
    BY <2>2
  <2> HIDE DEF sources
  <2>11. Absorbs(entities, entities', target, sources)
    BY <2>1, <2>4, <2>5, <2>7, <2>8, <2>9, <2>10, MarkingAbsorbs
  <2>12. JoinsIdentities(entities, entities')
    BY <2>6, <2>9, <2>11, AbsorbingJoinsOneIdentity
  <2> QED BY <2>11, <2>12, AbsorbingKeepsAnswers
<1>3. KeepsAnswers(entities, entities) /\ JoinsIdentities(entities, entities)
  BY DEF KeepsAnswers, JoinsIdentities, Indistinguishable
<1>4. ASSUME Next, ~MergeEntities, ~CompactEntities PROVE Gathers
  <2>1. writer' \notin {"merge", "compaction"} \/ entities' = entities
    BY <1>4 DEF Next, UpsertEntity, AssertFact, RetractFact, AutomaticAssert, BeginCompaction,
                CompactionRefused, CompactFact, EndCompaction, Report, CompactionStops
  <2>2. CASE entities' = entities
    BY <1>3, <2>2
  <2> QED BY <2>1, <2>2
<1>5. IInv /\ [Next]_vars => [Gathers]_vars
  BY <1>1, <1>2, <1>4
<1> QED BY InductiveInvariant, <1>5, PTL DEF Spec, MergesGatherWhatBelongsTogether
=============================================================================
