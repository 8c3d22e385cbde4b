--------------------------- MODULE Service_proofs ---------------------------
(***************************************************************************)
(* What clients may rely on, for any number of clients, operations and     *)
(* attempts: the safety properties of Service, from one inductive          *)
(* invariant.                                                              *)
(***************************************************************************)
EXTENDS Service, FiniteSetTheorems, TLAPS

-----------------------------------------------------------------------------
(* Facts only accumulate.                                                  *)

\* A map of facts; an active one has no successor yet.
WellFormed(fs) ==
    /\ fs = [id \in DOMAIN fs |-> [space |-> fs[id].space, status |-> fs[id].status,
                                   by |-> fs[id].by, successor |-> fs[id].successor]]
    /\ \A id \in DOMAIN fs : fs[id].status = "active" => fs[id].successor = None

\* What may become of stored facts: never less, never another space or origin.
Grows(old, new) ==
    /\ DOMAIN old \subseteq DOMAIN new
    /\ \A id \in DOMAIN old :
          /\ new[id].space = old[id].space /\ new[id].by = old[id].by
          /\ old[id].status = "retracted" => new[id].status = "retracted"
          /\ old[id].status # "active" =>
                new[id].status # "active" /\ new[id].successor = old[id].successor

\* The target of o was replaced by id.
Replaced(fs, o, id) ==
    /\ o.target \in DOMAIN fs
    /\ fs[o.target].status # "active" /\ fs[o.target].successor = id

\* fs shows that client c got o done.
DoneIn(fs, o, c) ==
    /\ o.kind = "assert" => Created(fs, c) # {}
    /\ o.kind = "supersede" => \E id \in Created(fs, c) : Replaced(fs, o, id)
    /\ o.kind = "retract" => o.target \in DOMAIN fs /\ fs[o.target].status = "retracted"

Refusals == {"400", "404", "409"}

-----------------------------------------------------------------------------
(* The inductive invariant.                                                *)

\* A handler runs on a daemon that is up, for a client that waits or gave up.
HandlerInv ==
    \A c \in Clients :
        /\ op[c] = None <=> attempts[c] = 0
        /\ handler[c] # "none" =>
              daemon # "down" /\ attempts[c] # 0 /\ told[c] \in {"waiting", "lost"}

\* The engine and the database differ only after a save of unknown outcome.
MemoryInv ==
    /\ WellFormed(facts) /\ WellFormed(stored)
    /\ ~poisoned => facts = stored

\* What was answered, or is about to be, was done.
DoneInv ==
    \A c \in Clients :
        \/ told[c] = "200"
        \/ handler[c] = "answering" /\ outcome[c] = "200"
        => DoneIn(stored, op[c], c)

\* A client whose only attempt did not take effect so far has left nothing.
Fruitless(c) ==
    \/ attempts[c] = 0
    \/ /\ attempts[c] = 1
       /\ \/ handler[c] \in {"received", "checked"}
          \/ handler[c] = "answering" /\ outcome[c] \in Refusals
          \/ told[c] \in Refusals
FruitlessInv ==
    \A c \in Clients : Fruitless(c) => Created(facts, c) = {} /\ Created(stored, c) = {}

\* A fact a client created to replace another one did replace it.
SuccessorInv ==
    \A id \in DOMAIN stored : \A c \in Clients :
        stored[id].by = c =>
            op[c] # None /\ (op[c].kind = "supersede" => Replaced(stored, op[c], id))

\* The check holds for as long as the handler runs.
CheckedInv ==
    \A c \in Clients : handler[c] = "checked" =>
        /\ op[c].kind \in {"supersede", "retract"}
        /\ Found(c, RequestSpace(op[c]))

IInv ==
    /\ TypeOK
    /\ HandlerInv
    /\ MemoryInv
    /\ DoneInv
    /\ FruitlessInv
    /\ SuccessorInv
    /\ CheckedInv

-----------------------------------------------------------------------------
(* One operation of the engine.                                            *)

(* A new fact leaves every other one as it is.                             *)
LEMMA Adding ==
    ASSUME NEW fs, WellFormed(fs), NEW id, id \notin DOMAIN fs, NEW space, NEW c,
           NEW new, new = With(fs, id, NewFact(space, c))
    PROVE  /\ WellFormed(new) /\ Grows(fs, new)
           /\ DOMAIN new = DOMAIN fs \cup {id} /\ new[id].by = c
           /\ \A x \in DOMAIN fs : new[x] = fs[x]
<1>1. /\ DOMAIN new = DOMAIN fs \cup {id} /\ new = [x \in DOMAIN new |-> new[x]]
      /\ \A x \in DOMAIN fs : new[x] = fs[x]
    BY DEF With
<1>2. new[id] = [space |-> space, status |-> "active", by |-> c, successor |-> None]
    BY DEF With, NewFact
<1> QED
    BY <1>1, <1>2 DEF WellFormed, Grows

(* Everything that is used of an engine operation: facts accumulate, the   *)
(* new ones are the caller's, a refusal changes nothing, a success did     *)
(* what was asked, and only the target of a lifecycle change is touched.   *)
Effect(fs, o, c, r) ==
    /\ WellFormed(r.facts) /\ Grows(fs, r.facts)
    /\ \A x \in DOMAIN r.facts \ DOMAIN fs :
          r.facts[x].by = c /\ (o.kind = "supersede" => Replaced(r.facts, o, x))
    /\ r.status \in Refusals => r.facts = fs
    /\ r.status = "200" => DoneIn(r.facts, o, c)
    /\ r.status \in {"200", "404", "409"}
    /\ \A x \in DOMAIN fs : r.facts[x] # fs[x] => o.kind # "assert" /\ x = o.target

LEMMA AssertEffect ==
    ASSUME NEW fs, WellFormed(fs), NEW o, o.kind = "assert", NEW c,
           NEW r \in AssertResults(fs, o, c)
    PROVE  Effect(fs, o, c, r)
<1>1. PICK id \in NewID(fs, o.new) :
        r = IF id \in DOMAIN fs THEN [status |-> "409", facts |-> fs]
            ELSE [status |-> "200", facts |-> With(fs, id, NewFact(Normal(First(o.inner, o.outer)), c))]
    BY DEF AssertResults
<1>2. CASE id \in DOMAIN fs
    BY <1>1, <1>2 DEF Effect, Grows, Refusals
<1>3. CASE id \notin DOMAIN fs
    <2> DEFINE new == With(fs, id, NewFact(Normal(First(o.inner, o.outer)), c))
    <2>1. r = [status |-> "200", facts |-> new]
        BY <1>1, <1>3
    <2>2. /\ WellFormed(new) /\ Grows(fs, new)
          /\ DOMAIN new = DOMAIN fs \cup {id} /\ new[id].by = c
          /\ \A x \in DOMAIN fs : new[x] = fs[x]
        BY <1>3, Adding
    <2>3. id \in Created(new, c)
        BY <2>2 DEF Created
    <2>4. r.facts = new /\ r.status = "200"
        BY <2>1
    <2> HIDE DEF new
    <2> QED
        BY <2>2, <2>3, <2>4 DEF Effect, DoneIn, Refusals
<1> QED
    BY <1>2, <1>3

LEMMA SupersedeEffect ==
    ASSUME NEW fs, WellFormed(fs), NEW o, o.kind = "supersede", NEW c,
           NEW r \in SupersedeResults(fs, o, c)
    PROVE  Effect(fs, o, c, r)
<1>1. CASE r = [status |-> "404", facts |-> fs] \/ r = [status |-> "409", facts |-> fs]
    BY <1>1 DEF Effect, Grows, Refusals
<1>2. CASE ~(r = [status |-> "404", facts |-> fs] \/ r = [status |-> "409", facts |-> fs])
    <2>1. o.target \in DOMAIN fs
        BY <1>2 DEF SupersedeResults
    <2>2. PICK id \in NewID(fs, o.new) :
            /\ id \notin DOMAIN fs /\ fs[o.target].status = "active"
            /\ r = [status |-> "200", facts |-> Superseded(fs, o, c, id)]
        BY <1>2, <2>1 DEF SupersedeResults
    <2> DEFINE old == [fs EXCEPT ![o.target].status = "superseded", ![o.target].successor = id]
    <2> DEFINE new == With(old, id, NewFact(fs[o.target].space, c))
    <2>3. /\ WellFormed(old) /\ DOMAIN old = DOMAIN fs /\ Grows(fs, old)
          /\ old[o.target].status = "superseded" /\ old[o.target].successor = id
          /\ \A x \in DOMAIN fs : old[x] # fs[x] => x = o.target
        <3>1. /\ DOMAIN old = DOMAIN fs /\ \A x \in DOMAIN fs : x # o.target => old[x] = fs[x]
              /\ old = [x \in DOMAIN old |-> old[x]]
            OBVIOUS
        <3>2. old[o.target] = [space |-> fs[o.target].space, status |-> "superseded",
                               by |-> fs[o.target].by, successor |-> id]
            <4>1. fs[o.target] = [space |-> fs[o.target].space, status |-> fs[o.target].status,
                                  by |-> fs[o.target].by, successor |-> fs[o.target].successor]
                BY <2>1 DEF WellFormed
            <4>2. old[o.target] = [fs[o.target] EXCEPT !.status = "superseded", !.successor = id]
                BY <2>1
            <4> QED
                BY <4>1, <4>2
        <3> HIDE DEF old
        <3> QED
            BY <2>1, <2>2, <3>1, <3>2 DEF WellFormed, Grows
    <2> HIDE DEF old
    <2>4. /\ WellFormed(new) /\ Grows(old, new)
          /\ DOMAIN new = DOMAIN fs \cup {id} /\ new[id].by = c
          /\ \A x \in DOMAIN fs : new[x] = old[x]
        <3>1. id \notin DOMAIN old /\ new = With(old, id, NewFact(fs[o.target].space, c))
            BY <2>2, <2>3
        <3>2. WellFormed(old)
            BY <2>3
        <3> DEFINE space == fs[o.target].space
        <3>3. new = With(old, id, NewFact(space, c))
            BY <3>1
        <3> HIDE DEF new, space
        <3>4. /\ WellFormed(new) /\ Grows(old, new)
              /\ DOMAIN new = DOMAIN old \cup {id} /\ new[id].by = c
              /\ \A x \in DOMAIN old : new[x] = old[x]
            BY <3>1, <3>2, <3>3, Adding
        <3> QED
            BY <2>3, <3>4
    <2>5. r.facts = new /\ r.status = "200"
        BY <2>2 DEF Superseded, old
    <2> HIDE DEF new
    <2>6. Replaced(new, o, id) /\ id \in Created(new, c)
        BY <2>1, <2>3, <2>4 DEF Replaced, Created
    <2>7. Grows(fs, new)
        BY <2>3, <2>4 DEF Grows
    <2> QED
        BY <2>3, <2>4, <2>5, <2>6, <2>7 DEF Effect, DoneIn, Refusals
<1> QED
    BY <1>1, <1>2

LEMMA RetractEffect ==
    ASSUME NEW fs, WellFormed(fs), NEW o, o.kind = "retract", NEW c,
           NEW r \in RetractResults(fs, o)
    PROVE  Effect(fs, o, c, r)
<1>1. CASE r = [status |-> "404", facts |-> fs]
    BY <1>1 DEF Effect, Grows, Refusals
<1>2. CASE r # [status |-> "404", facts |-> fs]
    <2> DEFINE new == [fs EXCEPT ![o.target].status = "retracted"]
    <2>1. o.target \in DOMAIN fs /\ r = [status |-> "200", facts |-> new]
        BY <1>2 DEF RetractResults
    <2>2. /\ WellFormed(new) /\ DOMAIN new = DOMAIN fs /\ Grows(fs, new)
          /\ new[o.target].status = "retracted"
          /\ \A x \in DOMAIN fs : new[x] # fs[x] => x = o.target
        <3>1. /\ DOMAIN new = DOMAIN fs /\ \A x \in DOMAIN fs : x # o.target => new[x] = fs[x]
              /\ new = [x \in DOMAIN new |-> new[x]]
            OBVIOUS
        <3>2. new[o.target] = [space |-> fs[o.target].space, status |-> "retracted",
                               by |-> fs[o.target].by, successor |-> fs[o.target].successor]
            <4>1. fs[o.target] = [space |-> fs[o.target].space, status |-> fs[o.target].status,
                                  by |-> fs[o.target].by, successor |-> fs[o.target].successor]
                BY <2>1 DEF WellFormed
            <4>2. new[o.target] = [fs[o.target] EXCEPT !.status = "retracted"]
                BY <2>1
            <4> QED
                BY <4>1, <4>2
        <3> HIDE DEF new
        <3> QED
            BY <2>1, <3>1, <3>2 DEF WellFormed, Grows
    <2>3. r.facts = new /\ r.status = "200"
        BY <2>1
    <2> HIDE DEF new
    <2> QED
        BY <2>1, <2>2, <2>3 DEF Effect, DoneIn, Refusals
<1> QED
    BY <1>1, <1>2

LEMMA ResultsEffect ==
    ASSUME NEW fs, WellFormed(fs), NEW o, o.kind \in {"assert", "supersede", "retract"}, NEW c,
           NEW r \in Results(fs, o, c)
    PROVE  Effect(fs, o, c, r)
<1>1. CASE o.kind = "assert"
    BY <1>1, AssertEffect DEF Results
<1>2. CASE o.kind = "supersede"
    BY <1>2, SupersedeEffect DEF Results
<1>3. CASE o.kind = "retract"
    BY <1>3, RetractEffect DEF Results
<1> QED
    BY <1>1, <1>2, <1>3

LEMMA GrowsReflexive ==
    ASSUME NEW fs
    PROVE  Grows(fs, fs)
BY DEF Grows

(* What was done stays done.                                               *)
LEMMA DoneGrows ==
    ASSUME NEW old, NEW new, Grows(old, new), NEW o, NEW c, DoneIn(old, o, c)
    PROVE  DoneIn(new, o, c)
<1>1. Created(old, c) \subseteq Created(new, c)
    BY DEF Grows, Created
<1>2. \A id : Replaced(old, o, id) => Replaced(new, o, id)
    BY DEF Grows, Replaced
<1>3. o.target \in DOMAIN old /\ old[o.target].status = "retracted"
        => o.target \in DOMAIN new /\ new[o.target].status = "retracted"
    BY DEF Grows
<1> QED
    BY <1>1, <1>2, <1>3 DEF DoneIn

(* The call of a handler has the effect of one operation, and is its last. *)
LEMMA CallEffect ==
    ASSUME IInv, NEW c \in Clients, AtCall(c), ~poisoned, NEW r \in Results(facts, op[c], c)
    PROVE  Effect(facts, op[c], c, r) /\ facts = stored
<1>1. op[c].kind \in {"assert", "supersede", "retract"}
    BY DEF IInv, CheckedInv, AtCall
<1> QED
    BY <1>1, ResultsEffect DEF IInv, MemoryInv

-----------------------------------------------------------------------------
(* The invariant holds.                                                    *)

LEMMA InitInv ==
    ASSUME Init
    PROVE  IInv
<1>1. TypeOK
    <2>1. 0 \in 0..MaxAttempts
        BY ServiceAssumption
    <2> QED
        BY <2>1 DEF Init, TypeOK
<1> USE ServiceAssumption
<1>2. HandlerInv
    BY DEF Init, HandlerInv
<1>3. WellFormed(InitialFacts) /\ \A c \in Clients : Created(InitialFacts, c) = {}
    <2>1. \A id \in DOMAIN InitialFacts :
            InitialFacts[id] = [space |-> InitialFacts[id].space, status |-> "active",
                                by |-> None, successor |-> None]
        OBVIOUS
    <2>2. \A id \in DOMAIN InitialFacts :
            /\ InitialFacts[id].status = "active" /\ InitialFacts[id].by = None
            /\ InitialFacts[id].successor = None
        BY <2>1
    <2> QED
        BY <2>1, <2>2 DEF WellFormed, Created
<1>4. MemoryInv
    BY <1>3 DEF Init, MemoryInv
<1>5. DoneInv
    BY DEF Init, DoneInv
<1>6. FruitlessInv
    BY <1>3 DEF Init, FruitlessInv
<1>7. SuccessorInv
    BY <1>3 DEF Init, SuccessorInv, Created
<1>8. CheckedInv
    BY DEF Init, CheckedInv
<1> QED
    BY <1>1, <1>2, <1>4, <1>5, <1>6, <1>7, <1>8 DEF IInv

(* What a step does to the facts of the engine and of the database.        *)
LEMMA DataStep ==
    ASSUME IInv, [Next]_vars
    PROVE  /\ MemoryInv'
           /\ Grows(stored, stored')
           /\ daemon # "down" => Grows(facts, facts')
<1> USE DEF IInv, MemoryInv
<1>1. CASE UNCHANGED engineVars
    BY <1>1, GrowsReflexive DEF engineVars
<1>2. CASE \E c \in Clients : Commits(c)
    <2>1. PICK c \in Clients : Commits(c)
        BY <1>2
    <2>2. PICK r \in Results(facts, op[c], c) : facts' = r.facts /\ stored' = r.facts
        BY <2>1 DEF Commits
    <2>3. Effect(facts, op[c], c, r) /\ facts = stored
        BY <2>1, CallEffect DEF Commits
    <2> QED
        BY <2>2, <2>3 DEF Effect
<1>3. CASE \E c \in Clients : SaveUnknown(c)
    <2>1. PICK c \in Clients : SaveUnknown(c)
        BY <1>3
    <2>2. PICK r \in Results(facts, op[c], c) : stored' \in {facts, r.facts}
        BY <2>1 DEF SaveUnknown
    <2>3. Effect(facts, op[c], c, r) /\ facts = stored
        BY <2>1, CallEffect DEF SaveUnknown
    <2>4. facts' = facts /\ poisoned'
        BY <2>1 DEF SaveUnknown
    <2> QED
        BY <2>2, <2>3, <2>4, GrowsReflexive DEF Effect
<1>4. CASE Start
    BY <1>4, GrowsReflexive DEF Start
<1>5. CASE CloseEngine
    BY <1>5, GrowsReflexive DEF CloseEngine
<1>6. CASE \E c \in Clients : \/ Send(c) \/ Disconnect(c) \/ Get(c) \/ Mismatch(c) \/ Check(c)
                              \/ Cancelled(c) \/ Refused(c) \/ SaveFails(c) \/ Answer(c)
    BY <1>6, <1>1 DEF Send, Disconnect, Get, Mismatch, Check, Cancelled, Refused, SaveFails, Answer
<1>7. CASE CloseAtOnce \/ Listen \/ Interrupt \/ ServeFails \/ Kill \/ Drained
             \/ ShutdownTimesOut \/ Exit
    BY <1>7, <1>1 DEF CloseAtOnce, Listen, Interrupt, ServeFails, Kill, Drained,
                      ShutdownTimesOut, Exit, Gone
<1>8. CASE UNCHANGED vars
    BY <1>8, <1>1 DEF vars, engineVars
<1> QED
    BY <1>2, <1>3, <1>4, <1>5, <1>6, <1>7, <1>8 DEF Next, Stopping

LEMMA TypeKept ==
    ASSUME IInv, [Next]_vars
    PROVE  TypeOK'
<1> USE ServiceAssumption DEF IInv, TypeOK, Statuses, clientVars, handlerVars, engineVars
<1>1. DOMAIN InitialFacts \subseteq DOMAIN stored'
    BY DataStep DEF Grows
<1>2. ASSUME NEW c \in Clients, Send(c)
      PROVE  TypeOK'
    <2>1. attempts[c] \in 0..MaxAttempts /\ attempts[c] < MaxAttempts
        BY <1>2 DEF Send
    <2>2. attempts[c] + 1 \in 0..MaxAttempts
        BY <2>1
    <2> QED
        BY <1>1, <1>2, <2>2 DEF Send
<1>3. ASSUME NEW c \in Clients, Commits(c)
      PROVE  TypeOK'
    <2>1. PICK r \in Results(facts, op[c], c) : Concludes(c, r.status)
        BY <1>3 DEF Commits
    <2>2. r.status \in {"200", "404", "409"}
        BY <1>3, CallEffect DEF Commits, Effect
    <2> QED
        BY <1>1, <1>3, <2>1, <2>2 DEF Commits, Concludes
<1>4. ASSUME NEW c \in Clients,
             \/ Get(c) \/ Mismatch(c) \/ Cancelled(c) \/ Refused(c) \/ SaveFails(c) \/ SaveUnknown(c)
      PROVE  TypeOK'
    <2>1. PICK status \in Statuses : Concludes(c, status)
        BY <1>4 DEF Get, GetStatus, Mismatch, Cancelled, Refused, SaveFails, SaveUnknown
    <2>2. /\ handler' \in [Clients -> {"none", "received", "checked", "answering"}]
          /\ outcome' \in [Clients -> {None} \cup Statuses] /\ UNCHANGED cut
        BY <2>1 DEF Concludes
    <2>3. UNCHANGED <<daemon, op, attempts, told>> /\ poisoned' \in BOOLEAN
        BY <1>4 DEF Get, Mismatch, Cancelled, Refused, SaveFails, SaveUnknown
    <2> QED
        BY <1>1, <2>2, <2>3
<1>5. ASSUME NEW c \in Clients, Disconnect(c) \/ Check(c) \/ Answer(c)
      PROVE  TypeOK'
    <2>1. CASE Disconnect(c)
        BY <1>1, <2>1 DEF Disconnect
    <2>2. CASE Check(c)
        BY <1>1, <2>2 DEF Check, CheckStatus, Concludes
    <2>3. CASE Answer(c)
        BY <1>1, <2>3 DEF Answer
    <2> QED
        BY <1>5, <2>1, <2>2, <2>3
<1>7. Lost \in [Clients -> {None, "waiting", "lost"} \cup Statuses]
    BY DEF Lost
<1>8. CASE Start \/ CloseAtOnce \/ Listen \/ Interrupt \/ ServeFails \/ Drained \/ CloseEngine
    BY <1>1, <1>8 DEF Start, CloseAtOnce, Listen, Interrupt, ServeFails, Drained, CloseEngine
<1>9. CASE Kill \/ Exit \/ ShutdownTimesOut
    <2>1. CASE Kill \/ Exit
        BY <1>1, <1>7, <2>1 DEF Kill, Exit, Gone
    <2>2. CASE ShutdownTimesOut
        BY <1>1, <1>7, <2>2 DEF ShutdownTimesOut
    <2> QED
        BY <1>9, <2>1, <2>2
<1>6. CASE UNCHANGED vars
    BY <1>1, <1>6 DEF vars
<1> QED
    BY <1>2, <1>3, <1>4, <1>5, <1>6, <1>8, <1>9 DEF Next, Stopping

LEMMA HandlerKept ==
    ASSUME IInv, [Next]_vars
    PROVE  HandlerInv'
<1> USE ServiceAssumption DEF IInv, TypeOK, HandlerInv, clientVars, handlerVars, engineVars
<1>1. ASSUME NEW c \in Clients, Send(c)
      PROVE  HandlerInv'
    <2>1. attempts[c] \in Nat
        OBVIOUS
    <2> QED
        BY <1>1, <2>1 DEF Send
<1>2. ASSUME NEW c \in Clients,
             \/ Disconnect(c) \/ Get(c) \/ Mismatch(c) \/ Check(c) \/ Cancelled(c)
             \/ Refused(c) \/ Commits(c) \/ SaveFails(c) \/ SaveUnknown(c) \/ Answer(c)
      PROVE  HandlerInv'
    BY <1>2 DEF Disconnect, Get, Mismatch, Check, AtCall, Cancelled, Refused, Commits, SaveFails,
                SaveUnknown, Answer, Concludes
<1>3. CASE \/ Start \/ CloseAtOnce \/ Listen \/ Interrupt \/ ServeFails \/ Kill \/ Drained
           \/ ShutdownTimesOut \/ CloseEngine \/ Exit
    BY <1>3 DEF Start, CloseAtOnce, Listen, Interrupt, ServeFails, Kill, Drained,
                ShutdownTimesOut, CloseEngine, Exit, Gone, Lost
<1>4. CASE UNCHANGED vars
    BY <1>4 DEF vars
<1> QED
    BY <1>1, <1>2, <1>3, <1>4 DEF Next, Stopping

LEMMA DoneKept ==
    ASSUME IInv, [Next]_vars
    PROVE  DoneInv'
<1> USE ServiceAssumption DEF clientVars, handlerVars, engineVars
<1> SUFFICES ASSUME NEW c \in Clients,
                    told'[c] = "200" \/ (handler'[c] = "answering" /\ outcome'[c] = "200")
             PROVE  DoneIn(stored', op'[c], c)
    BY DEF DoneInv
<1>1. Grows(stored, stored')
    BY DataStep
<1>2. ASSUME op'[c] = op[c],
             told[c] = "200" \/ (handler[c] = "answering" /\ outcome[c] = "200")
      PROVE  DoneIn(stored', op'[c], c)
    BY <1>1, <1>2, DoneGrows DEF IInv, DoneInv
<1>3. ASSUME NEW d \in Clients, Commits(d)
      PROVE  DoneIn(stored', op'[c], c)
    <2>1. PICK r \in Results(facts, op[d], d) : stored' = r.facts /\ Concludes(d, r.status)
        BY <1>3 DEF Commits
    <2>2. Effect(facts, op[d], d, r)
        BY <1>3, CallEffect DEF Commits
    <2>3. CASE c = d /\ outcome'[c] = "200"
        BY <1>3, <2>1, <2>2, <2>3 DEF Commits, Concludes, Effect, IInv, TypeOK
    <2>4. CASE ~(c = d /\ outcome'[c] = "200")
        BY <1>2, <1>3, <2>1, <2>4 DEF Commits, Concludes, IInv, TypeOK
    <2> QED
        BY <2>3, <2>4
<1>4. ASSUME NEW d \in Clients, Get(d)
      PROVE  DoneIn(stored', op'[c], c)
    <2>1. CASE c = d
        BY <1>4, <2>1 DEF Get, DoneIn
    <2>2. CASE c # d
        BY <1>2, <1>4, <2>2 DEF Get, Concludes, IInv, TypeOK
    <2> QED
        BY <2>1, <2>2
<1>5. ASSUME NEW d \in Clients,
             \/ Mismatch(d) \/ Cancelled(d) \/ Refused(d) \/ SaveFails(d) \/ SaveUnknown(d)
      PROVE  DoneIn(stored', op'[c], c)
    <2>1. \E status \in Statuses : status # "200" /\ Concludes(d, status)
        BY <1>5 DEF Mismatch, Cancelled, Refused, SaveFails, SaveUnknown, Statuses
    <2>2. UNCHANGED <<op, told>>
        BY <1>5 DEF Mismatch, Cancelled, Refused, SaveFails, SaveUnknown
    <2> QED
        BY <1>2, <2>1, <2>2 DEF Concludes, IInv, TypeOK
<1>6. ASSUME NEW d \in Clients, Check(d)
      PROVE  DoneIn(stored', op'[c], c)
    BY <1>2, <1>6 DEF Check, CheckStatus, Concludes, IInv, TypeOK
<1>7. ASSUME NEW d \in Clients, Send(d) \/ Disconnect(d) \/ Answer(d)
      PROVE  DoneIn(stored', op'[c], c)
    <2>1. CASE Send(d)
        BY <1>2, <2>1 DEF Send, IInv, TypeOK
    <2>2. CASE Disconnect(d)
        BY <1>2, <2>2 DEF Disconnect, IInv, TypeOK
    <2>3. CASE Answer(d)
        BY <1>2, <2>3 DEF Answer, IInv, TypeOK
    <2> QED
        BY <1>7, <2>1, <2>2, <2>3
<1>8. CASE Start \/ CloseAtOnce \/ Listen \/ Interrupt \/ ServeFails \/ Drained \/ CloseEngine
    BY <1>2, <1>8 DEF Start, CloseAtOnce, Listen, Interrupt, ServeFails, Drained, CloseEngine
<1>9. CASE Kill \/ Exit \/ ShutdownTimesOut
    BY <1>2, <1>9 DEF Kill, Exit, Gone, ShutdownTimesOut, Lost
<1>10. CASE UNCHANGED vars
    BY <1>2, <1>10 DEF vars
<1> QED
    BY <1>3, <1>4, <1>5, <1>6, <1>7, <1>8, <1>9, <1>10 DEF Next, Stopping

LEMMA CheckedKept ==
    ASSUME IInv, [Next]_vars
    PROVE  CheckedInv'
<1> USE DEF clientVars, handlerVars, engineVars
<1> SUFFICES ASSUME NEW c \in Clients, handler'[c] = "checked"
             PROVE  /\ op'[c].kind \in {"supersede", "retract"}
                    /\ Found(c, RequestSpace(op[c]))'
    BY DEF CheckedInv
<1>1. ASSUME op'[c] = op[c], handler[c] = "checked"
      PROVE  /\ op'[c].kind \in {"supersede", "retract"}
             /\ Found(c, RequestSpace(op[c]))'
    <2>1. daemon # "down"
        BY <1>1 DEF IInv, HandlerInv
    <2>2. Grows(facts, facts')
        BY <2>1, DataStep
    <2> QED
        BY <1>1, <2>2 DEF Found, IInv, CheckedInv, Grows
<1>2. ASSUME NEW d \in Clients, Check(d)
      PROVE  /\ op'[c].kind \in {"supersede", "retract"}
             /\ Found(c, RequestSpace(op[c]))'
    <2>1. CASE c = d /\ CheckStatus(c) = "200"
        <3>1. Found(c, RequestSpace(op[c]))
            BY <2>1 DEF CheckStatus
        <3> QED
            BY <1>2, <2>1, <3>1 DEF Check, Found
    <2>2. CASE ~(c = d /\ CheckStatus(c) = "200")
        BY <1>1, <1>2, <2>2 DEF Check, Concludes, IInv, TypeOK
    <2> QED
        BY <2>1, <2>2
<1>3. ASSUME NEW d \in Clients,
             \/ Send(d) \/ Disconnect(d) \/ Get(d) \/ Mismatch(d) \/ Cancelled(d) \/ Refused(d)
             \/ Commits(d) \/ SaveFails(d) \/ SaveUnknown(d) \/ Answer(d)
      PROVE  /\ op'[c].kind \in {"supersede", "retract"}
             /\ Found(c, RequestSpace(op[c]))'
    <2>1. handler[c] = "checked" /\ op'[c] = op[c]
        <3>1. CASE Send(d)
            BY <3>1 DEF Send, IInv, TypeOK
        <3>2. CASE Disconnect(d) \/ Answer(d)
            BY <3>2 DEF Disconnect, Answer, IInv, TypeOK
        <3>3. CASE \/ Get(d) \/ Mismatch(d) \/ Cancelled(d) \/ Refused(d)
                   \/ Commits(d) \/ SaveFails(d) \/ SaveUnknown(d)
            BY <3>3 DEF Get, Mismatch, Cancelled, Refused, Commits, SaveFails, SaveUnknown,
                        Concludes, IInv, TypeOK
        <3> QED
            BY <1>3, <3>1, <3>2, <3>3
    <2> QED
        BY <1>1, <2>1
<1>4. CASE Start \/ CloseAtOnce \/ Listen \/ Interrupt \/ ServeFails \/ Drained \/ CloseEngine
    BY <1>1, <1>4 DEF Start, CloseAtOnce, Listen, Interrupt, ServeFails, Drained, CloseEngine
<1>5. CASE Kill \/ Exit \/ ShutdownTimesOut
    BY <1>1, <1>5 DEF Kill, Exit, Gone, ShutdownTimesOut
<1>6. CASE UNCHANGED vars
    BY <1>1, <1>6 DEF vars
<1> QED
    BY <1>2, <1>3, <1>4, <1>5, <1>6 DEF Next, Stopping

(* The facts of a client that did nothing stay as they are.                *)
LEMMA CreatedKept ==
    ASSUME NEW old, NEW new, Grows(old, new), NEW c,
           \A x \in DOMAIN new \ DOMAIN old : new[x].by # c
    PROVE  Created(new, c) = Created(old, c)
BY DEF Grows, Created

LEMMA FruitlessKept ==
    ASSUME IInv, [Next]_vars
    PROVE  FruitlessInv'
<1> USE ServiceAssumption DEF clientVars, handlerVars, engineVars
<1> SUFFICES ASSUME NEW c \in Clients, Fruitless(c)'
             PROVE  Created(facts', c) = {} /\ Created(stored', c) = {}
    BY DEF FruitlessInv, Created
<1>1. ASSUME Fruitless(c)
      PROVE  Created(facts, c) = {} /\ Created(stored, c) = {}
    BY <1>1 DEF IInv, FruitlessInv
<1>2. ASSUME NEW d \in Clients, Commits(d)
      PROVE  Created(facts', c) = {} /\ Created(stored', c) = {}
    <2>1. PICK r \in Results(facts, op[d], d) :
            facts' = r.facts /\ stored' = r.facts /\ Concludes(d, r.status)
        BY <1>2 DEF Commits
    <2>2. Effect(facts, op[d], d, r) /\ facts = stored
        BY <1>2, CallEffect DEF Commits
    <2>3. handler[d] \in {"received", "checked"}
        BY <1>2 DEF Commits, AtCall
    <2>4. CASE c = d
        <3>1. Fruitless(c) /\ r.status \in Refusals
            BY <1>2, <2>1, <2>3, <2>4
               DEF Commits, Concludes, Fruitless, Refusals, IInv, TypeOK, HandlerInv
        <3> QED
            BY <1>1, <2>1, <2>2, <3>1 DEF Effect
    <2>5. CASE c # d
        <3>1. Fruitless(c)
            BY <1>2, <2>1, <2>5 DEF Commits, Concludes, Fruitless, IInv, TypeOK
        <3>2. Created(r.facts, c) = Created(facts, c)
            BY <2>2, <2>5, CreatedKept DEF Effect
        <3> QED
            BY <1>1, <2>1, <3>1, <3>2
    <2> QED
        BY <2>4, <2>5
<1>3. ASSUME NEW d \in Clients, SaveUnknown(d)
      PROVE  Created(facts', c) = {} /\ Created(stored', c) = {}
    <2>1. PICK r \in Results(facts, op[d], d) : stored' \in {facts, r.facts}
        BY <1>3 DEF SaveUnknown
    <2>2. Effect(facts, op[d], d, r) /\ facts = stored /\ facts' = facts
        BY <1>3, CallEffect DEF SaveUnknown
    <2>3. Concludes(d, "503") /\ UNCHANGED <<op, attempts, told>>
        BY <1>3 DEF SaveUnknown
    <2>4. handler[d] \in {"received", "checked"}
        BY <1>3 DEF SaveUnknown, AtCall
    <2>5. c # d
        BY <2>3, <2>4 DEF Concludes, Fruitless, Refusals, IInv, TypeOK, HandlerInv
    <2>6. Fruitless(c)
        BY <2>3, <2>5 DEF Concludes, Fruitless, IInv, TypeOK
    <2>7. Created(r.facts, c) = Created(facts, c)
        BY <2>2, <2>5, CreatedKept DEF Effect
    <2> QED
        BY <1>1, <2>1, <2>2, <2>6, <2>7
<1>4. ASSUME NEW d \in Clients, UNCHANGED engineVars,
             \/ Get(d) \/ Mismatch(d) \/ Check(d) \/ Cancelled(d) \/ Refused(d) \/ SaveFails(d)
      PROVE  Fruitless(c)
    <2>1. handler[d] \in {"received", "checked"} /\ UNCHANGED <<attempts, told>>
        BY <1>4 DEF Get, Mismatch, Check, Cancelled, Refused, SaveFails, AtCall
    <2>2. \A x \in Clients : x # d => handler'[x] = handler[x] /\ outcome'[x] = outcome[x]
        BY <1>4 DEF Get, Mismatch, Check, Cancelled, Refused, SaveFails, Concludes, IInv, TypeOK
    <2>3. attempts[d] # 0 /\ told[d] \in {"waiting", "lost"}
        BY <2>1 DEF IInv, HandlerInv
    <2> QED
        BY <2>1, <2>2, <2>3 DEF Fruitless, Refusals
<1>5. ASSUME NEW d \in Clients, Send(d) \/ Disconnect(d) \/ Answer(d)
      PROVE  Fruitless(c)
    <2>1. CASE Send(d)
        <3>1. attempts[d] \in Nat
            BY DEF IInv, TypeOK
        <3>2. c = d => attempts[c] = 0
            BY <2>1, <3>1 DEF Send, Fruitless, IInv, TypeOK
        <3> QED
            BY <2>1, <3>2 DEF Send, Fruitless, IInv, TypeOK
    <2>2. CASE Disconnect(d)
        BY <2>2 DEF Disconnect, Fruitless, Refusals, IInv, TypeOK
    <2>3. CASE Answer(d)
        BY <2>3 DEF Answer, Fruitless, Refusals, IInv, TypeOK
    <2> QED
        BY <1>5, <2>1, <2>2, <2>3
<1>6. CASE \E d \in Clients : \/ Send(d) \/ Disconnect(d) \/ Get(d) \/ Mismatch(d) \/ Check(d)
                              \/ Cancelled(d) \/ Refused(d) \/ SaveFails(d) \/ Answer(d)
    <2>1. UNCHANGED engineVars
        BY <1>6 DEF Send, Disconnect, Get, Mismatch, Check, Cancelled, Refused, SaveFails, Answer
    <2> QED
        BY <1>1, <1>4, <1>5, <1>6, <2>1
<1>7. CASE Start \/ CloseAtOnce \/ Listen \/ Interrupt \/ ServeFails \/ Drained \/ CloseEngine
    <2>1. Fruitless(c) /\ facts' \in {facts, stored} /\ stored' \in {facts, stored}
        BY <1>7 DEF Start, CloseAtOnce, Listen, Interrupt, ServeFails, Drained, CloseEngine, Fruitless
    <2> QED
        BY <1>1, <2>1
<1>8. CASE Kill \/ Exit \/ ShutdownTimesOut
    <2>1. UNCHANGED engineVars /\ Fruitless(c)
        BY <1>8 DEF Kill, Exit, Gone, ShutdownTimesOut, Lost, Fruitless, Refusals
    <2> QED
        BY <1>1, <2>1
<1>9. CASE UNCHANGED vars
    BY <1>1, <1>9 DEF vars, Fruitless
<1> QED
    BY <1>2, <1>3, <1>6, <1>7, <1>8, <1>9 DEF Next, Stopping

LEMMA SuccessorKept ==
    ASSUME IInv, [Next]_vars
    PROVE  SuccessorInv'
<1> USE ServiceAssumption DEF clientVars, handlerVars, engineVars
<1> SUFFICES ASSUME NEW id \in DOMAIN stored', NEW c \in Clients, stored'[id].by = c
             PROVE  /\ op'[c] # None
                    /\ op'[c].kind = "supersede" => Replaced(stored', op'[c], id)
    BY DEF SuccessorInv
<1>1. Grows(stored, stored')
    BY DataStep
<1>2. op[c] # None => op'[c] = op[c]
    <2>1. ASSUME NEW d \in Clients, Send(d)
          PROVE  op[c] # None => op'[c] = op[c]
        BY <2>1 DEF Send, IInv, TypeOK
    <2>2. CASE \E d \in Clients :
                  \/ Disconnect(d) \/ Get(d) \/ Mismatch(d) \/ Check(d) \/ Cancelled(d)
                  \/ Refused(d) \/ Commits(d) \/ SaveFails(d) \/ SaveUnknown(d) \/ Answer(d)
        BY <2>2 DEF Disconnect, Get, Mismatch, Check, Cancelled, Refused, Commits, SaveFails,
                    SaveUnknown, Answer
    <2>3. CASE \/ Start \/ CloseAtOnce \/ Listen \/ Interrupt \/ ServeFails \/ Kill \/ Drained
               \/ ShutdownTimesOut \/ CloseEngine \/ Exit \/ UNCHANGED vars
        BY <2>3 DEF Start, CloseAtOnce, Listen, Interrupt, ServeFails, Kill, Drained,
                    ShutdownTimesOut, CloseEngine, Exit, Gone, vars
    <2> QED
        BY <2>1, <2>2, <2>3 DEF Next, Stopping
<1>3. CASE id \in DOMAIN stored
    <2>1. stored[id].by = c
        BY <1>1, <1>3 DEF Grows
    <2>2. op[c] # None /\ (op[c].kind = "supersede" => Replaced(stored, op[c], id))
        BY <1>3, <2>1 DEF IInv, SuccessorInv
    <2> QED
        BY <1>1, <1>2, <2>2 DEF Replaced, Grows
<1>4. ASSUME id \notin DOMAIN stored, NEW d \in Clients, Commits(d) \/ SaveUnknown(d)
      PROVE  /\ op'[c] # None
             /\ op'[c].kind = "supersede" => Replaced(stored', op'[c], id)
    <2>1. PICK r \in Results(facts, op[d], d) : stored' \in {facts, r.facts}
        BY <1>4 DEF Commits, SaveUnknown
    <2>2. Effect(facts, op[d], d, r) /\ facts = stored
        BY <1>4, CallEffect DEF Commits, SaveUnknown
    <2>3. stored' = r.facts
        BY <1>4, <2>1, <2>2
    <2>4. c = d /\ (op[c].kind = "supersede" => Replaced(stored', op[c], id))
        BY <1>4, <2>2, <2>3 DEF Effect
    <2>5. op[d] # None
        BY <1>4 DEF Commits, SaveUnknown, AtCall, IInv, HandlerInv
    <2> QED
        BY <1>2, <2>4, <2>5
<1>5. stored' # stored => \/ \E d \in Clients : Commits(d) \/ SaveUnknown(d)
                          \/ stored' = facts /\ ~poisoned
    <2>1. CASE \E d \in Clients :
                  \/ Send(d) \/ Disconnect(d) \/ Get(d) \/ Mismatch(d) \/ Check(d) \/ Cancelled(d)
                  \/ Refused(d) \/ SaveFails(d) \/ Answer(d)
        BY <2>1 DEF Send, Disconnect, Get, Mismatch, Check, Cancelled, Refused, SaveFails, Answer
    <2>2. CASE \/ Start \/ CloseAtOnce \/ Listen \/ Interrupt \/ ServeFails \/ Kill \/ Drained
               \/ ShutdownTimesOut \/ CloseEngine \/ Exit \/ UNCHANGED vars
        BY <2>2 DEF Start, CloseAtOnce, Listen, Interrupt, ServeFails, Kill, Drained,
                    ShutdownTimesOut, CloseEngine, Exit, Gone, vars
    <2> QED
        BY <2>1, <2>2 DEF Next, Stopping
<1> QED
    BY <1>3, <1>4, <1>5 DEF IInv, MemoryInv

-----------------------------------------------------------------------------
(* The invariant of the daemon's every state; the properties follow.       *)
LEMMA StepInv ==
    ASSUME IInv, [Next]_vars
    PROVE  IInv'
BY DataStep, TypeKept, HandlerKept, DoneKept, FruitlessKept, SuccessorKept, CheckedKept DEF IInv

THEOREM Invariance == Spec => []IInv
BY InitInv, StepInv, PTL DEF Spec

(* What a client was told stays true, whatever becomes of connections,     *)
(* handlers and the daemon (http.go, main.go).                             *)
THEOREM AnswersAreTrue == Spec => []AnswersStayTrue
<1>1. IInv => AnswersStayTrue
    <2> SUFFICES ASSUME IInv, NEW c \in Clients
                 PROVE  /\ told[c] = "200" => Done(c)
                        /\ told[c] \in {"400", "404", "409"} /\ attempts[c] = 1 =>
                               Created(facts, c) = {} /\ Created(stored, c) = {}
        BY DEF AnswersStayTrue
    <2>1. ASSUME told[c] = "200"
          PROVE  Done(c)
        <3>1. DoneIn(stored, op[c], c)
            BY <2>1 DEF IInv, DoneInv
        <3> QED
            BY <3>1 DEF DoneIn, Done, Replaced
    <2>2. ASSUME told[c] \in {"400", "404", "409"}, attempts[c] = 1
          PROVE  Created(facts, c) = {} /\ Created(stored, c) = {}
        <3>1. Fruitless(c)
            BY <2>2 DEF Fruitless, Refusals
        <3> QED
            BY <3>1 DEF IInv, FruitlessInv
    <2> QED
        BY <2>1, <2>2
<1> QED
    BY <1>1, Invariance, PTL

(* However many clients race to supersede a fact, and retry, at most one   *)
(* replaces it and at most one is told so (factLifecycle, Supersede).      *)
THEOREM ReplacedOnce == Spec => []OneSuccessor
<1>1. ASSUME NEW S, NEW x, S \subseteq {x}
      PROVE  Cardinality(S) <= 1
    <2>1. IsFiniteSet({x}) /\ Cardinality({x}) = 1
        BY FS_Singleton
    <2> QED
        BY <1>1, <2>1, FS_Subset
<1>2. IInv => OneSuccessor
    <2> SUFFICES ASSUME IInv, NEW id \in DOMAIN InitialFacts
                 PROVE  LET racing == {c \in Clients : op[c] # None /\ op[c].kind = "supersede"
                                                         /\ op[c].target = id}
                        IN  /\ Cardinality(UNION {Created(stored, c) : c \in racing}) <= 1
                            /\ Cardinality({c \in racing : told[c] = "200"}) <= 1
        BY DEF OneSuccessor
    <2> DEFINE racing == {c \in Clients : op[c] # None /\ op[c].kind = "supersede"
                                              /\ op[c].target = id}
               replacements == UNION {Created(stored, c) : c \in racing}
               winners == {c \in racing : told[c] = "200"}
    <2>1. \A c \in racing : \A x \in Created(stored, c) : x = stored[id].successor
        BY DEF IInv, SuccessorInv, Created, Replaced
    <2>2. replacements \subseteq {stored[id].successor}
        BY <2>1
    <2>3. \A c \in winners : c = stored[stored[id].successor].by
        <3> SUFFICES ASSUME NEW c \in winners
                     PROVE  c = stored[stored[id].successor].by
            OBVIOUS
        <3>1. DoneIn(stored, op[c], c)
            BY DEF IInv, DoneInv
        <3>2. PICK x \in Created(stored, c) : Replaced(stored, op[c], x)
            BY <3>1 DEF DoneIn
        <3> QED
            BY <3>2 DEF Replaced, Created
    <2>4. winners \subseteq {stored[stored[id].successor].by}
        BY <2>3
    <2> HIDE DEF replacements, winners
    <2>5. Cardinality(replacements) <= 1 /\ Cardinality(winners) <= 1
        BY <1>1, <2>2, <2>4
    <2> QED
        BY <2>5 DEF replacements, winners
<1> QED
    BY <1>2, Invariance, PTL

(* The check of a fact's space and the change of the fact are two engine   *)
(* calls, and no other space's fact changes for it (factLifecycle).        *)
THEOREM StaysInSpace == Spec => ChangesStayInTheirSpace
<1> DEFINE InSpace ==
        facts' # facts /\ daemon # "down" =>
            \A id \in DOMAIN facts : facts'[id] # facts[id] =>
                \E c \in Clients : /\ handler[c] = "checked" /\ handler'[c] = "answering"
                                   /\ op[c].target = id /\ RequestSpace(op[c]) = facts[id].space
<1>1. IInv /\ [Next]_vars => [InSpace]_vars
    <2> SUFFICES ASSUME IInv, Next, facts' # facts, daemon # "down",
                        NEW id \in DOMAIN facts, facts'[id] # facts[id]
                 PROVE  \E c \in Clients : /\ handler[c] = "checked" /\ handler'[c] = "answering"
                                           /\ op[c].target = id
                                           /\ RequestSpace(op[c]) = facts[id].space
        OBVIOUS
    <2>1. PICK c \in Clients : Commits(c)
        <3>1. CASE \E c \in Clients :
                      \/ Send(c) \/ Disconnect(c) \/ Get(c) \/ Mismatch(c) \/ Check(c)
                      \/ Cancelled(c) \/ Refused(c) \/ SaveFails(c) \/ SaveUnknown(c) \/ Answer(c)
            BY <3>1 DEF Send, Disconnect, Get, Mismatch, Check, Cancelled, Refused, SaveFails,
                        SaveUnknown, Answer, engineVars
        <3>2. CASE \/ Start \/ CloseAtOnce \/ Listen \/ Interrupt \/ ServeFails \/ Kill
                   \/ Drained \/ ShutdownTimesOut \/ CloseEngine \/ Exit
            BY <3>2 DEF Start, CloseAtOnce, Listen, Interrupt, ServeFails, Kill, Drained,
                        ShutdownTimesOut, CloseEngine, Exit, Gone, engineVars
        <3> QED
            BY <3>1, <3>2 DEF Next, Stopping
    <2>2. PICK r \in Results(facts, op[c], c) : facts' = r.facts /\ Concludes(c, r.status)
        BY <2>1 DEF Commits
    <2>3. op[c].kind # "assert" /\ id = op[c].target
        BY <2>1, <2>2, CallEffect DEF Commits, Effect
    <2>4. handler[c] = "checked"
        BY <2>1, <2>3 DEF Commits, AtCall
    <2>5. handler'[c] = "answering"
        BY <2>2 DEF Concludes, IInv, TypeOK
    <2>6. RequestSpace(op[c]) = facts[id].space
        BY <2>3, <2>4 DEF IInv, CheckedInv, Found
    <2> QED
        BY <2>3, <2>4, <2>5, <2>6
<1>2. Spec => [][InSpace]_vars
    BY <1>1, Invariance, PTL DEF Spec
<1> QED
    BY <1>2 DEF ChangesStayInTheirSpace

(* An engine that does not know what its database holds answers no request *)
(* with success, reads included (engine.go poisonedErrorLocked, http.go     *)
(* writeCoreError).                                                        *)
THEOREM PoisonedIsSilent == Spec => PoisonedConfirmsNothing
<1> DEFINE Silent == poisoned => \A c \in Clients : outcome'[c] # outcome[c] => outcome'[c] # "200"
<1>1. IInv /\ [Next]_vars => [Silent]_vars
    <2> SUFFICES ASSUME IInv, Next, poisoned, NEW c \in Clients, outcome'[c] # outcome[c]
                 PROVE  outcome'[c] # "200"
        OBVIOUS
    <2>1. ASSUME NEW d \in Clients, Send(d) \/ Disconnect(d) \/ Answer(d)
          PROVE  outcome'[c] # "200"
        BY <2>1, ServiceAssumption DEF Send, Disconnect, Answer, IInv, TypeOK
    <2>2. ASSUME NEW d \in Clients,
                 \/ Get(d) \/ Mismatch(d) \/ Check(d) \/ Cancelled(d) \/ Refused(d)
                 \/ Commits(d) \/ SaveFails(d) \/ SaveUnknown(d)
          PROVE  outcome'[c] # "200"
        BY <2>2 DEF Get, GetStatus, Mismatch, Check, CheckStatus, Cancelled, Refused, Commits,
                    SaveFails, SaveUnknown, Concludes, IInv, TypeOK
    <2>3. CASE \/ Start \/ CloseAtOnce \/ Listen \/ Interrupt \/ ServeFails \/ Kill
               \/ Drained \/ ShutdownTimesOut \/ CloseEngine \/ Exit
        BY <2>3 DEF Start, CloseAtOnce, Listen, Interrupt, ServeFails, Kill, Drained,
                    ShutdownTimesOut, CloseEngine, Exit, Gone, handlerVars
    <2> QED
        BY <2>1, <2>2, <2>3 DEF Next, Stopping
<1>2. Spec => [][Silent]_vars
    BY <1>1, Invariance, PTL DEF Spec
<1> QED
    BY <1>2 DEF PoisonedConfirmsNothing
=============================================================================
