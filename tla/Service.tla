------------------------------- MODULE Service -------------------------------
(***************************************************************************)
(* The daemon yeould (cmd/yeould/main.go) and its HTTP handlers            *)
(* (pkg/httpapi/http.go): clients whose connections break and who try      *)
(* again, handlers that call the engine twice, shutdown with a deadline,   *)
(* and restarts.                                                           *)
(*                                                                         *)
(* What is abstracted.  Decoding, routing, origin and token checks happen  *)
(* before any step shown here.  The engine is reduced to the facts the     *)
(* lifecycle routes change; one call of it takes effect in one step, with  *)
(* the three ends a save has (module CommitPath): done, not done, unknown. *)
(* Of the queries only the record read remains.                            *)
(***************************************************************************)
EXTENDS Naturals, FiniteSets

CONSTANTS
    Clients,       \* each has one operation to get done
    Operations,    \* what they may ask for
    InitialFacts,  \* facts the database starts with
    Generated,     \* ids the engine generates
    DefaultSpace,  \* the space of a request that names none
    None,          \* absent
    MaxAttempts    \* how often a client sends its operation

Kinds == {"assert", "supersede", "retract", "get"}

ASSUME ServiceAssumption ==
    /\ MaxAttempts \in Nat
    /\ None \notin Clients /\ None \notin Operations
    /\ None \notin {"waiting", "lost", "200", "400", "404", "409", "500", "503"}
    /\ \A op \in Operations : op.kind \in Kinds
    /\ \A id \in DOMAIN InitialFacts : id \notin Generated
    /\ InitialFacts = [id \in DOMAIN InitialFacts |->
           [space |-> InitialFacts[id].space, status |-> "active", by |-> None, successor |-> None]]

VARIABLES
    daemon,   \* down, open, serving, draining, closing, closed
    poisoned, \* the engine does not know whether its last save took effect
    facts,    \* the engine's facts: id -> [space, status, by, successor]
    stored,   \* what the database holds
    op,       \* the operation of each client
    attempts, \* how often it was sent
    told,     \* what the client knows: None, waiting, lost, or a status
    handler,  \* none, received, checked, answering
    cut,      \* the connection is gone
    outcome   \* the status the handler will write

clientVars == <<op, attempts, told>>
handlerVars == <<handler, cut, outcome>>
engineVars == <<poisoned, facts, stored>>
vars == <<daemon, poisoned, facts, stored, op, attempts, told, handler, cut, outcome>>

Init ==
    /\ daemon = "down" /\ poisoned = FALSE
    /\ facts = InitialFacts /\ stored = InitialFacts
    /\ op = [c \in Clients |-> None] /\ attempts = [c \in Clients |-> 0]
    /\ told = [c \in Clients |-> None]
    /\ handler = [c \in Clients |-> "none"] /\ cut = [c \in Clients |-> FALSE]
    /\ outcome = [c \in Clients |-> None]

-----------------------------------------------------------------------------
(* Spaces of a request: the envelope's and the record's.                   *)

Normal(space) == IF space = None THEN DefaultSpace ELSE space
First(a, b) == IF a = None THEN b ELSE a

\* bridgeSpaceID: both may be given, then they agree.
Bridged(o) == o.outer = None \/ o.inner = None \/ o.outer = o.inner
RequestSpace(o) == Normal(First(o.outer, o.inner))

-----------------------------------------------------------------------------
(* The engine's operations, as a status and the facts they leave.          *)

NewID(fs, id) == IF id # None THEN {id} ELSE Generated \ DOMAIN fs
With(fs, id, record) == [x \in DOMAIN fs \cup {id} |-> IF x = id THEN record ELSE fs[x]]
NewFact(space, c) == [space |-> space, status |-> "active", by |-> c, successor |-> None]

AssertResults(fs, o, c) ==
    {IF id \in DOMAIN fs THEN [status |-> "409", facts |-> fs]
     ELSE [status |-> "200", facts |-> With(fs, id, NewFact(Normal(First(o.inner, o.outer)), c))]
       : id \in NewID(fs, o.new)}

Superseded(fs, o, c, id) ==
    With([fs EXCEPT ![o.target].status = "superseded", ![o.target].successor = id],
         id, NewFact(fs[o.target].space, c))

(* Mutant of SupersedeResults: the target's status is not looked at. *)
SupersedeAgain(fs, o, c) ==
    IF o.target \notin DOMAIN fs THEN {[status |-> "404", facts |-> fs]}
    ELSE {[status |-> "200", facts |-> Superseded(fs, o, c, id)] : id \in NewID(fs, o.new) \ DOMAIN fs}

SupersedeResults(fs, o, c) ==
    IF o.target \notin DOMAIN fs THEN {[status |-> "404", facts |-> fs]}
    ELSE {IF \/ fs[o.target].status # "active"
             \/ First(o.inner, o.outer) # None /\ First(o.inner, o.outer) # fs[o.target].space
             \/ id \in DOMAIN fs
          THEN [status |-> "409", facts |-> fs]
          ELSE [status |-> "200", facts |-> Superseded(fs, o, c, id)]
            : id \in NewID(fs, o.new)}

RetractResults(fs, o) ==
    IF o.target \notin DOMAIN fs THEN {[status |-> "404", facts |-> fs]}
    ELSE {[status |-> "200", facts |-> [fs EXCEPT ![o.target].status = "retracted"]]}

Results(fs, o, c) ==
    CASE o.kind = "assert" -> AssertResults(fs, o, c)
      [] o.kind = "supersede" -> SupersedeResults(fs, o, c)
      [] OTHER -> RetractResults(fs, o)

-----------------------------------------------------------------------------
(* Clients.                                                                *)

\* The first time, and again after a lost connection or a storage failure.
Send(c) ==
    /\ daemon = "serving" /\ handler[c] = "none"
    /\ told[c] \in {None, "lost", "503"} /\ attempts[c] < MaxAttempts
    /\ IF op[c] = None THEN \E o \in Operations : op' = [op EXCEPT ![c] = o] ELSE UNCHANGED op
    /\ attempts' = [attempts EXCEPT ![c] = @ + 1]
    /\ told' = [told EXCEPT ![c] = "waiting"]
    /\ handler' = [handler EXCEPT ![c] = "received"]
    /\ cut' = [cut EXCEPT ![c] = FALSE]
    /\ outcome' = [outcome EXCEPT ![c] = None]
    /\ UNCHANGED <<daemon, engineVars>>

\* The client goes away, or a read or write deadline closes the connection.
Disconnect(c) ==
    /\ handler[c] # "none" /\ ~cut[c]
    /\ cut' = [cut EXCEPT ![c] = TRUE]
    /\ told' = [told EXCEPT ![c] = "lost"]
    /\ UNCHANGED <<daemon, engineVars, op, attempts, handler, outcome>>

-----------------------------------------------------------------------------
(* Handlers.                                                               *)

Concludes(c, status) ==
    /\ handler' = [handler EXCEPT ![c] = "answering"]
    /\ outcome' = [outcome EXCEPT ![c] = status]
    /\ UNCHANGED cut

\* GetRecord, by id and space; it needs the engine but not the store.
Found(c, space) ==
    op[c].target \in DOMAIN facts /\ facts[op[c].target].space = space

(* Mutant of GetStatus: the record read does not ask whether the engine is poisoned. *)
GetUnconcerned(c) == IF Found(c, RequestSpace(op[c])) THEN "200" ELSE "404"

GetStatus(c) ==
    IF poisoned THEN "503" ELSE IF Found(c, RequestSpace(op[c])) THEN "200" ELSE "404"

Get(c) ==
    /\ handler[c] = "received" /\ op[c].kind = "get"
    /\ Concludes(c, GetStatus(c))
    /\ UNCHANGED <<daemon, engineVars, clientVars>>

\* Spaces that disagree end the request before any engine call.
Mismatch(c) ==
    /\ handler[c] = "received" /\ ~Bridged(op[c])
    /\ Concludes(c, "400")
    /\ UNCHANGED <<daemon, engineVars, clientVars>>

(* Mutant of CheckStatus: the fact is found by its id alone. *)
CheckAnySpace(c) ==
    IF poisoned THEN "503" ELSE IF op[c].target \in DOMAIN facts THEN "200" ELSE "404"

\* The read that precedes a supersession or a retraction.
CheckStatus(c) ==
    IF poisoned THEN "503" ELSE IF Found(c, RequestSpace(op[c])) THEN "200" ELSE "404"

Check(c) ==
    /\ handler[c] = "received" /\ op[c].kind \in {"supersede", "retract"} /\ Bridged(op[c])
    /\ IF CheckStatus(c) = "200"
       THEN handler' = [handler EXCEPT ![c] = "checked"] /\ UNCHANGED <<cut, outcome>>
       ELSE Concludes(c, CheckStatus(c))
    /\ UNCHANGED <<daemon, engineVars, clientVars>>

\* The handler is about to make the call that changes something.
AtCall(c) ==
    \/ handler[c] = "checked"
    \/ handler[c] = "received" /\ op[c].kind = "assert" /\ Bridged(op[c])

\* A request whose connection is gone may be refused before or after the change.
Cancelled(c) ==
    /\ AtCall(c) /\ cut[c]
    /\ Concludes(c, "500")
    /\ UNCHANGED <<daemon, engineVars, clientVars>>

Refused(c) ==
    /\ AtCall(c) /\ poisoned
    /\ Concludes(c, "503")
    /\ UNCHANGED <<daemon, engineVars, clientVars>>

\* The engine saves what changed, unless its store has been closed.
Commits(c) ==
    /\ AtCall(c) /\ ~poisoned
    /\ \E r \in Results(facts, op[c], c) :
          /\ daemon = "closed" => r.facts = facts
          /\ facts' = r.facts /\ stored' = r.facts
          /\ Concludes(c, r.status)
    /\ UNCHANGED <<daemon, poisoned, clientVars>>

(* Mutant of SaveFails: the handler reports what the engine would have done. *)
FailureUnseen(c) ==
    /\ AtCall(c) /\ ~poisoned
    /\ \E r \in Results(facts, op[c], c) : r.facts # facts /\ Concludes(c, r.status)
    /\ UNCHANGED <<daemon, engineVars, clientVars>>

\* The save fails, or the store is closed: rolled back.
SaveFails(c) ==
    /\ AtCall(c) /\ ~poisoned
    /\ \E r \in Results(facts, op[c], c) : r.facts # facts
    /\ Concludes(c, "503")
    /\ UNCHANGED <<daemon, engineVars, clientVars>>

\* The save's end is unknown: rolled back in memory, perhaps in the database.
SaveUnknown(c) ==
    /\ AtCall(c) /\ ~poisoned /\ daemon # "closed"
    /\ \E r \in Results(facts, op[c], c) : r.facts # facts /\ stored' \in {facts, r.facts}
    /\ poisoned' = TRUE
    /\ Concludes(c, "503")
    /\ UNCHANGED <<daemon, facts, clientVars>>

Answer(c) ==
    /\ handler[c] = "answering"
    /\ told' = IF cut[c] THEN told ELSE [told EXCEPT ![c] = outcome[c]]
    /\ handler' = [handler EXCEPT ![c] = "none"]
    /\ UNCHANGED <<daemon, engineVars, op, attempts, cut, outcome>>

-----------------------------------------------------------------------------
(* The daemon.                                                             *)

Lost == [c \in Clients |-> IF told[c] = "waiting" THEN "lost" ELSE told[c]]

Start ==
    /\ daemon = "down"
    /\ daemon' = "open"
    /\ facts' = stored /\ poisoned' = FALSE
    /\ UNCHANGED <<stored, clientVars, handlerVars>>

\* Listening fails, or the daemon was started to restore only.
CloseAtOnce ==
    /\ daemon = "open"
    /\ daemon' = "closing"
    /\ UNCHANGED <<engineVars, clientVars, handlerVars>>

Listen ==
    /\ daemon = "open"
    /\ daemon' = "serving"
    /\ UNCHANGED <<engineVars, clientVars, handlerVars>>

\* An interrupt: no connection is accepted any more.
Interrupt ==
    /\ daemon = "serving"
    /\ daemon' = "draining"
    /\ UNCHANGED <<engineVars, clientVars, handlerVars>>

Drained ==
    /\ daemon = "draining" /\ \A c \in Clients : handler[c] = "none"
    /\ daemon' = "closing"
    /\ UNCHANGED <<engineVars, clientVars, handlerVars>>

(* Mutant of ShutdownTimesOut: shutdown waits for every handler. *)
ShutdownWaits ==
    /\ daemon = "draining" /\ \A c \in Clients : handler[c] = "none"
    /\ daemon' = "closing"
    /\ UNCHANGED <<engineVars, clientVars, handlerVars>>

\* After ten seconds every connection is closed; handlers may still be running.
ShutdownTimesOut ==
    /\ daemon = "draining" /\ \E c \in Clients : handler[c] # "none"
    /\ daemon' = "closing"
    /\ cut' = [c \in Clients |-> TRUE] /\ told' = Lost
    /\ UNCHANGED <<engineVars, op, attempts, handler, outcome>>

\* The accept loop fails: the deferred close runs beside the handlers.
ServeFails ==
    /\ daemon = "serving"
    /\ daemon' = "closing"
    /\ UNCHANGED <<engineVars, clientVars, handlerVars>>

\* Engine.Close saves once more, unless poisoned, and closes the store.
CloseEngine ==
    /\ daemon = "closing"
    /\ daemon' = "closed"
    /\ stored' = IF poisoned THEN stored ELSE facts
    /\ UNCHANGED <<poisoned, facts, clientVars, handlerVars>>

Gone ==
    /\ daemon' = "down"
    /\ handler' = [c \in Clients |-> "none"] /\ told' = Lost
    /\ UNCHANGED <<engineVars, op, attempts, cut, outcome>>

Exit == daemon = "closed" /\ Gone
Kill == daemon # "down" /\ Gone

Stopping == Drained \/ ShutdownTimesOut \/ CloseEngine \/ Exit

Next ==
    \/ \E c \in Clients :
          \/ Send(c) \/ Disconnect(c)
          \/ Get(c) \/ Mismatch(c) \/ Check(c)
          \/ Cancelled(c) \/ Refused(c) \/ Commits(c) \/ SaveFails(c) \/ SaveUnknown(c)
          \/ Answer(c)
    \/ Start \/ CloseAtOnce \/ Listen \/ Interrupt \/ ServeFails \/ Kill \/ Stopping

Spec == Init /\ [][Next]_vars

\* Of the scheduling nothing is assumed but that the goroutine of serve runs:
\* handlers and clients may stall for ever.
FairSpec == Spec /\ WF_vars(Stopping)

-----------------------------------------------------------------------------
(* Types of the state; the database never forgets a fact.                  *)
Statuses == {"200", "400", "404", "409", "500", "503"}
TypeOK ==
    /\ daemon \in {"down", "open", "serving", "draining", "closing", "closed"}
    /\ poisoned \in BOOLEAN /\ DOMAIN InitialFacts \subseteq DOMAIN stored
    /\ op \in [Clients -> Operations \cup {None}]
    /\ attempts \in [Clients -> 0..MaxAttempts]
    /\ told \in [Clients -> {None, "waiting", "lost"} \cup Statuses]
    /\ handler \in [Clients -> {"none", "received", "checked", "answering"}]
    /\ cut \in [Clients -> BOOLEAN]
    /\ outcome \in [Clients -> {None} \cup Statuses]

(* The lifecycle routes look the fact up in the requested space with one   *)
(* engine call and change it by its id with another (http.go               *)
(* factLifecycle): no fact of another space ever changes, whatever runs    *)
(* between the two calls.                                                  *)
ChangesStayInTheirSpace ==
    [][ facts' # facts /\ daemon # "down" =>
            \A id \in DOMAIN facts : facts'[id] # facts[id] =>
                \E c \in Clients : /\ handler[c] = "checked" /\ handler'[c] = "answering"
                                   /\ op[c].target = id /\ RequestSpace(op[c]) = facts[id].space ]_vars

Created(fs, c) == {id \in DOMAIN fs : fs[id].by = c}

(* What a client was told stays true, over lost connections, forced        *)
(* shutdowns, kills and restarts: what was acknowledged is in the database *)
(* and stays there, and a first attempt that was refused (404, 409, 400)   *)
(* has left nothing behind, neither in the engine nor in the database.     *)
Done(c) ==
    CASE op[c].kind = "assert" -> Created(stored, c) # {}
      [] op[c].kind = "supersede" ->
             \E id \in Created(stored, c) : stored[op[c].target].successor = id
      [] op[c].kind = "retract" -> stored[op[c].target].status = "retracted"
      [] OTHER -> TRUE

AnswersStayTrue ==
    \A c \in Clients :
        /\ told[c] = "200" => Done(c)
        /\ told[c] \in {"400", "404", "409"} /\ attempts[c] = 1 =>
               Created(facts, c) = {} /\ Created(stored, c) = {}

(* Clients race to supersede one fact, over two engine calls each, and try *)
(* again when an answer is lost: at most one replacement ever results, and *)
(* at most one client is told that it succeeded.                           *)
OneSuccessor ==
    \A id \in DOMAIN InitialFacts :
        LET racing == {c \in Clients : op[c] # None /\ op[c].kind = "supersede" /\ op[c].target = id}
        IN  /\ Cardinality(UNION {Created(stored, c) : c \in racing}) <= 1
            /\ Cardinality({c \in racing : told[c] = "200"}) <= 1

(* Once a save's end is unknown the daemon confirms nothing, reads         *)
(* included, until it is restarted (http.go's health answers the same).    *)
PoisonedConfirmsNothing ==
    [][ poisoned => \A c \in Clients :
            outcome'[c] # outcome[c] => outcome'[c] # "200" ]_vars

(* serve (main.go): once interrupted, the daemon closes its engine and     *)
(* exits, even when handlers never return.                                 *)
InterruptedDaemonExits == (daemon = "draining") ~> (daemon = "down")
=============================================================================
