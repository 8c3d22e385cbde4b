----------------------------- MODULE CommitPath -----------------------------
(***************************************************************************)
(* One mutating call from its first look at the context to its answer:     *)
(* engine.mutateLocked over rhizaStore.Save over DB.Apply over the         *)
(* embedded native engine, with cancellations, lost answers, crashes,      *)
(* Close and Open.                                                         *)
(*                                                                         *)
(* A record is a key, its content the call that wrote it last.  The        *)
(* metadata row that every delta carries (version and sequence) is part of *)
(* the delta and of no check here, so it is left out, and so are the size  *)
(* in bytes (a delta is as large as it has records) and read-only opens.   *)
(*                                                                         *)
(* External: the native engine.  A request it was sent is decided once,    *)
(* whoever hears of it; it knows a request again by its id; opening it     *)
(* first settles what an earlier process left behind.                      *)
(***************************************************************************)
EXTENDS Naturals, FiniteSets

CONSTANTS
    Requests,   \* calls to a mutating method of the engine
    Keys,       \* records of the database
    SeedKeys,   \* the records seedBitemporalRevisionsLocked adds
    Watermark,  \* the one of them that says it has run
    Writes,     \* the records the body of each call changes
    Limit,      \* the most records one native mutation may carry
    Closing,    \* the save of engine.Close, and the seeding: no call's
    None,       \* no record; no lock holder
    MaxOpens    \* bound: how often the database is opened

DataKeys == Keys \ SeedKeys
Savers == Requests \cup {Closing}
Content == Savers \cup {None}

ASSUME CommitAssumption ==
    /\ Closing \notin Requests
    /\ None \notin Savers
    /\ Watermark \in SeedKeys
    /\ SeedKeys \subseteq Keys
    /\ Writes \in [Requests -> SUBSET DataKeys]
    /\ IsFiniteSet(Keys)
    /\ Limit \in Nat
    /\ MaxOpens \in Nat

VARIABLES
    process,    \* "open", "closed" (the engine object outlives its store) or "down"
    opens,      \* how often the database has been opened
    memory,     \* the engine's maps
    snapshot,   \* mutateLocked's rollback copy
    lastState,  \* what the store believes is durable
    poisoned,   \* engine.poisoned: an outcome is unknown
    spoiled,    \* rhizaStore.poisoned
    lock,       \* who holds the engine's lock for writing
    step,       \* where the holder is
    todo,       \* records the running body has yet to change
    rows,       \* durable: the native records
    receipt,    \* durable: what the native engine decided about each request
    flight,     \* the records of the request it has not decided yet
    call,       \* "new", "waiting", "running" or "done", of each call
    cancelled,  \* the calls whose context is cancelled
    answer      \* what each caller was told

engine == <<memory, snapshot, lastState, poisoned, spoiled>>
native == <<rows, receipt, flight>>
clients == <<call, cancelled, answer>>
vars == <<process, opens, engine, lock, step, todo, native, clients>>

Unwritten == [k \in Keys |-> None]

(* What applyState makes of the records it loads.                          *)
Seeded(records) ==
    IF records[Watermark] # None THEN records
    ELSE [k \in Keys |-> IF k \in SeedKeys /\ records[k] = None THEN Closing ELSE records[k]]

Init ==
    /\ process = "down"
    /\ opens = 0
    /\ memory = Unwritten /\ snapshot = Unwritten /\ lastState = Unwritten
    /\ poisoned = FALSE /\ spoiled = FALSE
    /\ lock = None /\ step = "free" /\ todo = {}
    /\ rows = Unwritten /\ flight = Unwritten
    /\ receipt = [q \in Savers |-> "none"]
    /\ call = [r \in Requests |-> "new"]
    /\ cancelled = {}
    /\ answer = [r \in Requests |-> "none"]

-----------------------------------------------------------------------------
(* Opening and stopping.                                                   *)

Settled == \A q \in Savers : receipt[q] # "sent"

(* Open: the native engine recovers, Load reads every record, and          *)
(* applyState seeds the log in memory only.                                *)
Open ==
    /\ process = "down"
    /\ Settled
    /\ opens < MaxOpens
    /\ opens' = opens + 1
    /\ process' = "open"
    /\ memory' = Seeded(rows)
    /\ lastState' = rows
    /\ poisoned' = FALSE /\ spoiled' = FALSE
    /\ receipt' = [receipt EXCEPT ![Closing] = "none"]
    /\ UNCHANGED <<snapshot, lock, step, todo, rows, flight, clients>>

(* The process ends, between any two steps; its callers hear nothing.      *)
Crash ==
    /\ process # "down"
    /\ process' = "down"
    /\ lock' = None /\ step' = "free" /\ todo' = {}
    /\ call' = [r \in Requests |-> IF call[r] = "new" THEN "new" ELSE "done"]
    /\ UNCHANGED <<opens, engine, native, cancelled, answer>>

-----------------------------------------------------------------------------
(* The native engine.                                                      *)

NativeCommit ==
    /\ \E q \in Savers :
        /\ receipt[q] = "sent"
        /\ receipt' = [receipt EXCEPT ![q] = "committed"]
    /\ rows' = [k \in Keys |-> IF flight[k] = None THEN rows[k] ELSE flight[k]]
    /\ UNCHANGED <<process, opens, engine, lock, step, todo, flight, clients>>

NativeReject ==
    /\ \E q \in Savers :
        /\ receipt[q] = "sent"
        /\ receipt' = [receipt EXCEPT ![q] = "rejected"]
    /\ UNCHANGED <<process, opens, engine, lock, step, todo, rows, flight, clients>>

-----------------------------------------------------------------------------
(* The caller's side.                                                      *)

Cancel(r) ==
    /\ call[r] # "done"
    /\ cancelled' = cancelled \cup {r}
    /\ UNCHANGED <<process, opens, engine, lock, step, todo, native, call, answer>>

Tell(r, what) ==
    /\ call' = [call EXCEPT ![r] = "done"]
    /\ answer' = [answer EXCEPT ![r] = what]
    /\ UNCHANGED cancelled

(* mutateLocked looks at the context before it queues for the lock.        *)
Call(r) ==
    /\ process # "down"
    /\ call[r] = "new"
    /\ \/ /\ r \in cancelled
          /\ Tell(r, "failed")
       \/ /\ r \notin cancelled
          /\ call' = [call EXCEPT ![r] = "waiting"]
          /\ UNCHANGED <<cancelled, answer>>
    /\ UNCHANGED <<process, opens, engine, lock, step, todo, native>>

(* It looks again once it has the lock, and refuses to write after an      *)
(* unknown outcome.                                                        *)
MayWrite(r) == r \notin cancelled /\ ~poisoned

Refuse(r) ==
    /\ call[r] = "waiting" /\ lock = None
    /\ ~MayWrite(r)
    /\ Tell(r, "failed")
    /\ UNCHANGED <<process, opens, engine, lock, step, todo, native>>

Changes(r) == Writes[r]

Begin(r) ==
    /\ call[r] = "waiting" /\ lock = None
    /\ MayWrite(r)
    /\ lock' = r
    /\ step' = "body"
    /\ todo' = Changes(r)
    /\ snapshot' = memory
    /\ call' = [call EXCEPT ![r] = "running"]
    /\ UNCHANGED <<process, opens, memory, lastState, poisoned, spoiled, native,
                   cancelled, answer>>

(* The body changes its records one after the other.                       *)
Change(r) ==
    /\ lock = r /\ step = "body"
    /\ \E k \in todo :
        /\ memory' = [memory EXCEPT ![k] = r]
        /\ todo' = todo \ {k}
    /\ UNCHANGED <<process, opens, snapshot, lastState, poisoned, spoiled, lock, step, native,
                   clients>>

(* Mutant of Release: a return that skips the unlock.                      *)
ReleaseNothing == lock' = lock /\ step' = "free" /\ todo' = {}

Release == lock' = None /\ step' = "free" /\ todo' = {}

(* Mutant of RollBack: memory keeps what the body changed.                 *)
KeepChanges(r, what) ==
    /\ Release
    /\ Tell(r, what)
    /\ UNCHANGED <<process, opens, engine, native>>

(* restoreLocked, the unlock and an answer that says nothing was written.  *)
RollBack(r, what) ==
    /\ memory' = snapshot
    /\ Release
    /\ Tell(r, what)
    /\ UNCHANGED <<process, opens, snapshot, lastState, poisoned, spoiled, native>>

BodyFails(r) ==
    /\ lock = r /\ step = "body"
    /\ RollBack(r, "failed")

(* The context is looked at for the last time before the save.             *)
PreSave(r) ==
    /\ lock = r /\ step = "body" /\ todo = {}
    /\ \/ /\ r \in cancelled
          /\ RollBack(r, "failed")
       \/ /\ r \notin cancelled
          /\ step' = "save"
          /\ UNCHANGED <<process, opens, engine, lock, todo, native, clients>>

-----------------------------------------------------------------------------
(* Save and Apply, for a call and for Close.                               *)

(* engine.Close: one more save, unless an outcome is unknown.              *)
Close ==
    /\ process = "open" /\ lock = None
    /\ IF poisoned
       THEN /\ process' = "closed"
            /\ UNCHANGED <<lock, step>>
       ELSE /\ lock' = Closing
            /\ step' = "save"
            /\ UNCHANGED process
    /\ UNCHANGED <<opens, engine, todo, native, clients>>

(* Whatever came of its save, Close closes the store.                      *)
CloseStore ==
    /\ process' = "closed"
    /\ Release
    /\ UNCHANGED <<opens, memory, snapshot, poisoned, native, clients>>

Delta == {k \in Keys : memory[k] # lastState[k]}

(* The three ways a save ends.                                             *)
Saved ==
    /\ lastState' = memory
    /\ \/ /\ lock \in Requests
          /\ Release
          /\ Tell(lock, "ok")
          /\ UNCHANGED <<process, opens, memory, snapshot, poisoned, spoiled, native>>
       \/ lock = Closing /\ CloseStore /\ UNCHANGED spoiled

Refused(what) ==
    \/ lock \in Requests /\ RollBack(lock, what)
    \/ lock = Closing /\ CloseStore /\ UNCHANGED <<lastState, spoiled>>

OutcomeUnknown ==
    /\ spoiled' = TRUE
    /\ UNCHANGED lastState
    /\ \/ /\ lock \in Requests
          /\ memory' = snapshot
          /\ poisoned' = TRUE
          /\ Release
          /\ Tell(lock, "unknown")
          /\ UNCHANGED <<process, opens, snapshot, native>>
       \/ lock = Closing /\ CloseStore

(* rhizaStore.Save before it asks the native engine.                       *)
SaveSpoiled  == step = "save" /\ spoiled /\ OutcomeUnknown
SaveNothing  == step = "save" /\ ~spoiled /\ Delta = {} /\ Saved
SaveTooLarge == step = "save" /\ ~spoiled /\ Cardinality(Delta) > Limit /\ Refused("too large")

(* DB.Apply sends the request; a closed store, or an error before it is    *)
(* taken, is definite.                                                     *)
Send ==
    /\ step = "save" /\ ~spoiled
    /\ Delta # {} /\ Cardinality(Delta) <= Limit
    /\ process = "open"
    /\ step' = "sent"
    /\ receipt' = [receipt EXCEPT ![lock] = "sent"]
    /\ flight' = [k \in Keys |-> IF k \in Delta THEN memory[k] ELSE None]
    /\ UNCHANGED <<process, opens, engine, lock, todo, rows, clients>>

SendFails ==
    /\ step = "save" /\ ~spoiled
    /\ Delta # {} /\ Cardinality(Delta) <= Limit
    /\ Refused("failed")

(* An answer about the request may arrive, or be lost, at each of the      *)
(* three points where Apply waits for one: the mutation, the status query  *)
(* and the retry under the same id.                                        *)
Asking == step \in {"sent", "status", "retry"}

HeardCommitted == Asking /\ receipt[lock] = "committed" /\ Saved
HeardRejected  == Asking /\ receipt[lock] = "rejected" /\ Refused("failed")

AskAgain ==
    /\ \/ step = "sent" /\ step' = "status"
       \/ step = "status" /\ step' = "retry"
    /\ UNCHANGED <<process, opens, engine, lock, todo, native, clients>>

(* Mutant of GiveUp: an answer that never came taken for a refusal.        *)
GiveUpAsRefused == step = "retry" /\ Refused("failed")

GiveUp == step = "retry" /\ OutcomeUnknown

Save ==
    \/ SaveSpoiled
    \/ SaveNothing
    \/ SaveTooLarge
    \/ Send
    \/ SendFails
    \/ HeardCommitted
    \/ HeardRejected
    \/ AskAgain
    \/ GiveUp

-----------------------------------------------------------------------------
Next ==
    \/ Open
    \/ Crash
    \/ NativeCommit
    \/ NativeReject
    \/ \E r \in Requests :
        \/ Cancel(r)
        \/ Call(r)
        \/ Refuse(r)
        \/ Begin(r)
        \/ Change(r)
        \/ BodyFails(r)
        \/ PreSave(r)
    \/ Close
    \/ Save

Spec == Init /\ [][Next]_vars

(* The scheduler runs a goroutine that can run, and sync.RWMutex starves   *)
(* no writer.  The native engine need not decide: Apply gives up instead.  *)
Fairness ==
    /\ WF_vars(Save)
    /\ \A r \in Requests :
        /\ SF_vars(Refuse(r) \/ Begin(r))
        /\ WF_vars(Change(r) \/ PreSave(r))

FairSpec == Spec /\ Fairness

-----------------------------------------------------------------------------
TypeOK ==
    /\ process \in {"open", "closed", "down"}
    /\ opens \in Nat
    /\ memory \in [Keys -> Content] /\ snapshot \in [Keys -> Content]
    /\ lastState \in [Keys -> Content]
    /\ poisoned \in BOOLEAN /\ spoiled \in BOOLEAN
    /\ lock \in Savers \cup {None}
    /\ step \in {"free", "body", "save", "sent", "status", "retry"}
    /\ todo \subseteq DataKeys
    /\ rows \in [Keys -> Content] /\ flight \in [Keys -> Content]
    /\ receipt \in [Savers -> {"none", "sent", "committed", "rejected"}]
    /\ call \in [Requests -> {"new", "waiting", "running", "done"}]
    /\ cancelled \subseteq Requests
    /\ answer \in [Requests -> {"none", "ok", "failed", "too large", "unknown"}]

(***************************************************************************)
(* What readers are shown is what a reopen would load: whenever the engine *)
(* would serve a read (the lock is free, no outcome is unknown), its maps  *)
(* are the durable records, with the seeding of applyState, and nothing    *)
(* it sent is still undecided.  ("A failed write never leaks partial       *)
(* mutations", mutateLocked; reads are refused once engine.poisoned is     *)
(* set.)                                                                   *)
(***************************************************************************)
Serving == process # "down" /\ lock = None /\ ~poisoned

ServedStateIsDurable ==
    Serving =>
        /\ memory = Seeded(rows)
        /\ process = "open" => Settled

(***************************************************************************)
(* The engine keeps the promise of AtomicStore: a call is written whole or *)
(* not at all, "ok" means durable whatever crashes follow, a refusal or a  *)
(* cancellation means it never will be, and only "unknown" leaves it open. *)
(* The seeded records are no caller's and are not part of the promise.     *)
(***************************************************************************)
Outcome(r) ==
    IF call[r] = "new" THEN "new"
    ELSE IF receipt[r] = "committed" THEN "applied"
    ELSE IF \/ receipt[r] = "rejected"
            \/ answer[r] \in {"failed", "too large"}
            \/ receipt[r] = "none" /\ call[r] = "done" /\ answer[r] = "none"
         THEN "dropped"
    ELSE "open"

Told(r) == IF answer[r] = "too large" THEN "failed" ELSE answer[r]

Promise == INSTANCE AtomicStore WITH
    Keys <- DataKeys,
    state <- [k \in DataKeys |-> rows[k]],
    status <- [r \in Requests |-> Outcome(r)],
    answer <- [r \in Requests |-> Told(r)]

KeepsPromise == Promise!Spec

(***************************************************************************)
(* A mutation is refused as too large only when it is: a caller who stays  *)
(* within the limit never hears that his input exceeds it.                 *)
(***************************************************************************)
SmallMutationsFit ==
    \A r \in Requests : answer[r] = "too large" => Cardinality(Writes[r]) > Limit

(***************************************************************************)
(* Every call that queued for the lock is answered, or its process ends:   *)
(* no failure, cancellation or lost answer leaves the lock held, even when *)
(* the native engine never decides.                                        *)
(***************************************************************************)
CallsAreAnswered ==
    \A r \in Requests : call[r] = "waiting" ~> call[r] = "done"

-----------------------------------------------------------------------------
(* What the proofs add to make these properties inductive.                 *)

Landed == Asking /\ receipt[lock] = "committed"
Difference(new, old) == [k \in Keys |-> IF new[k] = old[k] THEN None ELSE new[k]]

LockInv ==
    /\ lock = None <=> step = "free"
    /\ step = "body" => lock \in Requests /\ todo \subseteq Writes[lock]
    /\ step # "body" => todo = {}
    /\ lock # None => process # "down" /\ ~poisoned
    /\ lock = Closing \/ Asking => process = "open" /\ ~spoiled
    /\ poisoned => spoiled
    /\ process = "open" /\ spoiled => poisoned
    /\ \A r \in Requests : call[r] = "running" <=> lock = r
    /\ \A r \in Requests : call[r] = "waiting" => process # "down"
    /\ \A r \in Requests : answer[r] # "none" => call[r] = "done"

ReceiptInv ==
    /\ Asking => receipt[lock] # "none"
    /\ \A r \in Requests : receipt[r] # "none" => call[r] = "done" \/ (lock = r /\ Asking)
    /\ \A r \in Requests :
          receipt[r] = "sent" => (lock = r /\ Asking) \/ poisoned \/ process = "down"
    /\ receipt[Closing] = "sent"
          => (lock = Closing /\ Asking) \/ (process = "closed" /\ spoiled) \/ process = "down"
    /\ \A p, q \in Savers : receipt[p] = "sent" /\ receipt[q] = "sent" => p = q
    /\ \A r \in Requests : \A k \in Keys : rows[k] = r => receipt[r] = "committed"
    /\ \A r \in Requests :
          receipt[r] \in {"sent", "committed"} => answer[r] \notin {"failed", "too large"}

FlightInv ==
    /\ \A r \in Requests : receipt[r] = "sent" =>
          /\ \A k \in DataKeys : flight[k] = IF k \in Writes[r] THEN r ELSE None
          /\ \A k \in Keys : flight[k] \in {r, Closing, None}
    /\ receipt[Closing] = "sent" => flight = Difference(Seeded(rows), rows)
    /\ Asking /\ receipt[lock] = "sent" => flight = Difference(memory, rows)

MemoryInv ==
    /\ Serving \/ lock = Closing => memory = Seeded(rows)
    /\ process # "down" /\ ~spoiled /\ ~Landed => lastState = rows
    /\ Landed => memory = rows
    /\ lock \in Requests =>
          /\ ~Landed => snapshot = Seeded(rows)
          /\ snapshot[Watermark] # None
          /\ memory = [k \in Keys |-> IF k \in Writes[lock] \ todo THEN lock ELSE snapshot[k]]

IInv == TypeOK /\ LockInv /\ ReceiptInv /\ FlightInv /\ MemoryInv

=============================================================================
