----------------------------- MODULE AtomicStore -----------------------------
(***************************************************************************)
(* What a caller of the engine is promised about one mutating call         *)
(* (docs/07-implementation/transactions.md: "multi-step lifecycle          *)
(* transitions must succeed or fail together"): it takes effect as a       *)
(* whole, at most once, at one moment; "ok" says that it has, "failed"     *)
(* that it never will, and "unknown" leaves both open.                     *)
(***************************************************************************)
CONSTANTS
    Requests,   \* the mutating calls
    Keys,       \* the records they write
    Writes,     \* the records each call writes
    None        \* a record nobody has written

VARIABLES
    state,      \* who wrote each record last
    status,     \* "new", "open", "applied" or "dropped", of each call
    answer      \* what the caller was told

vars == <<state, status, answer>>

Init ==
    /\ state = [k \in Keys |-> None]
    /\ status = [r \in Requests |-> "new"]
    /\ answer = [r \in Requests |-> "none"]

Invoke(r) ==
    /\ status[r] = "new"
    /\ status' = [status EXCEPT ![r] = "open"]
    /\ UNCHANGED <<state, answer>>

TakeEffect(r) ==
    /\ status[r] = "open"
    /\ status' = [status EXCEPT ![r] = "applied"]
    /\ state' = [k \in Keys |-> IF k \in Writes[r] THEN r ELSE state[k]]
    /\ UNCHANGED answer

(* The calls of S are given up before they took effect; nobody is told.    *)
Drop(S) ==
    /\ \A r \in S : status[r] = "open"
    /\ status' = [r \in Requests |-> IF r \in S THEN "dropped" ELSE status[r]]
    /\ UNCHANGED <<state, answer>>

Fail(r) ==
    /\ status[r] \in {"new", "open", "dropped"}
    /\ answer[r] = "none"
    /\ status' = [status EXCEPT ![r] = "dropped"]
    /\ answer' = [answer EXCEPT ![r] = "failed"]
    /\ UNCHANGED state

(* A call that writes nothing may succeed without taking effect.           *)
Succeed(r) ==
    /\ status[r] = "applied" \/ (status[r] = "open" /\ Writes[r] = {})
    /\ answer[r] = "none"
    /\ answer' = [answer EXCEPT ![r] = "ok"]
    /\ UNCHANGED <<state, status>>

LeaveOpen(r) ==
    /\ status[r] # "new"
    /\ answer[r] = "none"
    /\ answer' = [answer EXCEPT ![r] = "unknown"]
    /\ UNCHANGED <<state, status>>

Next ==
    \/ \E r \in Requests :
        Invoke(r) \/ TakeEffect(r) \/ Fail(r) \/ Succeed(r) \/ LeaveOpen(r)
    \/ \E S \in SUBSET Requests : Drop(S)

Spec == Init /\ [][Next]_vars
=============================================================================
