-------------------------- MODULE CommitPath_proofs --------------------------
(***************************************************************************)
(* Proofs about CommitPath, for every set of calls, records and seeds.     *)
(***************************************************************************)
EXTENDS CommitPath, TLAPS

-----------------------------------------------------------------------------
(* Seeding is idempotent, leaves the callers' records alone and always     *)
(* leaves the watermark behind.                                            *)
LEMMA SeededFacts ==
    ASSUME NEW records \in [Keys -> Content]
    PROVE  /\ Seeded(records) \in [Keys -> Content]
           /\ Seeded(records)[Watermark] # None
           /\ \A k \in DataKeys : Seeded(records)[k] = records[k]
           /\ \A k \in Keys : Seeded(records)[k] = records[k] \/ Seeded(records)[k] = Closing
           /\ \A k \in Keys : records[k] # None => Seeded(records)[k] = records[k]
           /\ Seeded(Seeded(records)) = Seeded(records)
  BY CommitAssumption DEF Seeded, Content, Savers, DataKeys

(* Records that have the watermark are loaded as they are.                 *)
LEMMA SeededIdentity ==
    ASSUME NEW records, records[Watermark] # None
    PROVE  Seeded(records) = records
  BY DEF Seeded

-----------------------------------------------------------------------------
(* Type correctness.                                                       *)

LEMMA InitInvariant == Init => IInv
  <1> SUFFICES ASSUME Init PROVE IInv
    OBVIOUS
  <1>1. TypeOK
    BY CommitAssumption DEF Init, TypeOK, Unwritten, Content, Savers, DataKeys
  <1>2. LockInv
    BY CommitAssumption DEF Init, LockInv, Asking, Savers
  <1>3. ReceiptInv
    BY CommitAssumption DEF Init, ReceiptInv, Asking, Savers, Unwritten
  <1>4. FlightInv
    BY CommitAssumption DEF Init, FlightInv, Asking, Savers
  <1>5. MemoryInv
    BY CommitAssumption DEF Init, MemoryInv, Serving, Landed, Asking, Savers
  <1> QED
    BY <1>1, <1>2, <1>3, <1>4, <1>5 DEF IInv

LEMMA OpenStep == IInv /\ Open => IInv'
  <1> SUFFICES ASSUME IInv, Open PROVE IInv'
    OBVIOUS
  <1> USE DEF IInv
  <1>1. TypeOK'
    <2>1. Seeded(rows) \in [Keys -> Content]
      BY SeededFacts DEF TypeOK
    <2>2. receipt' \in [Savers -> {"none", "sent", "committed", "rejected"}]
      BY DEF Open, TypeOK
    <2>3. poisoned' \in BOOLEAN /\ spoiled' \in BOOLEAN
      BY DEF Open
    <2>4. process' \in {"open", "closed", "down"} /\ opens' \in Nat
      <3>1. opens \in Nat /\ opens' = opens + 1 /\ process' = "open"
        BY DEF Open, TypeOK
      <3>2. opens' \in Nat
        BY <3>1
      <3> QED
        BY <3>1, <3>2
    <2>5. memory' \in [Keys -> Content] /\ lastState' \in [Keys -> Content]
      BY <2>1 DEF Open, TypeOK
    <2>6. UNCHANGED <<snapshot, lock, step, todo, rows, flight, call, cancelled, answer>>
      BY DEF Open, clients
    <2> QED
      BY <2>2, <2>3, <2>4, <2>5, <2>6 DEF TypeOK
  <1>2. LockInv'
    BY DEF Open, LockInv, TypeOK, Asking, clients
  <1>3. ReceiptInv'
    BY CommitAssumption DEF Open, ReceiptInv, LockInv, TypeOK, Asking, clients, Settled, Savers
  <1>4. FlightInv'
    BY CommitAssumption DEF Open, FlightInv, LockInv, TypeOK, Asking, clients, Settled, Savers
  <1>5. MemoryInv'
    BY CommitAssumption DEF Open, MemoryInv, LockInv, Serving, Landed, Asking, clients, Savers
  <1> QED
    BY <1>1, <1>2, <1>3, <1>4, <1>5

LEMMA CrashStep == IInv /\ Crash => IInv'
  <1> SUFFICES ASSUME IInv, Crash PROVE IInv'
    OBVIOUS
  <1> USE DEF IInv
  <1>1. TypeOK'
    BY DEF Crash, TypeOK, engine, native
  <1>2. LockInv'
    BY CommitAssumption DEF Crash, LockInv, TypeOK, Asking, engine, native, Savers
  <1>3. ReceiptInv'
    BY CommitAssumption DEF Crash, ReceiptInv, LockInv, TypeOK, Asking, engine, native, Savers
  <1>4. FlightInv'
    BY DEF Crash, FlightInv, TypeOK, Asking, engine, native
  <1>5. MemoryInv'
    BY CommitAssumption DEF Crash, MemoryInv, Serving, Landed, Asking, engine, native, Savers
  <1> QED
    BY <1>1, <1>2, <1>3, <1>4, <1>5

(* What landing does to the durable records: they become what was sent.    *)
LEMMA NativeCommitStep == IInv /\ NativeCommit => IInv'
  <1> SUFFICES ASSUME IInv, NativeCommit PROVE IInv'
    OBVIOUS
  <1> USE DEF IInv
  <1>1. PICK q \in Savers : receipt[q] = "sent" /\ receipt' = [receipt EXCEPT ![q] = "committed"]
    BY DEF NativeCommit
  <1>2. rows' = [k \in Keys |-> IF flight[k] = None THEN rows[k] ELSE flight[k]]
    BY DEF NativeCommit
  <1>3. UNCHANGED <<process, opens, memory, snapshot, lastState, poisoned, spoiled, lock, step,
                    todo, flight, call, cancelled, answer>>
    BY DEF NativeCommit, engine, clients
  <1>4. /\ receipt' \in [Savers -> {"none", "sent", "committed", "rejected"}]
        /\ receipt'[q] = "committed"
        /\ \A p \in Savers : p # q => receipt'[p] = receipt[p] /\ receipt[p] # "sent"
        /\ \A p \in Savers : receipt'[p] # "sent"
    BY <1>1 DEF ReceiptInv, TypeOK
  <1>5. rows' \in [Keys -> Content]
    BY <1>2 DEF TypeOK
  <1>6. TypeOK'
    BY <1>3, <1>4, <1>5 DEF TypeOK
  <1>7. LockInv'
    BY <1>3 DEF LockInv, Asking
  <1>8. ReceiptInv'
    <2>1. \A r \in Requests : receipt'[r] # "none" => receipt[r] # "none"
      BY <1>1, <1>4 DEF Savers
    <2>2. ASSUME NEW r \in Requests, NEW k \in Keys, rows'[k] = r PROVE receipt'[r] = "committed"
      <3>1. CASE flight[k] = None
        BY <1>2, <1>4, <2>2, <3>1 DEF ReceiptInv, Savers
      <3>2. CASE flight[k] # None
        <4>1. flight[k] = r
          BY <1>2, <2>2, <3>2
        <4>2. CASE q = Closing
          <5>1. flight = Difference(Seeded(rows), rows)
            BY <1>1, <4>2 DEF FlightInv
          <5>2. Seeded(rows)[k] = rows[k] \/ Seeded(rows)[k] = Closing
            BY SeededFacts DEF TypeOK
          <5> QED
            BY <4>1, <5>1, <5>2, CommitAssumption DEF Difference, Savers
        <4>3. CASE q \in Requests
          BY <1>1, <1>4, <4>1, <4>3, CommitAssumption DEF FlightInv, Savers
        <4> QED
          BY <4>2, <4>3 DEF Savers
      <3> QED
        BY <3>1, <3>2
    <2>3. (\A r \in Requests :
              receipt[r] \in {"sent", "committed"} => answer[r] \notin {"failed", "too large"})'
      BY <1>1, <1>3, <1>4 DEF ReceiptInv, Savers
    <2>4. receipt'[Closing] # "sent" /\ \A r \in Requests : receipt'[r] # "sent"
      BY <1>4 DEF Savers
    <2>5. (Asking => receipt[lock] # "none")'
      BY <1>3, <1>4 DEF ReceiptInv, LockInv, TypeOK, Asking
    <2>6. (\A r \in Requests : receipt[r] # "none" => call[r] = "done" \/ (lock = r /\ Asking))'
      BY <1>3, <2>1 DEF ReceiptInv, Asking
    <2> QED
      BY <1>4, <2>2, <2>3, <2>4, <2>5, <2>6 DEF ReceiptInv
  <1>9. FlightInv'
    BY <1>3, <1>4, CommitAssumption DEF FlightInv, LockInv, TypeOK, Asking, Savers
  <1>10. MemoryInv'
    <2>1. CASE q = Closing
      <3>1. flight = Difference(Seeded(rows), rows)
        BY <1>1, <2>1 DEF FlightInv
      <3>2. rows' = Seeded(rows)
        <4>1. Seeded(rows) \in [Keys -> Content]
              /\ \A k \in Keys : Seeded(rows)[k] = rows[k] \/ Seeded(rows)[k] = Closing
          BY SeededFacts DEF TypeOK
        <4> QED
          BY <1>2, <3>1, <4>1, CommitAssumption DEF Difference, Savers
      <3>3. Seeded(rows') = Seeded(rows)
        BY <3>2, SeededFacts DEF TypeOK
      <3>4. (lock = Closing /\ Asking) \/ (process = "closed" /\ spoiled) \/ process = "down"
        BY <1>1, <2>1 DEF ReceiptInv
      <3>5. lock \in Requests => lock # Closing /\ (Landed' <=> Landed)
        BY <1>3, <1>4, <2>1, CommitAssumption DEF Landed, Asking, Savers
      <3>6. (Serving \/ lock = Closing => memory = Seeded(rows))'
        BY <1>3, <3>3 DEF MemoryInv, Serving
      <3>7. (process # "down" /\ ~spoiled /\ ~Landed => lastState = rows)'
        BY <1>3, <1>4, <2>1, <3>4 DEF Landed, Asking
      <3>8. (Landed => memory = rows)'
        BY <1>3, <1>4, <2>1, <3>2, <3>4, CommitAssumption DEF MemoryInv, LockInv, Landed, Asking
      <3>9. (lock \in Requests => /\ ~Landed => snapshot = Seeded(rows)
                                  /\ snapshot[Watermark] # None)'
        BY <1>3, <3>3, <3>5 DEF MemoryInv
      <3>10. (lock \in Requests =>
                memory = [k \in Keys |-> IF k \in Writes[lock] \ todo THEN lock ELSE snapshot[k]])'
        BY <1>3 DEF MemoryInv
      <3> QED
        BY <3>6, <3>7, <3>8, <3>9, <3>10 DEF MemoryInv
    <2>2. CASE q \in Requests /\ lock = q /\ Asking
      <3>1. rows' = memory
        <4>1. flight = Difference(memory, rows)
          BY <1>1, <2>2 DEF FlightInv
        <4>2. \A k \in Keys : memory[k] = q \/ memory[k] = Seeded(rows)[k]
          BY <1>1, <2>2 DEF MemoryInv, Landed
        <4>3. \A k \in Keys : rows[k] # None => memory[k] # None
          <5>1. \A k \in Keys : rows[k] # None => Seeded(rows)[k] = rows[k]
            BY SeededFacts DEF TypeOK
          <5>2. q # None
            BY <2>2, CommitAssumption DEF Savers
          <5> QED
            BY <4>2, <5>1, <5>2
        <4> QED
          BY <1>2, <4>1, <4>3 DEF Difference, TypeOK
      <3>2. Landed' /\ lock' # Closing /\ ~Serving'
        BY <1>3, <1>4, <2>2, CommitAssumption DEF Landed, Asking, Serving, Savers
      <3> QED
        BY <1>3, <3>1, <3>2 DEF MemoryInv
    <2>3. CASE q \in Requests /\ ~(lock = q /\ Asking)
      <3>1. poisoned \/ process = "down"
        BY <1>1, <2>3 DEF ReceiptInv
      <3> QED
        BY <1>3, <1>4, <2>3, <3>1, CommitAssumption
        DEF MemoryInv, LockInv, TypeOK, Serving, Landed, Asking, Savers
    <2> QED
      BY <2>1, <2>2, <2>3 DEF Savers
  <1> QED
    BY <1>6, <1>7, <1>8, <1>9, <1>10

LEMMA NativeRejectStep == IInv /\ NativeReject => IInv'
  <1> SUFFICES ASSUME IInv, NativeReject PROVE IInv'
    OBVIOUS
  <1> USE DEF IInv
  <1>1. PICK q \in Savers : receipt[q] = "sent" /\ receipt' = [receipt EXCEPT ![q] = "rejected"]
    BY DEF NativeReject
  <1>2. UNCHANGED <<process, opens, memory, snapshot, lastState, poisoned, spoiled, lock, step,
                    todo, rows, flight, call, cancelled, answer>>
    BY DEF NativeReject, engine, clients
  <1>3. /\ receipt' \in [Savers -> {"none", "sent", "committed", "rejected"}]
        /\ receipt'[q] = "rejected"
        /\ \A p \in Savers : p # q => receipt'[p] = receipt[p]
        /\ \A p \in Savers : receipt'[p] # "sent"
    BY <1>1 DEF ReceiptInv, TypeOK
  <1>4. TypeOK'
    BY <1>2, <1>3 DEF TypeOK
  <1>5. LockInv'
    BY <1>2 DEF LockInv, Asking
  <1>6. ReceiptInv'
    <2>1. (\A r \in Requests :
              receipt[r] \in {"sent", "committed"} => answer[r] \notin {"failed", "too large"})'
      BY <1>1, <1>2, <1>3 DEF ReceiptInv, Savers
    <2>2. receipt'[Closing] # "sent" /\ \A r \in Requests : receipt'[r] # "sent"
      BY <1>3 DEF Savers
    <2>3. \A p \in Savers : /\ receipt'[p] = "none" <=> receipt[p] = "none"
                            /\ receipt'[p] = "committed" <=> receipt[p] = "committed"
      BY <1>1, <1>3
    <2>4. (Asking => receipt[lock] # "none")'
      BY <1>2, <1>3, <2>3 DEF ReceiptInv, LockInv, TypeOK, Asking
    <2>5. (\A r \in Requests : receipt[r] # "none" => call[r] = "done" \/ (lock = r /\ Asking))'
      <3>1. \A r \in Requests :
                receipt[r] # "none" => call[r] = "done" \/ (lock = r /\ Asking)
        BY DEF ReceiptInv
      <3>2. call' = call /\ lock' = lock /\ step' = step
        BY <1>2
      <3>3. \A r \in Requests : receipt'[r] = "none" <=> receipt[r] = "none"
        BY <2>3 DEF Savers
      <3> QED
        BY <3>1, <3>2, <3>3 DEF Asking
    <2>6. (\A r \in Requests : \A k \in Keys : rows[k] = r => receipt[r] = "committed")'
      <3>1. \A r \in Requests : \A k \in Keys : rows[k] = r => receipt[r] = "committed"
        BY DEF ReceiptInv
      <3> QED
        BY <1>2, <2>3, <3>1 DEF Savers
    <2> QED
      BY <1>3, <2>1, <2>2, <2>4, <2>5, <2>6 DEF ReceiptInv
  <1>7. FlightInv'
    BY <1>2, <1>3, CommitAssumption DEF FlightInv, LockInv, TypeOK, Asking, Savers
  <1>8. Landed' <=> Landed
    BY <1>1, <1>2, <1>3, CommitAssumption DEF Landed, Asking, LockInv, TypeOK
  <1>9. MemoryInv'
    BY <1>2, <1>8 DEF MemoryInv, Serving
  <1> QED
    BY <1>4, <1>5, <1>6, <1>7, <1>9

-----------------------------------------------------------------------------
(* The caller's side.                                                      *)

(* Steps that touch nothing but what a caller without the lock sees.       *)
LEMMA CallerStep ==
    ASSUME IInv, NEW r \in Requests, Cancel(r) \/ Call(r) \/ Refuse(r)
    PROVE  IInv'
  <1> USE DEF IInv
  <1>1. UNCHANGED <<process, opens, engine, lock, step, todo, native>>
    BY DEF Cancel, Call, Refuse
  <1>2. /\ call' \in [Requests -> {"new", "waiting", "running", "done"}]
        /\ cancelled' \subseteq Requests
        /\ answer' \in [Requests -> {"none", "ok", "failed", "too large", "unknown"}]
    BY DEF Cancel, Call, Refuse, Tell, TypeOK
  <1>3. \A q \in Requests :
          /\ call'[q] = "running" <=> call[q] = "running"
          /\ call'[q] = "waiting" => call[q] = "waiting" \/ process # "down"
          /\ call[q] = "done" => call'[q] = "done"
          /\ answer'[q] # "none" => answer[q] # "none" \/ call'[q] = "done"
          /\ answer'[q] # answer[q] => call[q] # "done" /\ call[q] # "running"
    BY DEF Cancel, Call, Refuse, Tell, TypeOK
  <1>4. TypeOK'
    BY <1>1, <1>2 DEF TypeOK, engine, native
  <1>5. LockInv'
    BY <1>1, <1>3 DEF LockInv, Asking, engine, native
  <1>6. ReceiptInv'
    <2>1. (\A p \in Requests :
              receipt[p] \in {"sent", "committed"} => answer[p] \notin {"failed", "too large"})'
      <3>1. \A q \in Requests : answer'[q] # answer[q] => receipt[q] = "none"
        BY <1>3 DEF ReceiptInv, LockInv
      <3> QED
        BY <1>1, <3>1 DEF ReceiptInv, native
    <2>2. UNCHANGED <<process, poisoned, spoiled, lock, step, rows, receipt>>
      BY <1>1 DEF engine, native
    <2> QED
      BY <1>3, <2>1, <2>2 DEF ReceiptInv, Asking
  <1>7. FlightInv'
    BY <1>1 DEF FlightInv, Asking, engine, native
  <1>8. MemoryInv'
    BY <1>1 DEF MemoryInv, Serving, Landed, Asking, engine, native
  <1> QED
    BY <1>4, <1>5, <1>6, <1>7, <1>8

(* Whoever may take the lock for writing finds what a reopen would load.   *)
LEMMA BeginStep ==
    ASSUME IInv, NEW r \in Requests, Begin(r)
    PROVE  IInv'
  <1> USE DEF IInv
  <1>1. /\ lock = None /\ call[r] = "waiting" /\ ~poisoned
        /\ lock' = r /\ step' = "body" /\ todo' = Writes[r] /\ snapshot' = memory
        /\ call' = [call EXCEPT ![r] = "running"]
        /\ UNCHANGED <<process, opens, memory, lastState, poisoned, spoiled, rows, receipt,
                       flight, cancelled, answer>>
    BY DEF Begin, MayWrite, Changes, native
  <1>2. process # "down" /\ step = "free" /\ memory = Seeded(rows) /\ receipt[r] = "none"
    BY <1>1, CommitAssumption DEF LockInv, ReceiptInv, MemoryInv, Serving, Asking, Savers
  <1>3. Writes[r] \subseteq DataKeys /\ r # None /\ r # Closing /\ r \in Savers
    BY CommitAssumption DEF Savers
  <1>4. ~Asking /\ ~Asking' /\ ~Landed /\ ~Landed'
    BY <1>1, <1>2 DEF Asking, Landed
  <1>5. TypeOK'
    BY <1>1, <1>3 DEF TypeOK
  <1>6. LockInv'
    <2>1. \A q \in Requests : call'[q] = "running" <=> lock' = q
      BY <1>1, <1>3, CommitAssumption DEF LockInv, TypeOK, Savers
    <2>2. \A q \in Requests : /\ call'[q] = "waiting" => process' # "down"
                              /\ answer'[q] # "none" => call'[q] = "done"
      BY <1>1, <1>2, <1>3 DEF LockInv, TypeOK
    <2> QED
      BY <1>1, <1>2, <1>3, <1>4, <2>1, <2>2 DEF LockInv
  <1>7. ReceiptInv'
    BY <1>1, <1>2, <1>3, <1>4 DEF ReceiptInv, TypeOK
  <1>8. FlightInv'
    BY <1>1, <1>4 DEF FlightInv
  <1>9. MemoryInv'
    <2>1. memory[Watermark] # None /\ memory \in [Keys -> Content]
      BY <1>2, SeededFacts DEF TypeOK
    <2>2. memory = [k \in Keys |-> IF k \in Writes[r] \ Writes[r] THEN r ELSE memory[k]]
      BY <2>1
    <2> QED
      BY <1>1, <1>2, <1>3, <1>4, <2>1, <2>2 DEF MemoryInv, Serving
  <1> QED
    BY <1>5, <1>6, <1>7, <1>8, <1>9

LEMMA ChangeStep ==
    ASSUME IInv, NEW r \in Requests, Change(r)
    PROVE  IInv'
  <1> USE DEF IInv
  <1>1. PICK k \in todo : memory' = [memory EXCEPT ![k] = r] /\ todo' = todo \ {k}
    BY DEF Change
  <1>2. /\ lock = r /\ step = "body"
        /\ UNCHANGED <<process, opens, snapshot, lastState, poisoned, spoiled, lock, step, rows,
                       receipt, flight, call, cancelled, answer>>
    BY DEF Change, native, clients
  <1>3. k \in Writes[r] /\ k \in Keys /\ r \in Content /\ r # None /\ r # Closing
    BY <1>1, <1>2, CommitAssumption DEF LockInv, TypeOK, DataKeys, Content, Savers
  <1>4. ~Asking /\ ~Asking' /\ ~Landed /\ ~Landed'
    BY <1>2 DEF Asking, Landed
  <1>5. TypeOK'
    BY <1>1, <1>2, <1>3 DEF TypeOK
  <1>6. LockInv'
    BY <1>1, <1>2, <1>4 DEF LockInv
  <1>7. ReceiptInv'
    BY <1>2, <1>4 DEF ReceiptInv
  <1>8. FlightInv'
    BY <1>2, <1>4 DEF FlightInv
  <1>9. MemoryInv'
    <2>1. memory' = [j \in Keys |-> IF j \in Writes[r] \ todo' THEN r ELSE snapshot[j]]
      BY <1>1, <1>2, <1>3 DEF MemoryInv, TypeOK
    <2> QED
      BY <1>2, <1>3, <1>4, <2>1 DEF MemoryInv, Serving
  <1> QED
    BY <1>5, <1>6, <1>7, <1>8, <1>9

(* A refusal that the native engine did not commit, and will not, puts the *)
(* engine back where the call found it.                                    *)
LEMMA RollBackStep ==
    ASSUME IInv, NEW r \in Requests, NEW what \in {"failed", "too large"},
           lock = r, receipt[r] \notin {"sent", "committed"}, RollBack(r, what)
    PROVE  IInv'
  <1> USE DEF IInv
  <1>1. /\ memory' = snapshot /\ lock' = None /\ step' = "free" /\ todo' = {}
        /\ call' = [call EXCEPT ![r] = "done"]
        /\ answer' = [answer EXCEPT ![r] = what]
        /\ UNCHANGED <<process, opens, snapshot, lastState, poisoned, spoiled, rows, receipt,
                       flight, cancelled>>
    BY DEF RollBack, Release, Tell, native
  <1>2. ~Asking' /\ ~Landed /\ ~Landed' /\ r # None /\ r # Closing
    BY <1>1, CommitAssumption DEF Asking, Landed, Savers
  <1>3. snapshot = Seeded(rows)
    BY <1>2 DEF MemoryInv
  <1>4. TypeOK'
    BY <1>1 DEF TypeOK
  <1>5. LockInv'
    BY <1>1, <1>2, CommitAssumption DEF LockInv, TypeOK, Savers
  <1>6. ReceiptInv'
    BY <1>1, <1>2 DEF ReceiptInv, TypeOK
  <1>7. FlightInv'
    BY <1>1, <1>2 DEF FlightInv
  <1>8. MemoryInv'
    BY <1>1, <1>2, <1>3, CommitAssumption DEF MemoryInv, Serving, Savers
  <1> QED
    BY <1>4, <1>5, <1>6, <1>7, <1>8

LEMMA BodyStep ==
    ASSUME IInv, NEW r \in Requests, BodyFails(r) \/ PreSave(r)
    PROVE  IInv'
  <1> USE DEF IInv
  <1>1. lock = r /\ step = "body" /\ receipt[r] = "none" /\ ~Asking
    <2>1. lock = r /\ step = "body"
      BY DEF BodyFails, PreSave
    <2>2. call[r] = "running" /\ ~Asking
      BY <2>1 DEF LockInv, Asking
    <2> QED
      BY <2>1, <2>2 DEF ReceiptInv
  <1>2. CASE RollBack(r, "failed")
    BY <1>1, <1>2, RollBackStep
  <1>3. CASE PreSave(r) /\ ~RollBack(r, "failed")
    <2>1. /\ step' = "save" /\ todo = {}
          /\ UNCHANGED <<process, opens, engine, lock, todo, native, clients>>
      BY <1>3 DEF PreSave
    <2>2. ~Asking' /\ ~Landed /\ ~Landed'
      BY <1>1, <2>1 DEF Asking, Landed
    <2>3. TypeOK'
      BY <2>1 DEF TypeOK, engine, native, clients
    <2>4. LockInv'
      BY <1>1, <2>1, <2>2, CommitAssumption DEF LockInv, TypeOK, engine, native, clients, Savers
    <2>5. ReceiptInv'
      BY <1>1, <2>1, <2>2 DEF ReceiptInv, engine, native, clients
    <2>6. FlightInv'
      BY <2>1, <2>2 DEF FlightInv, engine, native, clients
    <2>7. MemoryInv'
      BY <1>1, <2>1, <2>2 DEF MemoryInv, Serving, engine, native, clients
    <2> QED
      BY <2>3, <2>4, <2>5, <2>6, <2>7
  <1> QED
    BY <1>2, <1>3 DEF BodyFails, PreSave

-----------------------------------------------------------------------------
(* The save.                                                               *)

LEMMA CloseStep == IInv /\ Close => IInv'
  <1> SUFFICES ASSUME IInv, Close PROVE IInv'
    OBVIOUS
  <1> USE DEF IInv
  <1>1. /\ process = "open" /\ lock = None /\ step = "free" /\ ~Asking
        /\ UNCHANGED <<opens, memory, snapshot, lastState, poisoned, spoiled, todo, rows, receipt,
                       flight, call, cancelled, answer>>
    BY DEF Close, LockInv, Asking, engine, native, clients
  <1>2. \/ /\ poisoned /\ spoiled
           /\ process' = "closed" /\ lock' = lock /\ step' = step
        \/ /\ ~poisoned /\ ~spoiled
           /\ process' = process /\ lock' = Closing /\ step' = "save"
    BY <1>1 DEF Close, LockInv
  <1>3. ~Asking' /\ ~Landed /\ ~Landed' /\ Closing \notin Requests /\ None # Closing
    BY <1>1, <1>2, CommitAssumption DEF Asking, Landed, Savers
  <1>4. TypeOK'
    BY <1>1, <1>2 DEF TypeOK, Savers
  <1>5. LockInv'
    BY <1>1, <1>2, <1>3, CommitAssumption DEF LockInv, Savers
  <1>6. ReceiptInv'
    BY <1>1, <1>2, <1>3 DEF ReceiptInv, LockInv
  <1>7. FlightInv'
    BY <1>1, <1>2, <1>3 DEF FlightInv
  <1>8. MemoryInv'
    BY <1>1, <1>2, <1>3, CommitAssumption DEF MemoryInv, Serving, Savers
  <1> QED
    BY <1>4, <1>5, <1>6, <1>7, <1>8

(* While a save has not asked yet, nothing of its own is on its way.       *)
LEMMA BeforeAsking ==
    ASSUME IInv, step = "save"
    PROVE  /\ lock \in Savers /\ lock # None /\ process # "down" /\ ~poisoned
           /\ ~Asking /\ ~Landed /\ todo = {}
           /\ ~spoiled => \A q \in Savers : receipt[q] = "sent" => q = Closing /\ lock # Closing
           /\ lock \in Requests => receipt[lock] = "none"
           /\ lock = Closing => receipt[lock] # "sent"
           /\ ~spoiled => lastState = rows
  <1> USE DEF IInv
  <1>1. lock \in Savers /\ lock # None /\ process # "down" /\ ~poisoned /\ todo = {}
    BY DEF LockInv, TypeOK
  <1>2. ~Asking /\ ~Landed
    BY DEF Asking, Landed
  <1>3. ~spoiled => lastState = rows
    BY <1>1, <1>2 DEF MemoryInv
  <1>4. lock \in Requests => receipt[lock] = "none"
    BY <1>1, <1>2 DEF ReceiptInv, LockInv
  <1>5. lock = Closing => process = "open" /\ receipt[lock] # "sent"
    BY <1>1, <1>2 DEF ReceiptInv, LockInv
  <1>6. \A q \in Savers : receipt[q] = "sent" => q = Closing /\ lock # Closing
    BY <1>1, <1>2, <1>5 DEF ReceiptInv, Savers
  <1> QED
    BY <1>1, <1>2, <1>3, <1>4, <1>5, <1>6

(* Close's own save is over: the store is closed, whatever came of it.     *)
LEMMA CloseStoreStep ==
    ASSUME IInv, lock = Closing, CloseStore,
           receipt[Closing] = "sent" => spoiled',
           lastState' = rows \/ spoiled',
           spoiled' \in BOOLEAN, lastState' \in [Keys -> Content]
    PROVE  IInv'
  <1> USE DEF IInv
  <1>1. /\ process' = "closed" /\ lock' = None /\ step' = "free" /\ todo' = {}
        /\ UNCHANGED <<opens, memory, snapshot, poisoned, rows, receipt, flight, call,
                       cancelled, answer>>
    BY DEF CloseStore, Release, native, clients
  <1>2. ~Asking' /\ ~Landed' /\ Closing \notin Requests /\ None \notin Savers /\ Closing # None
    BY <1>1, CommitAssumption DEF Asking, Landed, Savers
  <1>3. ~poisoned /\ process = "open"
    BY <1>2 DEF LockInv
  <1>4. TypeOK'
    BY <1>1 DEF TypeOK
  <1>5. LockInv'
    BY <1>1, <1>2, <1>3 DEF LockInv, Savers
  <1>6. ReceiptInv'
    BY <1>1, <1>2, <1>3 DEF ReceiptInv
  <1>7. FlightInv'
    BY <1>1, <1>2 DEF FlightInv
  <1>8. MemoryInv'
    BY <1>1, <1>2, <1>3 DEF MemoryInv, Serving, Savers
  <1> QED
    BY <1>4, <1>5, <1>6, <1>7, <1>8

(* What was saved is what is durable, and it has the watermark.            *)
LEMMA SavedStep ==
    ASSUME IInv, Saved, lock \in Savers, memory = rows, receipt[lock] # "sent"
    PROVE  IInv'
  <1> USE DEF IInv
  <1>1. lastState' = memory
    BY DEF Saved
  <1>2. CASE lock \in Requests
    <2>1. PICK r \in Requests : lock = r
      BY <1>2
    <2>2. /\ lock' = None /\ step' = "free" /\ todo' = {}
          /\ call' = [call EXCEPT ![r] = "done"]
          /\ answer' = [answer EXCEPT ![r] = "ok"]
          /\ UNCHANGED <<process, opens, memory, snapshot, poisoned, spoiled, rows, receipt,
                         flight, cancelled>>
      BY <2>1, CommitAssumption DEF Saved, Release, Tell, native
    <2>3. ~Asking' /\ ~Landed' /\ r # None /\ r # Closing
      BY <2>2, CommitAssumption DEF Asking, Landed, Savers
    <2>4. Seeded(rows) = rows
      <3>1. Watermark \notin Writes[r] /\ Watermark \in Keys
        BY CommitAssumption DEF DataKeys
      <3>2. memory[Watermark] = snapshot[Watermark] /\ snapshot[Watermark] # None
        BY <2>1, <3>1 DEF MemoryInv
      <3> QED
        BY <3>2, SeededIdentity
    <2>5. TypeOK'
      BY <1>1, <2>2 DEF TypeOK
    <2>6. LockInv'
      BY <2>1, <2>2, <2>3, CommitAssumption DEF LockInv, TypeOK, Savers
    <2>7. ReceiptInv'
      BY <2>1, <2>2, <2>3 DEF ReceiptInv, TypeOK
    <2>8. FlightInv'
      BY <2>2, <2>3 DEF FlightInv
    <2>9. MemoryInv'
      BY <1>1, <2>2, <2>3, <2>4, CommitAssumption DEF MemoryInv, Serving, Savers
    <2> QED
      BY <2>5, <2>6, <2>7, <2>8, <2>9
  <1>3. CASE lock = Closing
    <2>1. CloseStore /\ UNCHANGED spoiled
      BY <1>3, CommitAssumption DEF Saved
    <2> QED
      BY <1>1, <1>3, <2>1, CloseStoreStep DEF TypeOK
  <1> QED
    BY <1>2, <1>3 DEF Savers

(* A definite refusal, of a call or of Close's save.                       *)
LEMMA RefusedStep ==
    ASSUME IInv, NEW what \in {"failed", "too large"}, Refused(what), lock \in Savers,
           receipt[lock] # "sent", lock \in Requests => receipt[lock] # "committed",
           lastState = rows
    PROVE  IInv'
  <1>1. CASE lock \in Requests
    <2>1. RollBack(lock, what)
      BY <1>1, CommitAssumption DEF Refused
    <2> QED
      BY <1>1, <2>1, RollBackStep
  <1>2. CASE lock = Closing
    <2>1. CloseStore /\ UNCHANGED <<lastState, spoiled>>
      BY <1>2, CommitAssumption DEF Refused
    <2> QED
      BY <1>2, <2>1, CloseStoreStep DEF IInv, TypeOK
  <1> QED
    BY <1>1, <1>2 DEF Savers

(* Once an outcome is unknown nothing is served and nothing is sent.       *)
LEMMA UnknownStep ==
    ASSUME IInv, OutcomeUnknown, lock \in Savers
    PROVE  IInv'
  <1> USE DEF IInv
  <1>1. spoiled' = TRUE /\ UNCHANGED lastState
    BY DEF OutcomeUnknown
  <1>2. CASE lock \in Requests
    <2>1. PICK r \in Requests : lock = r
      BY <1>2
    <2>2. /\ memory' = snapshot /\ poisoned' = TRUE
          /\ lock' = None /\ step' = "free" /\ todo' = {}
          /\ call' = [call EXCEPT ![r] = "done"]
          /\ answer' = [answer EXCEPT ![r] = "unknown"]
          /\ UNCHANGED <<process, opens, snapshot, rows, receipt, flight, cancelled>>
      BY <2>1, CommitAssumption DEF OutcomeUnknown, Release, Tell, native
    <2>3. ~Asking' /\ ~Landed' /\ r # None /\ r # Closing
      BY <2>2, CommitAssumption DEF Asking, Landed, Savers
    <2>4. TypeOK'
      BY <1>1, <2>2 DEF TypeOK
    <2>5. LockInv'
      BY <1>1, <2>1, <2>2, <2>3, CommitAssumption DEF LockInv, TypeOK, Savers
    <2>6. ReceiptInv'
      BY <1>1, <2>1, <2>2, <2>3 DEF ReceiptInv, TypeOK
    <2>7. FlightInv'
      BY <2>2, <2>3 DEF FlightInv
    <2>8. MemoryInv'
      BY <1>1, <2>2, <2>3, CommitAssumption DEF MemoryInv, Serving, Savers
    <2> QED
      BY <2>4, <2>5, <2>6, <2>7, <2>8
  <1>3. CASE lock = Closing
    BY <1>1, <1>3, CloseStoreStep, CommitAssumption DEF OutcomeUnknown, TypeOK
  <1> QED
    BY <1>2, <1>3 DEF Savers

(* What is sent is exactly the difference to the durable records, and of   *)
(* the callers' records exactly those of the call.                         *)
LEMMA SendStep == IInv /\ Send => IInv'
  <1> SUFFICES ASSUME IInv, Send PROVE IInv'
    OBVIOUS
  <1> USE DEF IInv
  <1>1. /\ step = "save" /\ ~spoiled /\ process = "open" /\ step' = "sent"
        /\ receipt' = [receipt EXCEPT ![lock] = "sent"]
        /\ flight' = [k \in Keys |-> IF k \in Delta THEN memory[k] ELSE None]
        /\ UNCHANGED <<process, opens, memory, snapshot, lastState, poisoned, spoiled, lock, todo,
                       rows, call, cancelled, answer>>
    BY DEF Send, engine, clients
  <1>2. /\ lock \in Savers /\ lock # None /\ ~poisoned /\ ~Asking /\ ~Landed /\ todo = {}
        /\ \A q \in Savers : receipt[q] # "sent"
        /\ lock \in Requests => receipt[lock] = "none"
        /\ lastState = rows
    <2>1. \A q \in Savers : receipt[q] = "sent" => q = Closing /\ lock # Closing
      BY <1>1, BeforeAsking
    <2>2. receipt[Closing] = "sent" => lock = Closing
      BY <1>1 DEF ReceiptInv
    <2> QED
      BY <1>1, <2>1, <2>2, BeforeAsking
  <1>3. /\ receipt'[lock] = "sent" /\ Asking' /\ ~Landed'
        /\ \A q \in Savers : q # lock => receipt'[q] = receipt[q]
    BY <1>1, <1>2 DEF Asking, Landed, TypeOK
  <1>4. flight' = Difference(memory, rows)
    BY <1>1, <1>2 DEF Delta, Difference
  <1>5. TypeOK'
    BY <1>1, <1>2 DEF TypeOK, Content
  <1>6. LockInv'
    BY <1>1, <1>2, <1>3 DEF LockInv
  <1>7. ReceiptInv'
    <2>1. (\A r \in Requests :
              receipt[r] \in {"sent", "committed"} => answer[r] \notin {"failed", "too large"})'
      <3>1. \A r \in Requests : r = lock => answer[r] = "none"
        BY <1>2 DEF LockInv
      <3> QED
        BY <1>1, <1>3, <3>1 DEF ReceiptInv, Savers
    <2>2. \A p \in Savers : receipt'[p] = "sent" => p = lock
      BY <1>2, <1>3
    <2>3. (\A r \in Requests : receipt[r] # "none" => call[r] = "done" \/ (lock = r /\ Asking))'
      BY <1>1, <1>3 DEF ReceiptInv, Savers
    <2>4. (\A r \in Requests : \A k \in Keys : rows[k] = r => receipt[r] = "committed")'
      <3>1. \A r \in Requests : \A k \in Keys :
                rows[k] = r => receipt[r] = "committed" /\ r # lock
        BY <1>2 DEF ReceiptInv
      <3> QED
        BY <1>1, <1>3, <3>1 DEF Savers
    <2>5. receipt'[lock'] # "none" /\ Asking' /\ UNCHANGED lock
      BY <1>1, <1>3
    <2> QED
      BY <2>1, <2>2, <2>3, <2>4, <2>5 DEF ReceiptInv, Savers
  <1>8. FlightInv'
    <2>1. ASSUME NEW r \in Requests, receipt'[r] = "sent"
          PROVE  /\ \A k \in DataKeys : flight'[k] = IF k \in Writes[r] THEN r ELSE None
                 /\ \A k \in Keys : flight'[k] \in {r, Closing, None}
      <3>1. r = lock /\ receipt[r] = "none"
        BY <1>2, <1>3, <2>1 DEF Savers
      <3>2. \A k \in Keys : memory[k] = IF k \in Writes[r] THEN r ELSE Seeded(rows)[k]
        BY <1>2, <3>1 DEF MemoryInv
      <3>3. \A k \in Keys : rows[k] # r
        BY <3>1 DEF ReceiptInv
      <3>4. /\ \A k \in DataKeys : Seeded(rows)[k] = rows[k]
            /\ \A k \in Keys : Seeded(rows)[k] = rows[k] \/ Seeded(rows)[k] = Closing
        BY SeededFacts DEF TypeOK
      <3>5. DataKeys \subseteq Keys
        BY DEF DataKeys
      <3> QED
        BY <1>4, <3>2, <3>3, <3>4, <3>5 DEF Difference
    <2>2. receipt'[Closing] = "sent" => flight' = Difference(Seeded(rows), rows)
      BY <1>2, <1>3, <1>4 DEF MemoryInv, Savers
    <2> QED
      BY <1>1, <1>4, <2>1, <2>2 DEF FlightInv
  <1>9. MemoryInv'
    BY <1>1, <1>2, <1>3, CommitAssumption DEF MemoryInv, Serving, Savers
  <1> QED
    BY <1>5, <1>6, <1>7, <1>8, <1>9

LEMMA AskAgainStep == IInv /\ AskAgain => IInv'
  <1> SUFFICES ASSUME IInv, AskAgain PROVE IInv'
    OBVIOUS
  <1> USE DEF IInv
  <1>1. /\ Asking /\ Asking' /\ step # "free" /\ step # "body" /\ step' # "free" /\ step' # "body"
        /\ step' \in {"status", "retry"}
        /\ UNCHANGED <<process, opens, engine, lock, todo, native, clients>>
    BY DEF AskAgain, Asking
  <1>2. TypeOK'
    BY <1>1 DEF TypeOK, engine, native, clients
  <1>3. LockInv'
    BY <1>1 DEF LockInv, engine, native, clients
  <1>4. ReceiptInv'
    BY <1>1 DEF ReceiptInv, engine, native, clients
  <1>5. FlightInv'
    BY <1>1 DEF FlightInv, engine, native, clients
  <1>6. MemoryInv'
    BY <1>1 DEF MemoryInv, Serving, Landed, engine, native, clients
  <1> QED
    BY <1>2, <1>3, <1>4, <1>5, <1>6

LEMMA SaveStep == IInv /\ Save => IInv'
  <1> SUFFICES ASSUME IInv, Save PROVE IInv'
    OBVIOUS
  <1>1. CASE SaveSpoiled
    BY <1>1, BeforeAsking, UnknownStep DEF SaveSpoiled
  <1>2. CASE SaveNothing
    <2>1. lock \in Savers /\ receipt[lock] # "sent" /\ lastState = rows
      BY <1>2, BeforeAsking DEF SaveNothing, Savers
    <2>2. memory = lastState
      <3>1. \A k \in Keys : memory[k] = lastState[k]
        BY <1>2 DEF SaveNothing, Delta
      <3>2. memory \in [Keys -> Content] /\ lastState \in [Keys -> Content]
        BY DEF IInv, TypeOK
      <3> QED
        BY <3>1, <3>2
    <2> QED
      BY <1>2, <2>1, <2>2, SavedStep DEF SaveNothing
  <1>3. CASE SaveTooLarge
    <2>1. /\ lock \in Savers /\ receipt[lock] # "sent" /\ lastState = rows
          /\ lock \in Requests => receipt[lock] # "committed"
      BY <1>3, BeforeAsking DEF SaveTooLarge, Savers
    <2> QED
      BY <1>3, <2>1, RefusedStep DEF SaveTooLarge
  <1>4. CASE Send
    BY <1>4, SendStep
  <1>5. CASE SendFails
    <2>1. /\ lock \in Savers /\ receipt[lock] # "sent" /\ lastState = rows
          /\ lock \in Requests => receipt[lock] # "committed"
      BY <1>5, BeforeAsking DEF SendFails, Savers
    <2> QED
      BY <1>5, <2>1, RefusedStep DEF SendFails
  <1>6. CASE HeardCommitted
    <2>1. Landed /\ lock \in Savers /\ receipt[lock] # "sent"
      BY <1>6 DEF HeardCommitted, Landed, Asking, IInv, LockInv, TypeOK
    <2>2. memory = rows
      BY <2>1 DEF IInv, MemoryInv
    <2> QED
      BY <1>6, <2>1, <2>2, SavedStep DEF HeardCommitted
  <1>7. CASE HeardRejected
    <2>1. Asking /\ ~Landed /\ receipt[lock] = "rejected"
      BY <1>7 DEF HeardRejected, Landed
    <2>2. lock \in Savers /\ process = "open" /\ ~spoiled
      BY <2>1 DEF Asking, IInv, LockInv, TypeOK
    <2>3. lastState = rows
      BY <2>1, <2>2 DEF IInv, MemoryInv
    <2> QED
      BY <1>7, <2>1, <2>2, <2>3, RefusedStep DEF HeardRejected
  <1>8. CASE AskAgain
    BY <1>8, AskAgainStep
  <1>9. CASE GiveUp
    <2>1. lock \in Savers
      BY <1>9 DEF GiveUp, IInv, LockInv, TypeOK
    <2> QED
      BY <1>9, <2>1, UnknownStep DEF GiveUp
  <1> QED
    BY <1>1, <1>2, <1>3, <1>4, <1>5, <1>6, <1>7, <1>8, <1>9 DEF Save

LEMMA NextInvariant == IInv /\ [Next]_vars => IInv'
  <1> SUFFICES ASSUME IInv, [Next]_vars PROVE IInv'
    OBVIOUS
  <1>1. CASE Open
    BY <1>1, OpenStep
  <1>2. CASE Crash
    BY <1>2, CrashStep
  <1>3. CASE NativeCommit
    BY <1>3, NativeCommitStep
  <1>4. CASE NativeReject
    BY <1>4, NativeRejectStep
  <1>5. ASSUME NEW r \in Requests, Cancel(r) \/ Call(r) \/ Refuse(r) PROVE IInv'
    BY <1>5, CallerStep
  <1>6. ASSUME NEW r \in Requests, Begin(r) PROVE IInv'
    BY <1>6, BeginStep
  <1>7. ASSUME NEW r \in Requests, Change(r) PROVE IInv'
    BY <1>7, ChangeStep
  <1>8. ASSUME NEW r \in Requests, BodyFails(r) \/ PreSave(r) PROVE IInv'
    BY <1>8, BodyStep
  <1>9. CASE Close
    BY <1>9, CloseStep
  <1>10. CASE Save
    BY <1>10, SaveStep
  <1>11. CASE UNCHANGED vars
    <2> USE <1>11 DEF IInv, vars, engine, native, clients
    <2>1. TypeOK'
      BY DEF TypeOK
    <2>2. LockInv'
      BY DEF LockInv, Asking
    <2>3. ReceiptInv'
      BY DEF ReceiptInv, Asking
    <2>4. FlightInv'
      BY DEF FlightInv, Asking
    <2>5. MemoryInv'
      BY DEF MemoryInv, Serving, Landed, Asking
    <2> QED
      BY <2>1, <2>2, <2>3, <2>4, <2>5
  <1> QED
    BY <1>1, <1>2, <1>3, <1>4, <1>5, <1>6, <1>7, <1>8, <1>9, <1>10, <1>11 DEF Next

-----------------------------------------------------------------------------
(* The invariant holds in every reachable state.                           *)
THEOREM InvariantHolds == Spec => []IInv
  <1>1. Init => IInv
    BY InitInvariant
  <1>2. IInv /\ [Next]_vars => IInv'
    BY NextInvariant
  <1> QED
    BY <1>1, <1>2, PTL DEF Spec

(* Every variable keeps its type.                                          *)
THEOREM TypeCorrect == Spec => []TypeOK
  <1>1. IInv => TypeOK
    BY DEF IInv
  <1> QED
    BY <1>1, InvariantHolds, PTL

(* Whenever the engine would serve a read, its maps are what a reopen      *)
(* would load, for every set of calls and whatever a call's save, a crash, *)
(* a cancellation or Close left behind.                                    *)
THEOREM ServedIsDurable == Spec => []ServedStateIsDurable
  <1>1. IInv => ServedStateIsDurable
    <2> SUFFICES ASSUME IInv, Serving
                 PROVE  memory = Seeded(rows) /\ (process = "open" => Settled)
      BY DEF ServedStateIsDurable
    <2>1. memory = Seeded(rows)
      BY DEF IInv, MemoryInv
    <2>2. lock = None /\ ~poisoned /\ process # "down" /\ ~Asking
      BY DEF Serving, IInv, LockInv, Asking
    <2>3. process = "open" => \A q \in Savers : receipt[q] # "sent"
      BY <2>2 DEF IInv, ReceiptInv, Savers
    <2> QED
      BY <2>1, <2>3 DEF Settled
  <1> QED
    BY <1>1, InvariantHolds, PTL

-----------------------------------------------------------------------------
(* CommitPath implements AtomicStore, for every set of calls and records.  *)

(* A call that holds the lock is not answered yet, and open to either      *)
(* outcome unless the native engine has decided.                           *)
LEMMA HolderIsOpen ==
    ASSUME IInv, lock \in Requests
    PROVE  /\ call[lock] = "running" /\ answer[lock] = "none" /\ Told(lock) = "none"
           /\ receipt[lock] = "committed" => Outcome(lock) = "applied"
           /\ receipt[lock] = "rejected" => Outcome(lock) = "dropped"
           /\ receipt[lock] \in {"none", "sent"} => Outcome(lock) = "open"
  <1>1. call[lock] = "running" /\ answer[lock] = "none"
    BY DEF IInv, LockInv
  <1> QED
    BY <1>1 DEF Outcome, Told

LEMMA InitRefines == Init => Promise!Init
  BY CommitAssumption DEF Init, Promise!Init, Outcome, Told, Unwritten, DataKeys, Savers

(* Nothing that callers are promised depends on the variables these steps  *)
(* change.                                                                 *)
LEMMA StutterRefines ==
    ASSUME UNCHANGED <<rows, call, answer>>,
           \A r \in Requests : receipt'[r] = receipt[r] \/
               (receipt[r] = "none" /\ receipt'[r] = "sent" /\ call[r] = "running" /\ answer[r] = "none")
    PROVE  UNCHANGED Promise!vars
  BY DEF Promise!vars, Outcome, Told

(* An answer that says nothing was written.                                *)
LEMMA FailRefines ==
    ASSUME NEW r \in Requests, NEW what \in {"failed", "too large"},
           Outcome(r) \in {"new", "open", "dropped"}, answer[r] = "none",
           receipt[r] # "committed",
           call' = [call EXCEPT ![r] = "done"],
           answer' = [answer EXCEPT ![r] = what],
           UNCHANGED <<rows, receipt>>, TypeOK
    PROVE  Promise!Fail(r)
  <1>1. Outcome(r)' = "dropped" /\ Told(r)' = "failed" /\ Told(r) = "none"
    BY DEF Outcome, Told, TypeOK
  <1>2. \A q \in Requests : q # r => Outcome(q)' = Outcome(q) /\ Told(q)' = Told(q)
    BY DEF Outcome, Told, TypeOK
  <1> QED
    BY <1>1, <1>2 DEF Promise!Fail

-----------------------------------------------------------------------------
(* The process and the native engine.                                      *)

(* A crash gives up the calls that had not reached the native engine.      *)
LEMMA CrashRefines == IInv /\ Crash => Promise!Next
  <1> SUFFICES ASSUME IInv, Crash PROVE Promise!Next
    OBVIOUS
  <1> DEFINE lost == {r \in Requests : call[r] \in {"waiting", "running"} /\ receipt[r] = "none"}
  <1>1. /\ call' = [r \in Requests |-> IF call[r] = "new" THEN "new" ELSE "done"]
        /\ UNCHANGED <<rows, receipt, answer>>
    BY DEF Crash, native
  <1>2. ASSUME NEW r \in lost PROVE Outcome(r) = "open" /\ Outcome(r)' = "dropped"
    <2>1. answer[r] = "none"
      BY DEF IInv, LockInv
    <2> QED
      BY <1>1, <2>1 DEF Outcome
  <1>3. ASSUME NEW r \in Requests, r \notin lost PROVE Outcome(r)' = Outcome(r)
    <2>1. CASE call[r] = "new"
      BY <1>1, <2>1 DEF Outcome
    <2>2. CASE call[r] = "done"
      BY <1>1, <2>2 DEF Outcome
    <2>3. CASE call[r] # "new" /\ call[r] # "done" /\ receipt[r] # "none"
      BY <1>1, <2>3 DEF Outcome
    <2> QED
      BY <1>3, <2>1, <2>2, <2>3 DEF IInv, TypeOK
  <1>4. \A r \in Requests : Told(r)' = Told(r)
    BY <1>1 DEF Told
  <1>5. Promise!Drop(lost)
    BY <1>1, <1>2, <1>3, <1>4 DEF Promise!Drop
  <1> QED
    BY <1>5 DEF Promise!Next

LEMMA NativeCommitRefines == IInv /\ NativeCommit => [Promise!Next]_(Promise!vars)
  <1> SUFFICES ASSUME IInv, NativeCommit PROVE [Promise!Next]_(Promise!vars)
    OBVIOUS
  <1>1. PICK q \in Savers : receipt[q] = "sent" /\ receipt' = [receipt EXCEPT ![q] = "committed"]
    BY DEF NativeCommit
  <1>2. /\ rows' = [k \in Keys |-> IF flight[k] = None THEN rows[k] ELSE flight[k]]
        /\ UNCHANGED <<call, answer>>
    BY DEF NativeCommit, clients
  <1>3. \A r \in Requests : Told(r)' = Told(r)
    BY <1>2 DEF Told
  <1>4. \A r \in Requests : r # q => Outcome(r)' = Outcome(r)
    <2>1. \A r \in Requests : r # q => receipt'[r] = receipt[r]
      BY <1>1 DEF IInv, TypeOK, Savers
    <2> QED
      BY <1>2, <2>1 DEF Outcome
  <1>5. DataKeys \subseteq Keys
    BY DEF DataKeys
  <1>6. CASE q = Closing
    <2>1. flight = Difference(Seeded(rows), rows)
      BY <1>1, <1>6 DEF IInv, FlightInv
    <2>2. \A k \in DataKeys : Seeded(rows)[k] = rows[k]
      BY SeededFacts DEF IInv, TypeOK
    <2>3. \A k \in DataKeys : rows'[k] = rows[k]
      BY <1>2, <1>5, <2>1, <2>2 DEF Difference
    <2>4. \A r \in Requests : Outcome(r)' = Outcome(r)
      BY <1>4, <1>6, CommitAssumption
    <2> QED
      BY <1>3, <2>3, <2>4 DEF Promise!vars
  <1>7. CASE q \in Requests
    <2>1. PICK r \in Requests : q = r
      BY <1>7
    <2>2. call[r] # "new" /\ answer[r] \notin {"failed", "too large"}
      BY <1>1, <2>1 DEF IInv, ReceiptInv, LockInv
    <2>3. Outcome(r) = "open"
      BY <1>1, <2>1, <2>2 DEF Outcome
    <2>4. Outcome(r)' = "applied"
      <3>1. call'[r] # "new" /\ receipt'[r] = "committed"
        BY <1>1, <1>2, <2>1, <2>2 DEF IInv, TypeOK
      <3> QED
        BY <3>1 DEF Outcome
    <2>5. \A k \in DataKeys : rows'[k] = IF k \in Writes[r] THEN r ELSE rows[k]
      <3>1. \A k \in DataKeys : flight[k] = IF k \in Writes[r] THEN r ELSE None
        BY <1>1, <2>1 DEF IInv, FlightInv
      <3> QED
        BY <1>2, <1>5, <3>1, CommitAssumption DEF Savers
    <2>6. Promise!TakeEffect(r)
      BY <1>3, <1>4, <2>1, <2>3, <2>4, <2>5 DEF Promise!TakeEffect
    <2> QED
      BY <2>6 DEF Promise!Next
  <1> QED
    BY <1>6, <1>7 DEF Savers

LEMMA NativeRejectRefines == IInv /\ NativeReject => [Promise!Next]_(Promise!vars)
  <1> SUFFICES ASSUME IInv, NativeReject PROVE [Promise!Next]_(Promise!vars)
    OBVIOUS
  <1>1. PICK q \in Savers : receipt[q] = "sent" /\ receipt' = [receipt EXCEPT ![q] = "rejected"]
    BY DEF NativeReject
  <1>2. UNCHANGED <<rows, call, answer>>
    BY DEF NativeReject, clients
  <1>3. \A r \in Requests : Told(r)' = Told(r)
    BY <1>2 DEF Told
  <1>4. \A r \in Requests : r # q => Outcome(r)' = Outcome(r)
    <2>1. \A r \in Requests : r # q => receipt'[r] = receipt[r]
      BY <1>1 DEF IInv, TypeOK, Savers
    <2> QED
      BY <1>2, <2>1 DEF Outcome
  <1>5. CASE q = Closing
    <2>1. \A r \in Requests : Outcome(r)' = Outcome(r)
      BY <1>4, <1>5, CommitAssumption
    <2> QED
      BY <1>2, <1>3, <2>1 DEF Promise!vars
  <1>6. CASE q \in Requests
    <2>1. PICK r \in Requests : q = r
      BY <1>6
    <2>2. call[r] # "new" /\ answer[r] \notin {"failed", "too large"}
      BY <1>1, <2>1 DEF IInv, ReceiptInv, LockInv
    <2>3. Outcome(r) = "open"
      BY <1>1, <2>1, <2>2 DEF Outcome
    <2>4. Outcome(r)' = "dropped"
      <3>1. call'[r] # "new" /\ receipt'[r] = "rejected"
        BY <1>1, <1>2, <2>1, <2>2 DEF IInv, TypeOK
      <3> QED
        BY <3>1 DEF Outcome
    <2>5. Promise!Drop({r})
      BY <1>2, <1>3, <1>4, <2>1, <2>3, <2>4 DEF Promise!Drop
    <2> QED
      BY <2>5 DEF Promise!Next
  <1> QED
    BY <1>5, <1>6 DEF Savers

-----------------------------------------------------------------------------
(* The calls.                                                              *)

LEMMA CallerRefines ==
    ASSUME IInv, NEW r \in Requests, Cancel(r) \/ Call(r) \/ Refuse(r) \/ Begin(r) \/ Change(r)
    PROVE  [Promise!Next]_(Promise!vars)
  <1>1. UNCHANGED <<rows, receipt>>
    BY DEF Cancel, Call, Refuse, Begin, Change, native
  <1>2. CASE Cancel(r) \/ Change(r)
    <2>1. UNCHANGED <<call, answer>>
      BY <1>2 DEF Cancel, Change, clients
    <2> QED
      BY <1>1, <2>1, StutterRefines
  <1>3. call[r] \in {"new", "waiting"} => receipt[r] = "none" /\ answer[r] = "none"
    BY DEF IInv, ReceiptInv, LockInv
  <1>4. CASE Begin(r)
    <2>1. call[r] = "waiting" /\ call' = [call EXCEPT ![r] = "running"] /\ UNCHANGED answer
      BY <1>4 DEF Begin
    <2>2. \A q \in Requests : call'[q] = call[q] \/ (q = r /\ call[q] = "waiting" /\ call'[q] = "running")
      BY <2>1 DEF IInv, TypeOK
    <2>3. \A q \in Requests : Outcome(q)' = Outcome(q) /\ Told(q)' = Told(q)
      BY <1>1, <2>1, <2>2 DEF Outcome, Told
    <2> QED
      BY <1>1, <2>3 DEF Promise!vars
  <1>5. CASE (Call(r) \/ Refuse(r)) /\ Tell(r, "failed")
    <2>1. /\ call[r] \in {"new", "waiting"}
          /\ call' = [call EXCEPT ![r] = "done"]
          /\ answer' = [answer EXCEPT ![r] = "failed"]
      BY <1>5 DEF Call, Refuse, Tell
    <2>2. Outcome(r) \in {"new", "open"}
      BY <1>3, <2>1 DEF Outcome
    <2>3. Promise!Fail(r)
      BY <1>1, <1>3, <2>1, <2>2, FailRefines DEF IInv
    <2> QED
      BY <2>3 DEF Promise!Next
  <1>6. CASE Call(r) /\ ~Tell(r, "failed")
    <2>1. call[r] = "new" /\ call' = [call EXCEPT ![r] = "waiting"] /\ UNCHANGED answer
      BY <1>6 DEF Call
    <2>2. Outcome(r) = "new" /\ Outcome(r)' = "open"
      <3>1. call'[r] = "waiting"
        BY <2>1 DEF IInv, TypeOK
      <3> QED
        BY <1>1, <1>3, <2>1, <3>1 DEF Outcome
    <2>3. \A q \in Requests : q # r => Outcome(q)' = Outcome(q)
      BY <1>1, <2>1 DEF Outcome, IInv, TypeOK
    <2>4. \A q \in Requests : Told(q)' = Told(q)
      BY <2>1 DEF Told
    <2>5. Promise!Invoke(r)
      BY <1>1, <2>2, <2>3, <2>4 DEF Promise!Invoke
    <2> QED
      BY <2>5 DEF Promise!Next
  <1> QED
    BY <1>2, <1>4, <1>5, <1>6 DEF Refuse

LEMMA RollBackRefines ==
    ASSUME IInv, NEW r \in Requests, NEW what \in {"failed", "too large"},
           lock = r, receipt[r] \notin {"sent", "committed"}, RollBack(r, what)
    PROVE  Promise!Next
  <1>1. Outcome(r) \in {"open", "dropped"} /\ answer[r] = "none"
    BY HolderIsOpen DEF IInv, TypeOK, Savers
  <1>2. /\ call' = [call EXCEPT ![r] = "done"]
        /\ answer' = [answer EXCEPT ![r] = what]
        /\ UNCHANGED <<rows, receipt>>
    BY DEF RollBack, Tell, native
  <1>3. Promise!Fail(r)
    BY <1>1, <1>2, FailRefines DEF IInv
  <1> QED
    BY <1>3 DEF Promise!Next

LEMMA BodyRefines ==
    ASSUME IInv, NEW r \in Requests, BodyFails(r) \/ PreSave(r)
    PROVE  [Promise!Next]_(Promise!vars)
  <1>1. lock = r /\ receipt[r] = "none"
    <2>1. lock = r /\ step = "body"
      BY DEF BodyFails, PreSave
    <2> QED
      BY <2>1 DEF IInv, LockInv, ReceiptInv, Asking
  <1>2. CASE RollBack(r, "failed")
    BY <1>1, <1>2, RollBackRefines
  <1>3. CASE PreSave(r) /\ ~RollBack(r, "failed")
    <2>1. UNCHANGED <<rows, receipt, call, answer>>
      BY <1>3 DEF PreSave, native, clients
    <2> QED
      BY <2>1, StutterRefines
  <1> QED
    BY <1>2, <1>3 DEF BodyFails, PreSave

-----------------------------------------------------------------------------
(* The save.                                                               *)

LEMMA CloseRefines ==
    ASSUME Close \/ CloseStore
    PROVE  UNCHANGED Promise!vars
  BY StutterRefines DEF Close, CloseStore, native, clients

(* Whatever is written back to the maps is durable: a save with no         *)
(* difference was of a call that writes nothing.                           *)
LEMMA SavedRefines ==
    ASSUME IInv, Saved, lock \in Savers, memory = rows, receipt[lock] \in {"none", "committed"},
           receipt[lock] = "none" => todo = {}
    PROVE  [Promise!Next]_(Promise!vars)
  <1>1. CASE lock \in Requests
    <2>1. PICK r \in Requests : lock = r
      BY <1>1
    <2>2. /\ call' = [call EXCEPT ![r] = "done"]
          /\ answer' = [answer EXCEPT ![r] = "ok"]
          /\ UNCHANGED <<rows, receipt>>
      BY <2>1, CommitAssumption DEF Saved, Tell, native
    <2>3. call[r] = "running" /\ answer[r] = "none"
      BY <2>1, HolderIsOpen
    <2>4. Outcome(r) = "applied" \/ (Outcome(r) = "open" /\ Writes[r] = {})
      <3>1. CASE receipt[r] = "committed"
        BY <2>1, <3>1, HolderIsOpen
      <3>2. CASE receipt[r] = "none"
        <4>1. \A k \in Keys : rows[k] # r
          BY <3>2 DEF IInv, ReceiptInv
        <4>2. \A k \in Keys \cap Writes[r] : memory[k] = r
          BY <2>1, <3>2 DEF IInv, MemoryInv
        <4>3. Writes[r] \subseteq Keys
          BY CommitAssumption DEF DataKeys
        <4> QED
          BY <2>1, <3>2, <4>1, <4>2, <4>3, HolderIsOpen
      <3> QED
        BY <2>1, <3>1, <3>2
    <2>5. Outcome(r)' = Outcome(r)
      <3>1. call'[r] = "done" /\ answer'[r] = "ok"
        BY <2>2 DEF IInv, TypeOK
      <3> QED
        BY <2>2, <2>3, <3>1 DEF Outcome
    <2>6. \A q \in Requests : q # r => Outcome(q)' = Outcome(q) /\ Told(q)' = Told(q)
      BY <2>2 DEF Outcome, Told, IInv, TypeOK
    <2>7. Told(r) = "none" /\ Told(r)' = "ok"
      BY <2>2, <2>3 DEF Told, IInv, TypeOK
    <2>8. Promise!Succeed(r)
      BY <2>2, <2>4, <2>5, <2>6, <2>7 DEF Promise!Succeed
    <2> QED
      BY <2>8 DEF Promise!Next
  <1>2. CASE lock = Closing
    BY <1>2, CloseRefines, CommitAssumption DEF Saved
  <1> QED
    BY <1>1, <1>2 DEF Savers

LEMMA RefusedRefines ==
    ASSUME IInv, NEW what \in {"failed", "too large"}, Refused(what), lock \in Savers,
           lock \in Requests => receipt[lock] \notin {"sent", "committed"}
    PROVE  [Promise!Next]_(Promise!vars)
  <1>1. CASE lock \in Requests
    BY <1>1, RollBackRefines, CommitAssumption DEF Refused
  <1>2. CASE lock = Closing
    BY <1>2, CloseRefines, CommitAssumption DEF Refused
  <1> QED
    BY <1>1, <1>2 DEF Savers

LEMMA UnknownRefines ==
    ASSUME IInv, OutcomeUnknown, lock \in Savers
    PROVE  [Promise!Next]_(Promise!vars)
  <1>1. CASE lock \in Requests
    <2>1. PICK r \in Requests : lock = r
      BY <1>1
    <2>2. /\ call' = [call EXCEPT ![r] = "done"]
          /\ answer' = [answer EXCEPT ![r] = "unknown"]
          /\ UNCHANGED <<rows, receipt>>
      BY <2>1, CommitAssumption DEF OutcomeUnknown, Tell, native
    <2>3. call[r] = "running" /\ answer[r] = "none"
      BY <2>1, HolderIsOpen
    <2>4. Outcome(r)' = Outcome(r) /\ Outcome(r) # "new"
      <3>1. call'[r] = "done" /\ answer'[r] = "unknown"
        BY <2>2 DEF IInv, TypeOK
      <3> QED
        BY <2>2, <2>3, <3>1 DEF Outcome
    <2>5. \A q \in Requests : q # r => Outcome(q)' = Outcome(q) /\ Told(q)' = Told(q)
      BY <2>2 DEF Outcome, Told, IInv, TypeOK
    <2>6. Told(r) = "none" /\ Told(r)' = "unknown"
      BY <2>2, <2>3 DEF Told, IInv, TypeOK
    <2>7. Promise!LeaveOpen(r)
      BY <2>2, <2>4, <2>5, <2>6 DEF Promise!LeaveOpen
    <2> QED
      BY <2>7 DEF Promise!Next
  <1>2. CASE lock = Closing
    BY <1>2, CloseRefines, CommitAssumption DEF OutcomeUnknown
  <1> QED
    BY <1>1, <1>2 DEF Savers

LEMMA SendRefines == IInv /\ Send => UNCHANGED Promise!vars
  <1> SUFFICES ASSUME IInv, Send PROVE UNCHANGED Promise!vars
    OBVIOUS
  <1>1. /\ step = "save" /\ receipt' = [receipt EXCEPT ![lock] = "sent"]
        /\ UNCHANGED <<rows, call, answer>>
    BY DEF Send, clients
  <1>2. \A r \in Requests : receipt'[r] = receipt[r] \/
            (receipt[r] = "none" /\ receipt'[r] = "sent" /\ call[r] = "running" /\ answer[r] = "none")
    BY <1>1, BeforeAsking, HolderIsOpen DEF IInv, TypeOK, Savers
  <1> QED
    BY <1>1, <1>2, StutterRefines

LEMMA SaveRefines == IInv /\ Save => [Promise!Next]_(Promise!vars)
  <1> SUFFICES ASSUME IInv, Save PROVE [Promise!Next]_(Promise!vars)
    OBVIOUS
  <1>1. CASE SaveSpoiled
    BY <1>1, BeforeAsking, UnknownRefines DEF SaveSpoiled
  <1>2. CASE SaveNothing
    <2>1. /\ lock \in Savers /\ lastState = rows /\ todo = {}
          /\ lock \in Requests => receipt[lock] = "none"
      BY <1>2, BeforeAsking DEF SaveNothing
    <2>2. memory = lastState
      <3>1. \A k \in Keys : memory[k] = lastState[k]
        BY <1>2 DEF SaveNothing, Delta
      <3>2. memory \in [Keys -> Content] /\ lastState \in [Keys -> Content]
        BY DEF IInv, TypeOK
      <3> QED
        BY <3>1, <3>2
    <2>3. CASE lock \in Requests
      BY <1>2, <2>1, <2>2, <2>3, SavedRefines DEF SaveNothing
    <2>4. CASE lock = Closing
      BY <1>2, <2>4, CloseRefines, CommitAssumption DEF SaveNothing, Saved
    <2> QED
      BY <2>1, <2>3, <2>4 DEF Savers
  <1>3. CASE SaveTooLarge
    BY <1>3, BeforeAsking, RefusedRefines DEF SaveTooLarge
  <1>4. CASE Send
    BY <1>4, SendRefines
  <1>5. CASE SendFails
    BY <1>5, BeforeAsking, RefusedRefines DEF SendFails
  <1>6. CASE HeardCommitted
    <2>1. Landed /\ lock \in Savers /\ receipt[lock] = "committed"
      BY <1>6 DEF HeardCommitted, Landed, Asking, IInv, LockInv, TypeOK
    <2>2. memory = rows
      BY <2>1 DEF IInv, MemoryInv
    <2> QED
      BY <1>6, <2>1, <2>2, SavedRefines DEF HeardCommitted
  <1>7. CASE HeardRejected
    <2>1. lock \in Savers /\ receipt[lock] = "rejected"
      BY <1>7 DEF HeardRejected, Asking, IInv, LockInv, TypeOK
    <2> QED
      BY <1>7, <2>1, RefusedRefines DEF HeardRejected
  <1>8. CASE AskAgain
    BY <1>8, StutterRefines DEF AskAgain, native, clients
  <1>9. CASE GiveUp
    <2>1. lock \in Savers
      BY <1>9 DEF GiveUp, IInv, LockInv, TypeOK
    <2> QED
      BY <1>9, <2>1, UnknownRefines DEF GiveUp
  <1> QED
    BY <1>1, <1>2, <1>3, <1>4, <1>5, <1>6, <1>7, <1>8, <1>9 DEF Save

LEMMA NextRefines == IInv /\ [Next]_vars => [Promise!Next]_(Promise!vars)
  <1> SUFFICES ASSUME IInv, [Next]_vars PROVE [Promise!Next]_(Promise!vars)
    OBVIOUS
  <1>1. CASE Open
    <2>1. UNCHANGED <<rows, call, answer>> /\ \A r \in Requests : receipt'[r] = receipt[r]
      BY <1>1, CommitAssumption DEF Open, clients, IInv, TypeOK, Savers
    <2> QED
      BY <2>1, StutterRefines
  <1>2. CASE Crash
    BY <1>2, CrashRefines
  <1>3. CASE NativeCommit
    BY <1>3, NativeCommitRefines
  <1>4. CASE NativeReject
    BY <1>4, NativeRejectRefines
  <1>5. ASSUME NEW r \in Requests, Cancel(r) \/ Call(r) \/ Refuse(r) \/ Begin(r) \/ Change(r)
        PROVE  [Promise!Next]_(Promise!vars)
    BY <1>5, CallerRefines
  <1>6. ASSUME NEW r \in Requests, BodyFails(r) \/ PreSave(r)
        PROVE  [Promise!Next]_(Promise!vars)
    BY <1>6, BodyRefines
  <1>7. CASE Close
    BY <1>7, CloseRefines
  <1>8. CASE Save
    BY <1>8, SaveRefines
  <1>9. CASE UNCHANGED vars
    BY <1>9, StutterRefines DEF vars, native, clients
  <1> QED
    BY <1>1, <1>2, <1>3, <1>4, <1>5, <1>6, <1>7, <1>8, <1>9 DEF Next

(* The commit path keeps the promise of AtomicStore for every set of       *)
(* calls, records and seeds: a mutating call is written whole or not at    *)
(* all, once; "ok" is durable, "failed" never will be, and only "unknown"  *)
(* leaves it open.                                                         *)
THEOREM CommitKeepsPromise == Spec => KeepsPromise
  <1>1. Init => Promise!Init
    BY InitRefines
  <1>2. IInv /\ [Next]_vars => [Promise!Next]_(Promise!vars)
    BY NextRefines
  <1> QED
    BY <1>1, <1>2, InvariantHolds, PTL DEF Spec, KeepsPromise, Promise!Spec
=============================================================================
