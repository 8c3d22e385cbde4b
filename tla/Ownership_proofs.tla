-------------------------- MODULE Ownership_proofs --------------------------
(***************************************************************************)
(* Theorems about Ownership, for any processes, paths and archives.        *)
(***************************************************************************)
EXTENDS Ownership, TLAPS

(* A migration between loading its source and closing it.                  *)
Reading(q) ==
    at[q] \notin {"idle", "asking", "owner", "checked"} /\ job[q].source # None

(* A path has one exclusive owner or sharers, never both, and a process    *)
(* that is past the lock holds it, in the way its mode asks for; so does a *)
(* migration with its source open.                                         *)
LockInv ==
    /\ \A p \in Paths : sole[p] # None => shared[p] = {}
    /\ \A q \in Procs : at[q] # "idle" => job[q].path \in Paths /\ job[q].driver \in Drivers
    /\ \A q \in Procs : at[q] \notin {"idle", "asking"} =>
           /\ job[q].mode \in Exclusive => sole[job[q].path] = q
           /\ job[q].mode \notin Exclusive => q \in shared[job[q].path]
    /\ \A q \in Procs : Reading(q) =>
           /\ job[q].source \in Paths
           /\ sole[job[q].source] = q

(* What a process may be doing at each step.                               *)
StepInv ==
    \A q \in Procs :
        /\ at[q] # "idle" /\ job[q].mode \in {"restore", "migrate"} => job[q].driver = "rhiza"
        /\ at[q] = "checked" => job[q].mode \in {"restore", "migrate"}
        /\ at[q] = "loaded" => job[q].mode = "restore"
        /\ at[q] \in {"seeding", "seeded", "verified", "closed"} => job[q].mode = "migrate"
        /\ at[q] = "open" => job[q].mode # "migrate"
        /\ at[q] = "versioned" => job[q].driver = "lattice"
        /\ at[q] \in {"directory", "inspected", "marking", "marked"} => job[q].driver = "rhiza"
        /\ job[q].source # None =>
               /\ job[q].mode = "migrate" /\ job[q].source \in Paths
               /\ job[q].source # job[q].path
        /\ at[q] \notin {"idle", "closed"} /\ job[q].mode = "migrate" => job[q].source # None

Past == Steps \ {"idle", "asking", "owner"}

(* Which markers stand beside a path that a process is past checking.      *)
MarkerInv ==
    \A q \in Procs : at[q] \in Past =>
        /\ job[q].mode \notin {"restore", "migrate"} => job[q].path \notin restoring \cup migrating
        /\ job[q].mode = "restore" =>
               /\ job[q].path \notin migrating
               /\ at[q] = "open" => job[q].path \notin restoring
               /\ at[q] \notin {"checked", "open"} => job[q].path \in restoring
        /\ job[q].mode = "migrate" => job[q].path \in migrating

(* What a process that has a handle finds behind it.                       *)
DataInv ==
    /\ \A p \in Paths : data[p].lattice # Partial
    /\ HalfWorkIsMarked
    /\ \A q \in Procs :
        /\ at[q] = "native" => data[job[q].path][job[q].driver] # Missing
        /\ at[q] = "open" => data[job[q].path][job[q].driver] \notin {Missing, Partial}
        /\ at[q] = "loaded" => data[job[q].path].rhiza \in Nat
        /\ at[q] \in {"verified", "closed"} => data[job[q].path].rhiza = job[q].loaded
        /\ Reading(q) => State(data[job[q].source].lattice) = job[q].loaded

IInv == TypeOK /\ LockInv /\ StepInv /\ MarkerInv /\ DataInv

-----------------------------------------------------------------------------
(* Each part of the invariant is kept by each action.                      *)

(* What a process loaded may be replaced by another number.                *)
LEMMA LoadedTyped ==
    ASSUME TypeOK, NEW q, NEW n \in Nat
    PROVE  [job EXCEPT ![q].loaded = n] \in [Procs -> Jobs]
<1>1. \A j \in Jobs : [j EXCEPT !.loaded = n] \in Jobs
  BY DEF Jobs
<1>2. job \in [Procs -> Jobs]
  BY DEF TypeOK
<1>3. q \in Procs => [job[q] EXCEPT !.loaded = n] \in Jobs
  BY <1>1, <1>2
<1> QED
  BY <1>2, <1>3

(* Data of one engine at one path may be replaced by other data.           *)
LEMMA LatticeDataTyped ==
    ASSUME TypeOK, NEW p, NEW v \in Data
    PROVE  [data EXCEPT ![p].lattice = v] \in [Paths -> [rhiza : Data, lattice : Data]]
<1> DEFINE D == [rhiza : Data, lattice : Data]
<1>1. \A d \in D : [d EXCEPT !.lattice = v] \in D
  OBVIOUS
<1>2. data \in [Paths -> D]
  BY DEF TypeOK
<1>3. p \in Paths => [data[p] EXCEPT !.lattice = v] \in D
  BY <1>1, <1>2
<1> QED
  BY <1>2, <1>3

LEMMA RhizaDataTyped ==
    ASSUME TypeOK, NEW p, NEW v \in Data
    PROVE  [data EXCEPT ![p].rhiza = v] \in [Paths -> [rhiza : Data, lattice : Data]]
<1> DEFINE D == [rhiza : Data, lattice : Data]
<1>1. \A d \in D : [d EXCEPT !.rhiza = v] \in D
  OBVIOUS
<1>2. data \in [Paths -> D]
  BY DEF TypeOK
<1>3. p \in Paths => [data[p] EXCEPT !.rhiza = v] \in D
  BY <1>1, <1>2
<1> QED
  BY <1>2, <1>3

(* Types are kept by every step.                                           *)
LEMMA TypeKept ==
    ASSUME IInv, [Next]_vars
    PROVE  TypeOK'
<1> USE OwnershipAssumption DEF IInv
<1>1. ASSUME NEW q \in Procs, Ask(q) PROVE TypeOK'
  <2>1. PICK p \in Paths, mode \in Modes, d \in Drivers :
            job' = [job EXCEPT ![q] = [NoJob EXCEPT !.path = p, !.mode = mode, !.driver = d]]
    BY <1>1 DEF Ask, Resolved
  <2>2. [NoJob EXCEPT !.path = p, !.mode = mode, !.driver = d] \in Jobs
    BY DEF NoJob, Jobs, Modes
  <2>3. job' \in [Procs -> Jobs]
    BY <2>1, <2>2 DEF TypeOK
  <2> QED
    BY <1>1, <2>3 DEF Ask, Advance, TypeOK, Steps, files, markers, locks
<1>2. ASSUME NEW q \in Procs, AskMigration(q) PROVE TypeOK'
  <2>1. PICK p \in Paths, s \in Paths :
            job' = [job EXCEPT ![q] = [NoJob EXCEPT !.path = p, !.mode = "migrate",
                                                    !.driver = "rhiza", !.source = s]]
    BY <1>2 DEF AskMigration
  <2>2. [NoJob EXCEPT !.path = p, !.mode = "migrate", !.driver = "rhiza", !.source = s] \in Jobs
    BY DEF NoJob, Jobs, Modes, Drivers
  <2>3. job' \in [Procs -> Jobs]
    BY <2>1, <2>2 DEF TypeOK
  <2> QED
    BY <1>2, <2>3 DEF AskMigration, Advance, TypeOK, Steps, files, markers,
      locks
<1>3. ASSUME NEW q \in Procs, Acquire(q) PROVE TypeOK'
  BY <1>3 DEF Acquire, vars, files, markers, Advance, TypeOK, Steps
<1>4. ASSUME NEW q \in Procs, Stop(q) PROVE TypeOK'
  BY <1>4 DEF Stop, files, markers, TypeOK, Jobs, Steps, Modes, NoJob, LetGo
<1>5. ASSUME NEW q \in Procs, Check(q) PROVE TypeOK'
  BY <1>5 DEF Check, files, markers, locks, Advance, TypeOK, Steps
<1>6. ASSUME NEW q \in Procs, MarkRestore(q) PROVE TypeOK'
  BY <1>6 DEF MarkRestore, files, locks, Advance, TypeOK, Steps, LockInv
<1>7. ASSUME NEW q \in Procs, MakeDirectory(q) PROVE TypeOK'
  BY <1>7 DEF MakeDirectory, markers, locks, Advance, TypeOK, Steps, LockInv
<1>8. ASSUME NEW q \in Procs, InspectDirectory(q) PROVE TypeOK'
  BY <1>8 DEF InspectDirectory, files, markers, locks, Advance, TypeOK, Steps
<1>9. ASSUME NEW q \in Procs, CreateMarker(q) PROVE TypeOK'
  BY <1>9 DEF CreateMarker, markers, locks, Advance, TypeOK, Steps
<1>10. ASSUME NEW q \in Procs, WriteMarker(q) PROVE TypeOK'
  BY <1>10 DEF WriteMarker, markers, locks, Advance, TypeOK, Steps
<1>11. ASSUME NEW q \in Procs, RecogniseMarker(q) PROVE TypeOK'
  BY <1>11 DEF RecogniseMarker, files, markers, locks, Advance, TypeOK, Steps
<1>12. ASSUME NEW q \in Procs, OpenRhiza(q) PROVE TypeOK'
  <2>1. PICK v \in Data : data' = [data EXCEPT ![job[q].path].rhiza = v]
    BY <1>12 DEF OpenRhiza, Recovered, TypeOK, Data, LockInv
  <2>2. data' \in [Paths -> [rhiza : Data, lattice : Data]]
    BY <2>1, RhizaDataTyped
  <2> QED
    BY <1>12, <2>2 DEF OpenRhiza, Advance, TypeOK, Steps, markers, locks
<1>13. ASSUME NEW q \in Procs, RestoreBreaksOff(q) PROVE TypeOK'
  <2>1. data' = [data EXCEPT ![job[q].path].rhiza = Partial]
    BY <1>13 DEF RestoreBreaksOff
  <2>2. data' \in [Paths -> [rhiza : Data, lattice : Data]]
    BY <2>1, RhizaDataTyped DEF Data
  <2> QED
    BY <1>13, <2>2 DEF RestoreBreaksOff, LetGo, NoJob, Jobs, Modes, TypeOK,
      Steps, markers
<1>14. ASSUME NEW q \in Procs, InspectVersion(q) PROVE TypeOK'
  BY <1>14 DEF InspectVersion, files, markers, locks, Advance, TypeOK, Steps
<1>15. ASSUME NEW q \in Procs, OpenLattice(q) PROVE TypeOK'
  BY <1>15 DEF OpenLattice, markers, locks, Advance, TypeOK, Steps, Data,
    LockInv
<1>16. ASSUME NEW q \in Procs, Load(q) PROVE TypeOK'
  BY <1>16 DEF Load, files, markers, locks, Advance, TypeOK, Jobs, Steps,
    State, LockInv, Reading
<1>17. ASSUME NEW q \in Procs, CompleteRestore(q) PROVE TypeOK'
  BY <1>17 DEF CompleteRestore, files, locks, Advance, TypeOK, Steps
<1>18. ASSUME NEW q \in Procs, Save(q) PROVE TypeOK'
  <2>1. job[q].driver \in Drivers /\ job[q].loaded + 1 \in Nat
    BY <1>18 DEF Save, LockInv, TypeOK, Jobs
  <2>2. job' = [job EXCEPT ![q].loaded = job[q].loaded + 1]
    BY <1>18 DEF Save
  <2>3. job' \in [Procs -> Jobs]
    BY <2>1, <2>2, LoadedTyped
  <2>4. job[q].loaded + 1 \in Data
    BY <2>1 DEF Data
  <2>5. data' = [data EXCEPT ![job[q].path][job[q].driver] = job[q].loaded + 1]
    BY <1>18 DEF Save
  <2>6. CASE job[q].driver = "rhiza"
    <3>1. data' = [data EXCEPT ![job[q].path].rhiza = job[q].loaded + 1]
      BY <2>5, <2>6
    <3>2. data' \in [Paths -> [rhiza : Data, lattice : Data]]
      BY <3>1, <2>4, RhizaDataTyped
    <3> QED
      BY <3>2, <2>3, <1>18 DEF Save, TypeOK, markers, locks
  <2>7. CASE job[q].driver = "lattice"
    <3>1. data' = [data EXCEPT ![job[q].path].lattice = job[q].loaded + 1]
      BY <2>5, <2>7
    <3>2. data' \in [Paths -> [rhiza : Data, lattice : Data]]
      BY <3>1, <2>4, LatticeDataTyped
    <3> QED
      BY <3>2, <2>3, <1>18 DEF Save, TypeOK, markers, locks
  <2> QED
    BY <2>1, <2>6, <2>7 DEF Drivers
<1>19. ASSUME NEW q \in Procs, MarkMigration(q) PROVE TypeOK'
  BY <1>19 DEF MarkMigration, files, locks, Advance, TypeOK, Steps, LockInv
<1>20. ASSUME NEW q \in Procs, OpenSource(q) PROVE TypeOK'
  <2>1. State(data[job[q].source].lattice) \in Nat
    BY DEF State
  <2>2. job' = [job EXCEPT ![q].loaded = State(data[job[q].source].lattice)]
    BY <1>20 DEF OpenSource
  <2>3. job' \in [Procs -> Jobs]
    BY <2>1, <2>2, LoadedTyped
  <2>4. sole' \in [Paths -> Procs \cup {None}] /\ at' \in [Procs -> Steps]
    BY <1>20 DEF OpenSource, Advance, TypeOK, Steps
  <2> QED
    BY <1>20, <2>3, <2>4 DEF OpenSource, TypeOK, files, markers
<1>21. ASSUME NEW q \in Procs, SeedSome(q) PROVE TypeOK'
  BY <1>21 DEF SeedSome, markers, locks, Advance, TypeOK, Jobs, Steps, Data,
    LockInv
<1>22. ASSUME NEW q \in Procs, SeedLast(q) PROVE TypeOK'
  BY <1>22 DEF SeedLast, markers, locks, Advance, TypeOK, Jobs, Steps, Data,
    LockInv
<1>23. ASSUME NEW q \in Procs, Verify(q) PROVE TypeOK'
  BY <1>23 DEF Verify, files, markers, locks, Advance, TypeOK, Steps
<1>24. ASSUME NEW q \in Procs, CloseSource(q) PROVE TypeOK'
  <2>1. \A j \in Jobs : [j EXCEPT !.source = None] \in Jobs
    BY DEF Jobs
  <2>2. job[q] \in Jobs
    BY DEF TypeOK
  <2>3. job' \in [Procs -> Jobs]
    BY <1>24, <2>1, <2>2 DEF CloseSource, TypeOK
  <2> QED
    BY <1>24, <2>3 DEF CloseSource, Advance, TypeOK, Steps, files, markers
<1>25. ASSUME NEW q \in Procs, Publish(q) PROVE TypeOK'
  BY <1>25 DEF Publish, files, TypeOK, Jobs, Steps, Modes, NoJob, LetGo
<1>26. CASE UNCHANGED vars
  BY <1>26 DEF vars, files, markers, locks, TypeOK
<1> QED
  BY <1>1, <1>2, <1>3, <1>4, <1>5, <1>6, <1>7, <1>8, <1>9, <1>10, <1>11,
    <1>12, <1>13, <1>14, <1>15, <1>16, <1>17, <1>18, <1>19, <1>20, <1>21,
    <1>22, <1>23, <1>24, <1>25, <1>26 DEF Next, OpenStep, RhizaStep,
    MigrationStep

(* The locks: taken only when free, dropped by their holder.               *)
LEMMA LockKept ==
    ASSUME IInv, [Next]_vars
    PROVE  LockInv'
<1> USE DEF IInv
<1>1. ASSUME NEW q \in Procs, Ask(q) PROVE LockInv'
  BY <1>1, OwnershipAssumption DEF Ask, Resolved, locks, Advance, TypeOK,
    LockInv, Reading
<1>2. ASSUME NEW q \in Procs, AskMigration(q) PROVE LockInv'
  BY <1>2, OwnershipAssumption DEF AskMigration, locks, Advance, TypeOK,
    Drivers, LockInv, Reading
<1>3. ASSUME NEW q \in Procs, Acquire(q) PROVE LockInv'
  <2> DEFINE p == job[q].path
  <2>1. /\ p \in Paths /\ job' = job /\ at[q] = "asking" /\ at' = [at EXCEPT ![q] = "owner"]
        /\ sole[p] = None
    BY <1>3 DEF Acquire, Advance, LockInv, Unowned, Unclaimed
  <2>2. \A r \in Procs : Reading(r)' => Reading(r) /\ r # q
    BY <2>1 DEF Reading, TypeOK
  <2>3. CASE job[q].mode \in Exclusive
    <3>1. shared[p] = {} /\ shared' = shared /\ sole' = [sole EXCEPT ![p] = q]
      BY <1>3, <2>3 DEF Acquire, Unowned
    <3> QED
      BY <2>1, <2>2, <2>3, <3>1, OwnershipAssumption DEF LockInv, TypeOK
  <2>4. CASE job[q].mode \notin Exclusive
    <3>1. sole' = sole /\ shared' = [shared EXCEPT ![p] = @ \cup {q}]
      BY <1>3, <2>4 DEF Acquire
    <3> QED
      BY <2>1, <2>2, <2>4, <3>1, OwnershipAssumption DEF LockInv, TypeOK
  <2> QED
    BY <2>3, <2>4
<1>4. ASSUME NEW q \in Procs, Stop(q) PROVE LockInv'
  BY <1>4, OwnershipAssumption DEF Stop, TypeOK, LetGo, LockInv, Reading
<1>5. ASSUME NEW q \in Procs, Check(q) PROVE LockInv'
  BY <1>5, OwnershipAssumption DEF Check, locks, Advance, LockInv, StepInv,
    Reading
<1>6. ASSUME NEW q \in Procs, MarkRestore(q) PROVE LockInv'
  BY <1>6, OwnershipAssumption DEF MarkRestore, locks, Advance, LockInv,
    StepInv, Reading
<1>7. ASSUME NEW q \in Procs, MakeDirectory(q) PROVE LockInv'
  BY <1>7, OwnershipAssumption DEF MakeDirectory, locks, Advance, LockInv,
    Reading
<1>8. ASSUME NEW q \in Procs, InspectDirectory(q) PROVE LockInv'
  BY <1>8, OwnershipAssumption DEF InspectDirectory, locks, Advance, LockInv,
    Reading
<1>9. ASSUME NEW q \in Procs, CreateMarker(q) PROVE LockInv'
  BY <1>9, OwnershipAssumption DEF CreateMarker, locks, Advance, LockInv,
    Reading
<1>10. ASSUME NEW q \in Procs, WriteMarker(q) PROVE LockInv'
  BY <1>10, OwnershipAssumption DEF WriteMarker, locks, Advance, LockInv,
    Reading
<1>11. ASSUME NEW q \in Procs, RecogniseMarker(q) PROVE LockInv'
  BY <1>11, OwnershipAssumption DEF RecogniseMarker, locks, Advance, LockInv,
    Reading
<1>12. ASSUME NEW q \in Procs, OpenRhiza(q) PROVE LockInv'
  BY <1>12, OwnershipAssumption DEF OpenRhiza, locks, Advance, LockInv,
    Reading
<1>13. ASSUME NEW q \in Procs, RestoreBreaksOff(q) PROVE LockInv'
  BY <1>13, OwnershipAssumption DEF RestoreBreaksOff, TypeOK, LetGo, LockInv,
    Reading
<1>14. ASSUME NEW q \in Procs, InspectVersion(q) PROVE LockInv'
  BY <1>14, OwnershipAssumption DEF InspectVersion, locks, Advance, LockInv,
    Reading
<1>15. ASSUME NEW q \in Procs, OpenLattice(q) PROVE LockInv'
  BY <1>15, OwnershipAssumption DEF OpenLattice, locks, Advance, LockInv,
    Reading
<1>16. ASSUME NEW q \in Procs, Load(q) PROVE LockInv'
  BY <1>16, OwnershipAssumption DEF Load, locks, Advance, LockInv, Reading
<1>17. ASSUME NEW q \in Procs, CompleteRestore(q) PROVE LockInv'
  BY <1>17, OwnershipAssumption DEF CompleteRestore, locks, Advance, LockInv,
    Reading
<1>18. ASSUME NEW q \in Procs, Save(q) PROVE LockInv'
  BY <1>18, OwnershipAssumption DEF Save, locks, LockInv, Reading
<1>19. ASSUME NEW q \in Procs, MarkMigration(q) PROVE LockInv'
  BY <1>19, OwnershipAssumption DEF MarkMigration, locks, Advance, LockInv,
    Reading
<1>20. ASSUME NEW q \in Procs, OpenSource(q) PROVE LockInv'
  BY <1>20, OwnershipAssumption DEF OpenSource, Advance, TypeOK, LockInv,
    StepInv, Reading, Unowned
<1>21. ASSUME NEW q \in Procs, SeedSome(q) PROVE LockInv'
  BY <1>21, OwnershipAssumption DEF SeedSome, locks, Advance, LockInv, Reading
<1>22. ASSUME NEW q \in Procs, SeedLast(q) PROVE LockInv'
  BY <1>22, OwnershipAssumption DEF SeedLast, locks, Advance, LockInv, Reading
<1>23. ASSUME NEW q \in Procs, Verify(q) PROVE LockInv'
  BY <1>23, OwnershipAssumption DEF Verify, locks, Advance, LockInv, Reading
<1>24. ASSUME NEW q \in Procs, CloseSource(q) PROVE LockInv'
  BY <1>24, OwnershipAssumption DEF CloseSource, Advance, TypeOK, LockInv,
    StepInv, Reading
<1>25. ASSUME NEW q \in Procs, Publish(q) PROVE LockInv'
  BY <1>25, OwnershipAssumption DEF Publish, TypeOK, LetGo, LockInv, Reading
<1>26. CASE UNCHANGED vars
  BY <1>26 DEF vars, locks, LockInv, Reading
<1> QED
  BY <1>1, <1>2, <1>3, <1>4, <1>5, <1>6, <1>7, <1>8, <1>9, <1>10, <1>11,
    <1>12, <1>13, <1>14, <1>15, <1>16, <1>17, <1>18, <1>19, <1>20, <1>21,
    <1>22, <1>23, <1>24, <1>25, <1>26 DEF Next, OpenStep, RhizaStep,
    MigrationStep

(* Each step is taken in the modes it belongs to.                          *)
LEMMA StepKept ==
    ASSUME IInv, [Next]_vars
    PROVE  StepInv'
<1> USE DEF IInv
<1>1. ASSUME NEW q \in Procs, Ask(q) PROVE StepInv'
  BY <1>1, OwnershipAssumption DEF Ask, Resolved, Advance, TypeOK, NoJob,
    StepInv
<1>2. ASSUME NEW q \in Procs, AskMigration(q) PROVE StepInv'
  BY <1>2, OwnershipAssumption DEF AskMigration, Advance, TypeOK, StepInv
<1>3. ASSUME NEW q \in Procs, Acquire(q) PROVE StepInv'
  BY <1>3, OwnershipAssumption DEF Acquire, Advance, StepInv
<1>4. ASSUME NEW q \in Procs, Stop(q) PROVE StepInv'
  BY <1>4, OwnershipAssumption DEF Stop, TypeOK, NoJob, LetGo, StepInv
<1>5. ASSUME NEW q \in Procs, Check(q) PROVE StepInv'
  BY <1>5, OwnershipAssumption DEF Check, Advance, StepInv
<1>6. ASSUME NEW q \in Procs, MarkRestore(q) PROVE StepInv'
  BY <1>6, OwnershipAssumption DEF MarkRestore, Advance, StepInv
<1>7. ASSUME NEW q \in Procs, MakeDirectory(q) PROVE StepInv'
  BY <1>7, OwnershipAssumption DEF MakeDirectory, Advance, StepInv
<1>8. ASSUME NEW q \in Procs, InspectDirectory(q) PROVE StepInv'
  BY <1>8, OwnershipAssumption DEF InspectDirectory, Advance, StepInv
<1>9. ASSUME NEW q \in Procs, CreateMarker(q) PROVE StepInv'
  BY <1>9, OwnershipAssumption DEF CreateMarker, Advance, StepInv
<1>10. ASSUME NEW q \in Procs, WriteMarker(q) PROVE StepInv'
  BY <1>10, OwnershipAssumption DEF WriteMarker, Advance, StepInv
<1>11. ASSUME NEW q \in Procs, RecogniseMarker(q) PROVE StepInv'
  BY <1>11, OwnershipAssumption DEF RecogniseMarker, Advance, StepInv
<1>12. ASSUME NEW q \in Procs, OpenRhiza(q) PROVE StepInv'
  BY <1>12, OwnershipAssumption DEF OpenRhiza, Advance, StepInv
<1>13. ASSUME NEW q \in Procs, RestoreBreaksOff(q) PROVE StepInv'
  BY <1>13, OwnershipAssumption DEF RestoreBreaksOff, TypeOK, NoJob, LetGo,
    StepInv
<1>14. ASSUME NEW q \in Procs, InspectVersion(q) PROVE StepInv'
  BY <1>14, OwnershipAssumption DEF InspectVersion, Advance, StepInv
<1>15. ASSUME NEW q \in Procs, OpenLattice(q) PROVE StepInv'
  BY <1>15, OwnershipAssumption DEF OpenLattice, Advance, StepInv
<1>16. ASSUME NEW q \in Procs, Load(q) PROVE StepInv'
  BY <1>16, OwnershipAssumption DEF Load, Advance, StepInv
<1>17. ASSUME NEW q \in Procs, CompleteRestore(q) PROVE StepInv'
  BY <1>17, OwnershipAssumption DEF CompleteRestore, Advance, StepInv
<1>18. ASSUME NEW q \in Procs, Save(q) PROVE StepInv'
  BY <1>18, OwnershipAssumption DEF Save, StepInv
<1>19. ASSUME NEW q \in Procs, MarkMigration(q) PROVE StepInv'
  BY <1>19, OwnershipAssumption DEF MarkMigration, Advance, StepInv
<1>20. ASSUME NEW q \in Procs, OpenSource(q) PROVE StepInv'
  BY <1>20, OwnershipAssumption DEF OpenSource, Advance, StepInv
<1>21. ASSUME NEW q \in Procs, SeedSome(q) PROVE StepInv'
  BY <1>21, OwnershipAssumption DEF SeedSome, Advance, StepInv
<1>22. ASSUME NEW q \in Procs, SeedLast(q) PROVE StepInv'
  BY <1>22, OwnershipAssumption DEF SeedLast, Advance, StepInv
<1>23. ASSUME NEW q \in Procs, Verify(q) PROVE StepInv'
  BY <1>23, OwnershipAssumption DEF Verify, Advance, StepInv
<1>24. ASSUME NEW q \in Procs, CloseSource(q) PROVE StepInv'
  BY <1>24, OwnershipAssumption DEF CloseSource, Advance, TypeOK, StepInv
<1>25. ASSUME NEW q \in Procs, Publish(q) PROVE StepInv'
  BY <1>25, OwnershipAssumption DEF Publish, TypeOK, NoJob, LetGo, StepInv
<1>26. CASE UNCHANGED vars
  BY <1>26 DEF vars, StepInv
<1> QED
  BY <1>1, <1>2, <1>3, <1>4, <1>5, <1>6, <1>7, <1>8, <1>9, <1>10, <1>11,
    <1>12, <1>13, <1>14, <1>15, <1>16, <1>17, <1>18, <1>19, <1>20, <1>21,
    <1>22, <1>23, <1>24, <1>25, <1>26 DEF Next, OpenStep, RhizaStep,
    MigrationStep

(* Markers change by the exclusive owner of their path only.               *)
LEMMA MarkerKept ==
    ASSUME IInv, [Next]_vars
    PROVE  MarkerInv'
<1> USE DEF IInv
<1>1. ASSUME NEW q \in Procs, Ask(q) PROVE MarkerInv'
  BY <1>1, OwnershipAssumption DEF Ask, markers, Advance, MarkerInv, Past
<1>2. ASSUME NEW q \in Procs, AskMigration(q) PROVE MarkerInv'
  BY <1>2, OwnershipAssumption DEF AskMigration, markers, Advance, MarkerInv,
    Past
<1>3. ASSUME NEW q \in Procs, Acquire(q) PROVE MarkerInv'
  BY <1>3, OwnershipAssumption DEF Acquire, markers, Advance, MarkerInv, Past
<1>4. ASSUME NEW q \in Procs, Stop(q) PROVE MarkerInv'
  BY <1>4, OwnershipAssumption DEF Stop, markers, TypeOK, LetGo, MarkerInv,
    Past
<1>5. ASSUME NEW q \in Procs, Check(q) PROVE MarkerInv'
  BY <1>5, OwnershipAssumption DEF Check, markers, Advance, MarkerInv
<1>6. ASSUME NEW q \in Procs, MarkRestore(q) PROVE MarkerInv'
  <2>1. job[q].path \in Paths /\ sole[job[q].path] = q /\ shared[job[q].path] = {}
    BY <1>6, OwnershipAssumption DEF MarkRestore, LockInv, Exclusive
  <2>2. \A r \in Procs \ {q} : at[r] \in Past => job[r].path # job[q].path
    BY <2>1 DEF LockInv, Past
  <2>3. job' = job /\ migrating' = migrating /\ restoring' = restoring \cup {job[q].path}
        /\ at[q] = "checked" /\ at'[q] = "store" /\ \A r \in Procs \ {q} : at'[r] = at[r]
    BY <1>6 DEF MarkRestore, Advance, TypeOK
  <2> QED
    BY <1>6, <2>2, <2>3 DEF MarkRestore, MarkerInv, Past, Steps
<1>7. ASSUME NEW q \in Procs, MakeDirectory(q) PROVE MarkerInv'
  BY <1>7, OwnershipAssumption DEF MakeDirectory, markers, Advance, TypeOK,
    MarkerInv, Past
<1>8. ASSUME NEW q \in Procs, InspectDirectory(q) PROVE MarkerInv'
  BY <1>8, OwnershipAssumption DEF InspectDirectory, markers, Advance, TypeOK,
    MarkerInv, Past
<1>9. ASSUME NEW q \in Procs, CreateMarker(q) PROVE MarkerInv'
  BY <1>9, OwnershipAssumption DEF CreateMarker, markers, Advance, TypeOK,
    MarkerInv, Past
<1>10. ASSUME NEW q \in Procs, WriteMarker(q) PROVE MarkerInv'
  BY <1>10, OwnershipAssumption DEF WriteMarker, markers, Advance, TypeOK,
    MarkerInv, Past
<1>11. ASSUME NEW q \in Procs, RecogniseMarker(q) PROVE MarkerInv'
  BY <1>11, OwnershipAssumption DEF RecogniseMarker, markers, Advance, TypeOK,
    MarkerInv, Past
<1>12. ASSUME NEW q \in Procs, OpenRhiza(q) PROVE MarkerInv'
  BY <1>12, OwnershipAssumption DEF OpenRhiza, markers, Advance, TypeOK,
    MarkerInv, Past
<1>13. ASSUME NEW q \in Procs, RestoreBreaksOff(q) PROVE MarkerInv'
  BY <1>13, OwnershipAssumption DEF RestoreBreaksOff, markers, TypeOK, LetGo,
    MarkerInv, Past
<1>14. ASSUME NEW q \in Procs, InspectVersion(q) PROVE MarkerInv'
  BY <1>14, OwnershipAssumption DEF InspectVersion, markers, Advance, TypeOK,
    MarkerInv, Past
<1>15. ASSUME NEW q \in Procs, OpenLattice(q) PROVE MarkerInv'
  BY <1>15, OwnershipAssumption DEF OpenLattice, markers, Advance, TypeOK,
    MarkerInv, Past
<1>16. ASSUME NEW q \in Procs, Load(q) PROVE MarkerInv'
  BY <1>16, OwnershipAssumption DEF Load, markers, Advance, TypeOK, MarkerInv,
    Past
<1>17. ASSUME NEW q \in Procs, CompleteRestore(q) PROVE MarkerInv'
  BY <1>17, OwnershipAssumption DEF CompleteRestore, Advance, TypeOK, LockInv,
    Exclusive, MarkerInv, Past
<1>18. ASSUME NEW q \in Procs, Save(q) PROVE MarkerInv'
  BY <1>18, OwnershipAssumption DEF Save, markers, MarkerInv
<1>19. ASSUME NEW q \in Procs, MarkMigration(q) PROVE MarkerInv'
  <2>1. at[q] = "owner" /\ job[q].mode = "migrate" /\ job[q].path \in Paths
    BY <1>19 DEF MarkMigration, LockInv
  <2>2. \A r \in Procs \ {q} : at[r] \in Past => job[r].path # job[q].path
    BY <2>1, OwnershipAssumption DEF LockInv, Past, Exclusive, TypeOK
  <2>3. migrating' = migrating \cup {job[q].path} /\ UNCHANGED <<job, restoring>>
    BY <1>19 DEF MarkMigration
  <2>4. at' = [at EXCEPT ![q] = "checked"]
    BY <1>19 DEF MarkMigration, Advance
  <2>5. \A r \in Procs \ {q} : at'[r] = at[r]
    BY <2>4 DEF TypeOK
  <2> QED
    BY <2>1, <2>2, <2>3, <2>5 DEF MarkerInv
<1>20. ASSUME NEW q \in Procs, OpenSource(q) PROVE MarkerInv'
  BY <1>20, OwnershipAssumption DEF OpenSource, markers, Advance, TypeOK,
    MarkerInv, Past
<1>21. ASSUME NEW q \in Procs, SeedSome(q) PROVE MarkerInv'
  BY <1>21, OwnershipAssumption DEF SeedSome, markers, Advance, TypeOK,
    MarkerInv, Past
<1>22. ASSUME NEW q \in Procs, SeedLast(q) PROVE MarkerInv'
  BY <1>22, OwnershipAssumption DEF SeedLast, markers, Advance, TypeOK,
    MarkerInv, Past
<1>23. ASSUME NEW q \in Procs, Verify(q) PROVE MarkerInv'
  BY <1>23, OwnershipAssumption DEF Verify, markers, Advance, TypeOK,
    MarkerInv, Past
<1>24. ASSUME NEW q \in Procs, CloseSource(q) PROVE MarkerInv'
  BY <1>24, OwnershipAssumption DEF CloseSource, markers, Advance, TypeOK,
    MarkerInv, Past
<1>25. ASSUME NEW q \in Procs, Publish(q) PROVE MarkerInv'
  BY <1>25, OwnershipAssumption DEF Publish, TypeOK, LetGo, LockInv,
    Exclusive, MarkerInv, Past
<1>26. CASE UNCHANGED vars
  BY <1>26 DEF vars, markers, MarkerInv
<1> QED
  BY <1>1, <1>2, <1>3, <1>4, <1>5, <1>6, <1>7, <1>8, <1>9, <1>10, <1>11,
    <1>12, <1>13, <1>14, <1>15, <1>16, <1>17, <1>18, <1>19, <1>20, <1>21,
    <1>22, <1>23, <1>24, <1>25, <1>26 DEF Next, OpenStep, RhizaStep,
    MigrationStep

(* A copy under way is marked, and what a handle found stays behind it.    *)
LEMMA DataKept ==
    ASSUME IInv, [Next]_vars
    PROVE  DataInv'
<1> USE DEF IInv
<1>1. ASSUME NEW q \in Procs, Ask(q) PROVE DataInv'
  BY <1>1, OwnershipAssumption DEF Ask, files, markers, Advance, Reading,
    DataInv, HalfWorkIsMarked
<1>2. ASSUME NEW q \in Procs, AskMigration(q) PROVE DataInv'
  BY <1>2, OwnershipAssumption DEF AskMigration, files, markers, Advance,
    Reading, DataInv, HalfWorkIsMarked
<1>3. ASSUME NEW q \in Procs, Acquire(q) PROVE DataInv'
  BY <1>3, OwnershipAssumption DEF Acquire, files, markers, Advance, Reading,
    DataInv, HalfWorkIsMarked
<1>4. ASSUME NEW q \in Procs, Stop(q) PROVE DataInv'
  BY <1>4, OwnershipAssumption DEF Stop, files, markers, TypeOK, LetGo,
    Reading, DataInv, HalfWorkIsMarked
<1>5. ASSUME NEW q \in Procs, Check(q) PROVE DataInv'
  BY <1>5, OwnershipAssumption DEF Check, files, markers, Advance, StepInv,
    Reading, DataInv, HalfWorkIsMarked
<1>6. ASSUME NEW q \in Procs, MarkRestore(q) PROVE DataInv'
  BY <1>6, OwnershipAssumption DEF MarkRestore, files, Advance, StepInv,
    Reading, DataInv, HalfWorkIsMarked
<1>7. ASSUME NEW q \in Procs, MakeDirectory(q) PROVE DataInv'
  BY <1>7, OwnershipAssumption DEF MakeDirectory, markers, Advance, Reading,
    DataInv, HalfWorkIsMarked
<1>8. ASSUME NEW q \in Procs, InspectDirectory(q) PROVE DataInv'
  BY <1>8, OwnershipAssumption DEF InspectDirectory, files, markers, Advance,
    Reading, DataInv, HalfWorkIsMarked
<1>9. ASSUME NEW q \in Procs, CreateMarker(q) PROVE DataInv'
  BY <1>9, OwnershipAssumption DEF CreateMarker, markers, Advance, Reading,
    DataInv, HalfWorkIsMarked
<1>10. ASSUME NEW q \in Procs, WriteMarker(q) PROVE DataInv'
  BY <1>10, OwnershipAssumption DEF WriteMarker, markers, Advance, Reading,
    DataInv, HalfWorkIsMarked
<1>11. ASSUME NEW q \in Procs, RecogniseMarker(q) PROVE DataInv'
  BY <1>11, OwnershipAssumption DEF RecogniseMarker, files, markers, Advance,
    Reading, DataInv, HalfWorkIsMarked
<1>12. ASSUME NEW q \in Procs, OpenRhiza(q) PROVE DataInv'
  BY <1>12, OwnershipAssumption DEF OpenRhiza, Recovered, markers, Advance,
    TypeOK, Jobs, Drivers, LockInv, StepInv, Reading, DataInv,
    HalfWorkIsMarked
<1>13. ASSUME NEW q \in Procs, RestoreBreaksOff(q) PROVE DataInv'
  BY <1>13, OwnershipAssumption DEF RestoreBreaksOff, vars, markers, TypeOK,
    State, LetGo, StepInv, Reading, MarkerInv, Past, DataInv, HalfWorkIsMarked
<1>14. ASSUME NEW q \in Procs, InspectVersion(q) PROVE DataInv'
  BY <1>14, OwnershipAssumption DEF InspectVersion, files, markers, Advance,
    Reading, DataInv, HalfWorkIsMarked
<1>15. ASSUME NEW q \in Procs, OpenLattice(q) PROVE DataInv'
  <2> DEFINE p == job[q].path
  <2>1. /\ p \in Paths /\ job[q].driver = "lattice" /\ job' = job
        /\ at[q] = "versioned" /\ at' = [at EXCEPT ![q] = "native"]
    BY <1>15 DEF OpenLattice, Advance, LockInv, StepInv
  <2>2. /\ data'[p].rhiza = data[p].rhiza
        /\ data'[p].lattice = IF data[p].lattice = Missing THEN Bare ELSE data[p].lattice
        /\ \A r \in Paths \ {p} : data'[r] = data[r]
    BY <1>15, <2>1 DEF OpenLattice, TypeOK
  <2>3. \A r \in Paths :
            /\ data'[r].rhiza = data[r].rhiza
            /\ data'[r].lattice # Partial
            /\ State(data'[r].lattice) = State(data[r].lattice)
            /\ data[r].lattice # Missing => data'[r].lattice = data[r].lattice
    BY <2>1, <2>2, OwnershipAssumption DEF DataInv, State
  <2>4. HalfWorkIsMarked'
    BY <1>15, <2>3 DEF OpenLattice, DataInv, HalfWorkIsMarked, markers
  <2>5. \A r \in Procs : at'[r] # "idle" => job[r].path \in Paths /\ job[r].driver \in Drivers
    BY <2>1 DEF LockInv, TypeOK
  <2>6. \A r \in Procs : Reading(r)' => Reading(r) /\ job[r].source \in Paths
    BY <2>1 DEF Reading, StepInv, LockInv, TypeOK
  <2>7. ASSUME NEW r \in Procs
        PROVE  /\ at'[r] = "native" => data'[job[r].path][job[r].driver] # Missing
               /\ at'[r] = "open" => data'[job[r].path][job[r].driver] \notin {Missing, Partial}
    <3>1. CASE r = q
      BY <3>1, <2>1, <2>2, OwnershipAssumption DEF TypeOK
    <3>2. CASE r # q
      <4>1. at'[r] = at[r]
        BY <3>2, <2>1 DEF TypeOK
      <4>2. at[r] # "idle" => LET d == data[job[r].path][job[r].driver]
                              IN  d = Missing \/ data'[job[r].path][job[r].driver] = d
        BY <4>1, <2>3, <2>5 DEF Drivers
      <4> QED
        BY <4>1, <4>2 DEF DataInv
    <3> QED
      BY <3>1, <3>2
  <2>8. ASSUME NEW r \in Procs
        PROVE  /\ at'[r] = "loaded" => data'[job[r].path].rhiza \in Nat
               /\ at'[r] \in {"verified", "closed"} => data'[job[r].path].rhiza = job[r].loaded
               /\ Reading(r)' => State(data'[job[r].source].lattice) = job[r].loaded
    <3>1. at'[r] \in {"loaded", "verified", "closed"} => at'[r] = at[r]
      BY <2>1 DEF TypeOK
    <3> QED
      BY <3>1, <2>3, <2>5, <2>6 DEF DataInv, State
  <2>9. (\A r \in Paths : data[r].lattice # Partial)'
    BY <2>3
  <2> QED
    BY <2>1, <2>4, <2>7, <2>8, <2>9 DEF DataInv, State
<1>16. ASSUME NEW q \in Procs, Load(q) PROVE DataInv'
  <2> DEFINE found == data[job[q].path][job[q].driver]
  <2>1. at[q] = "native" /\ job[q].mode # "migrate" /\ UNCHANGED <<data, restoring, migrating>>
    BY <1>16 DEF Load, files, markers
  <2>2. job[q].path \in Paths /\ job[q].driver \in Drivers /\ at[q] \in Past
    BY <2>1 DEF LockInv, Past, TypeOK
  <2>3. found # Missing /\ (job[q].mode = "restore" => found \in Nat /\ job[q].driver = "rhiza")
    BY <1>16, <2>1 DEF Load, DataInv, StepInv
  <2>4. job[q].mode # "restore" => found # Partial
    BY <2>1, <2>2 DEF MarkerInv, DataInv, HalfWorkIsMarked, Drivers
  <2>5. at' = [at EXCEPT ![q] = IF job[q].mode = "restore" THEN "loaded" ELSE "open"]
    BY <1>16 DEF Load, Advance
  <2>6. job' = [job EXCEPT ![q].loaded = State(found)]
    BY <1>16 DEF Load
  <2>7. \A r \in Procs \ {q} : at'[r] = at[r] /\ job'[r] = job[r]
    BY <2>5, <2>6 DEF TypeOK
  <2>8. /\ at'[q] = IF job[q].mode = "restore" THEN "loaded" ELSE "open"
        /\ job'[q].path = job[q].path /\ job'[q].driver = job[q].driver
        /\ job'[q].source = job[q].source
    BY <2>5, <2>6 DEF TypeOK, Jobs
  <2>9. job[q].source = None
    BY <2>1 DEF StepInv
  <2>10. job[q].mode = "restore" => found # Missing /\ found # Partial
    BY <2>3, OwnershipAssumption
  <2> QED
    BY <2>1, <2>3, <2>4, <2>7, <2>8, <2>9, <2>10 DEF DataInv,
      HalfWorkIsMarked, Reading
<1>17. ASSUME NEW q \in Procs, CompleteRestore(q) PROVE DataInv'
  BY <1>17, OwnershipAssumption DEF CompleteRestore, files, Advance, StepInv,
    Reading, DataInv, HalfWorkIsMarked
<1>18. ASSUME NEW q \in Procs, Save(q) PROVE DataInv'
  <2> DEFINE p == job[q].path
             n == job[q].loaded + 1
  <2>1. /\ p \in Paths /\ job[q].driver \in Drivers /\ n \in Nat
        /\ at[q] = "open" /\ at' = at /\ restoring' = restoring /\ migrating' = migrating
        /\ \A r \in Procs \ {q} : job'[r] = job[r]
        /\ job'[q].path = p /\ job'[q].driver = job[q].driver /\ job'[q].source = job[q].source
    BY <1>18 DEF Save, LockInv, TypeOK, Jobs, markers
  <2>2. \A r \in Paths, d \in Drivers :
            data'[r][d] = IF r = p /\ d = job[q].driver THEN n ELSE data[r][d]
    BY <1>18, <2>1 DEF Save, TypeOK, Drivers
  <2>3. \A r \in Paths : data'[r].rhiza \in {n, data[r].rhiza} /\ data'[r].lattice \in {n, data[r].lattice}
    BY <2>2 DEF Drivers
  <2>4. HalfWorkIsMarked' /\ \A r \in Paths : data'[r].lattice # Partial
    BY <2>1, <2>3, OwnershipAssumption DEF HalfWorkIsMarked, DataInv
  <2>5. ASSUME NEW r \in Procs
        PROVE  /\ at[r] = "native" => data'[job[r].path][job[r].driver] # Missing
               /\ at[r] = "open" => data'[job[r].path][job[r].driver] \notin {Missing, Partial}
               /\ at[r] = "loaded" => data'[job[r].path].rhiza \in Nat
    BY <2>1, <2>2, <2>3, OwnershipAssumption DEF DataInv, LockInv
  <2>6. job[q].mode # "migrate" /\ ~Reading(q)
    BY <2>1 DEF StepInv, Reading
  <2>7. ASSUME NEW r \in Procs \ {q}, at[r] \in {"verified", "closed"}
        PROVE  job[r].path # p /\ job[r].path \in Paths
    BY <2>1, <2>7, OwnershipAssumption DEF StepInv, LockInv, Exclusive
  <2>8. ASSUME NEW r \in Procs \ {q}, Reading(r)
        PROVE  job[r].source # p /\ job[r].source \in Paths
    BY <2>1, <2>8, OwnershipAssumption DEF LockInv
  <2>9. Reading(q)' <=> Reading(q)
    BY <2>1 DEF Reading
  <2>10. \A r \in Procs \ {q} : Reading(r)' <=> Reading(r)
    BY <2>1 DEF Reading
  <2>11. ASSUME NEW r \in Procs
         PROVE  /\ at[r] \in {"verified", "closed"} => data'[job[r].path].rhiza = job'[r].loaded
                /\ Reading(r)' => State(data'[job'[r].source].lattice) = job'[r].loaded
    <3>1. CASE r = q
      BY <3>1, <2>1, <2>6, <2>9
    <3>2. CASE r # q
      <4>1. job'[r] = job[r]
        BY <2>1, <3>2
      <4>2. at[r] \in {"verified", "closed"} => data'[job[r].path].rhiza = job[r].loaded
        BY <2>2, <2>7, <3>2 DEF DataInv, Drivers
      <4>3. Reading(r) => State(data'[job[r].source].lattice) = job[r].loaded
        BY <2>2, <2>8, <3>2 DEF DataInv, Drivers, State
      <4> QED
        BY <4>1, <4>2, <4>3, <2>10, <3>2
    <3> QED
      BY <3>1, <3>2
  <2>12. \A r \in Procs : job'[r].path = job[r].path /\ job'[r].driver = job[r].driver
    BY <2>1
  <2> QED
    BY <2>1, <2>4, <2>5, <2>11, <2>12 DEF DataInv
<1>19. ASSUME NEW q \in Procs, MarkMigration(q) PROVE DataInv'
  BY <1>19, OwnershipAssumption DEF MarkMigration, files, Advance, Reading,
    DataInv, HalfWorkIsMarked
<1>20. ASSUME NEW q \in Procs, OpenSource(q) PROVE DataInv'
  BY <1>20, OwnershipAssumption DEF OpenSource, files, markers, Advance,
    TypeOK, Reading, DataInv, HalfWorkIsMarked
<1>21. ASSUME NEW q \in Procs, SeedSome(q) PROVE DataInv'
  BY <1>21, OwnershipAssumption DEF SeedSome, markers, Advance, TypeOK,
    LockInv, Reading, Exclusive, MarkerInv, Past, DataInv, HalfWorkIsMarked
<1>22. ASSUME NEW q \in Procs, SeedLast(q) PROVE DataInv'
  BY <1>22, OwnershipAssumption DEF SeedLast, vars, files, markers, Advance,
    TypeOK, State, LockInv, Reading, Exclusive, MarkerInv, Past, DataInv,
    HalfWorkIsMarked
<1>23. ASSUME NEW q \in Procs, Verify(q) PROVE DataInv'
  BY <1>23, OwnershipAssumption DEF Verify, files, markers, Advance, Reading,
    DataInv, HalfWorkIsMarked
<1>24. ASSUME NEW q \in Procs, CloseSource(q) PROVE DataInv'
  BY <1>24, OwnershipAssumption DEF CloseSource, files, markers, Advance,
    Reading, DataInv, HalfWorkIsMarked
<1>25. ASSUME NEW q \in Procs, Publish(q) PROVE DataInv'
  BY <1>25, OwnershipAssumption DEF Publish, files, TypeOK, Jobs, LetGo,
    Reading, DataInv, HalfWorkIsMarked
<1>26. CASE UNCHANGED vars
  BY <1>26 DEF vars, files, markers, Reading, DataInv, HalfWorkIsMarked
<1> QED
  BY <1>1, <1>2, <1>3, <1>4, <1>5, <1>6, <1>7, <1>8, <1>9, <1>10, <1>11,
    <1>12, <1>13, <1>14, <1>15, <1>16, <1>17, <1>18, <1>19, <1>20, <1>21,
    <1>22, <1>23, <1>24, <1>25, <1>26 DEF Next, OpenStep, RhizaStep,
    MigrationStep

LEMMA InitIInv == Init => IInv
<1> SUFFICES ASSUME Init PROVE IInv
  OBVIOUS
<1>1. NoJob \in Jobs
  BY DEF NoJob, Jobs, Modes
<1>2. data \in [Paths -> [rhiza : Data, lattice : Data]]
  BY DEF Init, Nothing, ALattice, ARhiza, Data
<1>3. TypeOK
  BY <1>1, <1>2 DEF Init, TypeOK, Steps
<1>4. \A q \in Procs : at[q] = "idle" /\ job[q].source = None
  BY DEF Init, NoJob
<1>5. LockInv /\ StepInv /\ MarkerInv
  BY <1>4 DEF Init, LockInv, StepInv, MarkerInv, Past, Reading
<1>6. \A p \in Paths : data[p].lattice # Partial /\ data[p].rhiza # Partial
  BY OwnershipAssumption DEF Init, Nothing, ALattice, ARhiza
<1>7. DataInv
  BY <1>4, <1>6 DEF DataInv, HalfWorkIsMarked, Reading
<1> QED
  BY <1>3, <1>5, <1>7 DEF IInv

LEMMA NextIInv == IInv /\ [Next]_vars => IInv'
  BY TypeKept, LockKept, StepKept, MarkerKept, DataKept DEF IInv

(* The invariant holds in every reachable state.                           *)
THEOREM InvariantHolds == Spec => []IInv
  BY InitIInv, NextIInv, PTL DEF Spec

(* The types of the variables.                                             *)
THEOREM TypeCorrect == Spec => []TypeOK
<1>1. IInv => TypeOK
  BY DEF IInv
<1> QED
  BY <1>1, InvariantHolds, PTL

(* No engine is ever in use over an interrupted restore or migration.      *)
THEOREM OnlyWholeIsServed == Spec => []ServedIsWhole
<1>1. IInv => ServedIsWhole
  BY DEF IInv, StepInv, MarkerInv, DataInv, ServedIsWhole, Past, Steps
<1> QED
  BY <1>1, InvariantHolds, PTL

(* No incomplete copy lies anywhere without a marker.                      *)
THEOREM HalfWorkMarked == Spec => []HalfWorkIsMarked
<1>1. IInv => HalfWorkIsMarked
  BY DEF IInv, DataInv
<1> QED
  BY <1>1, InvariantHolds, PTL

(* A verified migration is a copy of its source as it then is.             *)
THEOREM MigrationIsFaithful == Spec => []CopyIsFaithful
<1>1. IInv => CopyIsFaithful
  <2> SUFFICES ASSUME IInv, NEW q \in Procs, at[q] = "verified"
               PROVE  data[job[q].path].rhiza = State(data[job[q].source].lattice)
    BY DEF CopyIsFaithful
  <2>1. Reading(q)
    BY DEF IInv, StepInv, Reading
  <2> QED
    BY <2>1 DEF IInv, DataInv
<1> QED
  BY <1>1, InvariantHolds, PTL
-----------------------------------------------------------------------------
(* The action properties.                                                  *)

SameAt(p) ==
    /\ data'[p] = data[p] /\ marker'[p] = marker[p]
    /\ p \in root' <=> p \in root
    /\ p \in restoring' <=> p \in restoring
    /\ p \in migrating' <=> p \in migrating

(* A step of another process leaves a path alone that is owned, and every  *)
(* step of the owner shows in where it is or in its job.                   *)
LEMMA OwnedUndisturbed ==
    ASSUME IInv, [Next]_vars,
           NEW p \in Paths, NEW o \in Procs,
           sole[p] = o, at'[o] = at[o], job'[o] = job[o]
    PROVE  SameAt(p)
<1> USE DEF IInv
<1>a. \A r \in Procs : at[r] \notin {"idle", "asking"} /\ job[r].path = p => r = o
  BY OwnershipAssumption DEF LockInv
<1>1. ASSUME NEW q \in Procs, Ask(q) PROVE SameAt(p)
  BY <1>1, <1>a DEF Ask, files, markers, SameAt
<1>2. ASSUME NEW q \in Procs, AskMigration(q) PROVE SameAt(p)
  BY <1>2, <1>a DEF AskMigration, files, markers, SameAt
<1>3. ASSUME NEW q \in Procs, Acquire(q) PROVE SameAt(p)
  BY <1>3, <1>a DEF Acquire, files, markers, SameAt
<1>4. ASSUME NEW q \in Procs, Stop(q) PROVE SameAt(p)
  BY <1>4, <1>a DEF Stop, files, markers, SameAt
<1>5. ASSUME NEW q \in Procs, Check(q) PROVE SameAt(p)
  BY <1>5, <1>a DEF Check, files, markers, SameAt
<1>6. ASSUME NEW q \in Procs, MarkRestore(q) PROVE SameAt(p)
  BY <1>6, <1>a DEF MarkRestore, files, Advance, TypeOK, SameAt
<1>7. ASSUME NEW q \in Procs, MakeDirectory(q) PROVE SameAt(p)
  BY <1>7, <1>a DEF MakeDirectory, markers, Advance, TypeOK, SameAt
<1>8. ASSUME NEW q \in Procs, InspectDirectory(q) PROVE SameAt(p)
  BY <1>8, <1>a DEF InspectDirectory, files, markers, SameAt
<1>9. ASSUME NEW q \in Procs, CreateMarker(q) PROVE SameAt(p)
  BY <1>9, <1>a DEF CreateMarker, markers, Advance, TypeOK, SameAt
<1>10. ASSUME NEW q \in Procs, WriteMarker(q) PROVE SameAt(p)
  BY <1>10, <1>a DEF WriteMarker, markers, Advance, TypeOK, SameAt
<1>11. ASSUME NEW q \in Procs, RecogniseMarker(q) PROVE SameAt(p)
  BY <1>11, <1>a DEF RecogniseMarker, files, markers, SameAt
<1>12. ASSUME NEW q \in Procs, OpenRhiza(q) PROVE SameAt(p)
  BY <1>12, <1>a DEF OpenRhiza, markers, Advance, TypeOK, SameAt
<1>13. ASSUME NEW q \in Procs, RestoreBreaksOff(q) PROVE SameAt(p)
  BY <1>13, <1>a DEF RestoreBreaksOff, markers, TypeOK, LetGo, SameAt
<1>14. ASSUME NEW q \in Procs, InspectVersion(q) PROVE SameAt(p)
  BY <1>14, <1>a DEF InspectVersion, files, markers, SameAt
<1>15. ASSUME NEW q \in Procs, OpenLattice(q) PROVE SameAt(p)
  BY <1>15, <1>a DEF OpenLattice, markers, Advance, TypeOK, SameAt
<1>16. ASSUME NEW q \in Procs, Load(q) PROVE SameAt(p)
  BY <1>16, <1>a DEF Load, files, markers, SameAt
<1>17. ASSUME NEW q \in Procs, CompleteRestore(q) PROVE SameAt(p)
  BY <1>17, <1>a DEF CompleteRestore, files, Advance, TypeOK, SameAt
<1>18. ASSUME NEW q \in Procs, Save(q) PROVE SameAt(p)
  BY <1>18, <1>a DEF Save, markers, TypeOK, Jobs, SameAt
<1>19. ASSUME NEW q \in Procs, MarkMigration(q) PROVE SameAt(p)
  BY <1>19, <1>a DEF MarkMigration, files, Advance, TypeOK, SameAt
<1>20. ASSUME NEW q \in Procs, OpenSource(q) PROVE SameAt(p)
  BY <1>20, <1>a DEF OpenSource, files, markers, SameAt
<1>21. ASSUME NEW q \in Procs, SeedSome(q) PROVE SameAt(p)
  BY <1>21, <1>a DEF SeedSome, markers, Advance, TypeOK, SameAt
<1>22. ASSUME NEW q \in Procs, SeedLast(q) PROVE SameAt(p)
  BY <1>22, <1>a DEF SeedLast, markers, Advance, TypeOK, SameAt
<1>23. ASSUME NEW q \in Procs, Verify(q) PROVE SameAt(p)
  BY <1>23, <1>a DEF Verify, files, markers, SameAt
<1>24. ASSUME NEW q \in Procs, CloseSource(q) PROVE SameAt(p)
  BY <1>24, <1>a DEF CloseSource, files, markers, SameAt
<1>25. ASSUME NEW q \in Procs, Publish(q) PROVE SameAt(p)
  BY <1>25, <1>a DEF Publish, files, TypeOK, LetGo, SameAt
<1>26. CASE UNCHANGED vars
  BY <1>26 DEF vars, files, markers, SameAt
<1> QED
  BY <1>1, <1>2, <1>3, <1>4, <1>5, <1>6, <1>7, <1>8, <1>9, <1>10, <1>11,
    <1>12, <1>13, <1>14, <1>15, <1>16, <1>17, <1>18, <1>19, <1>20, <1>21,
    <1>22, <1>23, <1>24, <1>25, <1>26 DEF Next, OpenStep, RhizaStep,
    MigrationStep

(* What an exclusive owner finds changes by its own steps only.            *)
THEOREM OwnerIsUndisturbed == Spec => OwnedPathIsUndisturbed
<1>1. IInv /\ [Next]_vars =>
          \A p \in Paths : \A q \in Procs :
              sole[p] = q /\ at'[q] = at[q] /\ job'[q] = job[q] => SameAt(p)
  BY OwnedUndisturbed
<1> QED
  BY <1>1, InvariantHolds, PTL DEF Spec, OwnedPathIsUndisturbed, SameAt

(* Only CompleteRestore and Publish take a marker down.                    *)
LEMMA MarkersDown ==
    ASSUME IInv, [Next]_vars,
           NEW p \in restoring \cup migrating, p \notin restoring' \cup migrating'
    PROVE  data[p].rhiza \in Nat
<1> USE DEF IInv
<1>1. ASSUME NEW q \in Procs, Ask(q) PROVE data[p].rhiza \in Nat
  BY <1>1 DEF Ask, markers
<1>2. ASSUME NEW q \in Procs, AskMigration(q) PROVE data[p].rhiza \in Nat
  BY <1>2 DEF AskMigration, markers
<1>3. ASSUME NEW q \in Procs, Acquire(q) PROVE data[p].rhiza \in Nat
  BY <1>3 DEF Acquire, markers
<1>4. ASSUME NEW q \in Procs, Stop(q) PROVE data[p].rhiza \in Nat
  BY <1>4 DEF Stop, markers
<1>5. ASSUME NEW q \in Procs, Check(q) PROVE data[p].rhiza \in Nat
  BY <1>5 DEF Check, markers
<1>6. ASSUME NEW q \in Procs, MarkRestore(q) PROVE data[p].rhiza \in Nat
  BY <1>6 DEF MarkRestore
<1>7. ASSUME NEW q \in Procs, MakeDirectory(q) PROVE data[p].rhiza \in Nat
  BY <1>7 DEF MakeDirectory, markers
<1>8. ASSUME NEW q \in Procs, InspectDirectory(q) PROVE data[p].rhiza \in Nat
  BY <1>8 DEF InspectDirectory, markers
<1>9. ASSUME NEW q \in Procs, CreateMarker(q) PROVE data[p].rhiza \in Nat
  BY <1>9 DEF CreateMarker, markers
<1>10. ASSUME NEW q \in Procs, WriteMarker(q) PROVE data[p].rhiza \in Nat
  BY <1>10 DEF WriteMarker, markers
<1>11. ASSUME NEW q \in Procs, RecogniseMarker(q) PROVE data[p].rhiza \in Nat
  BY <1>11 DEF RecogniseMarker, markers
<1>12. ASSUME NEW q \in Procs, OpenRhiza(q) PROVE data[p].rhiza \in Nat
  BY <1>12 DEF OpenRhiza, markers
<1>13. ASSUME NEW q \in Procs, RestoreBreaksOff(q) PROVE data[p].rhiza \in Nat
  BY <1>13 DEF RestoreBreaksOff, markers
<1>14. ASSUME NEW q \in Procs, InspectVersion(q) PROVE data[p].rhiza \in Nat
  BY <1>14 DEF InspectVersion, markers
<1>15. ASSUME NEW q \in Procs, OpenLattice(q) PROVE data[p].rhiza \in Nat
  BY <1>15 DEF OpenLattice, markers
<1>16. ASSUME NEW q \in Procs, Load(q) PROVE data[p].rhiza \in Nat
  BY <1>16 DEF Load, markers
<1>17. ASSUME NEW q \in Procs, CompleteRestore(q) PROVE data[p].rhiza \in Nat
  BY <1>17 DEF CompleteRestore, DataInv
<1>18. ASSUME NEW q \in Procs, Save(q) PROVE data[p].rhiza \in Nat
  BY <1>18 DEF Save, markers
<1>19. ASSUME NEW q \in Procs, MarkMigration(q) PROVE data[p].rhiza \in Nat
  BY <1>19 DEF MarkMigration
<1>20. ASSUME NEW q \in Procs, OpenSource(q) PROVE data[p].rhiza \in Nat
  BY <1>20 DEF OpenSource, markers
<1>21. ASSUME NEW q \in Procs, SeedSome(q) PROVE data[p].rhiza \in Nat
  BY <1>21 DEF SeedSome, markers
<1>22. ASSUME NEW q \in Procs, SeedLast(q) PROVE data[p].rhiza \in Nat
  BY <1>22 DEF SeedLast, markers
<1>23. ASSUME NEW q \in Procs, Verify(q) PROVE data[p].rhiza \in Nat
  BY <1>23 DEF Verify, markers
<1>24. ASSUME NEW q \in Procs, CloseSource(q) PROVE data[p].rhiza \in Nat
  BY <1>24 DEF CloseSource, markers
<1>25. ASSUME NEW q \in Procs, Publish(q) PROVE data[p].rhiza \in Nat
  BY <1>25 DEF Publish, TypeOK, Jobs, DataInv
<1>26. CASE UNCHANGED vars
  BY <1>26 DEF vars, markers
<1> QED
  BY <1>1, <1>2, <1>3, <1>4, <1>5, <1>6, <1>7, <1>8, <1>9, <1>10, <1>11,
    <1>12, <1>13, <1>14, <1>15, <1>16, <1>17, <1>18, <1>19, <1>20, <1>21,
    <1>22, <1>23, <1>24, <1>25, <1>26 DEF Next, OpenStep, RhizaStep,
    MigrationStep

(* The last marker of a path comes down only over whole data.              *)
THEOREM MarkersComeDownOnWhole == Spec => MarkersComeDownOnWholeData
<1>1. IInv /\ [Next]_vars =>
          \A p \in restoring \cup migrating :
              p \notin restoring' \cup migrating' => data[p].rhiza \in Nat
  BY MarkersDown
<1> QED
  BY <1>1, InvariantHolds, PTL DEF Spec, MarkersComeDownOnWholeData
=============================================================================
