# A formal model of Yeoul

Yeoul is an embedded bitemporal memory engine: callers ingest episodes, upsert entities and
assert, supersede and retract facts; the engine keeps an append-only revision log beside the live
records and answers reads as of any instant. This directory holds TLA+ modules translated from its
source, the TLC configurations that check them on small instances, and TLAPS proofs that hold for
every value of the constants.

    tlc -config Commit.cfg MCCommitPath      # model-check one run
    tlapm CommitPath_proofs.tla              # check one module's proofs

## The system

| Part (source) | State | Operations | Hard because |
|---|---|---|---|
| Engine (`pkg/yeoul/engine.go`) | maps of sources, episodes, entities, facts; id sequence; pinned transaction time; rollback snapshot; `poisoned` | `IngestEpisode`, `IngestBatch`, `UpsertEntity`, `AssertFact`, `SupersedeFact`, `RetractFact`, `Close`; reads under a read lock | one RWMutex over everything; a body that fails half way; a clock that stalls or steps back |
| Bitemporal history (`temporal.go`, `temporal_index.go`, `history.go`) | fact and entity revisions, migration watermarks | append a revision with each write; rebuild the version a cut may see | several revisions share an instant; nothing is ever deleted, so an ordering mistake is permanent |
| Identifiers (`id.go`) | the sequence | generate, check global uniqueness | callers may name ids of the generated shape |
| Commit path (`mutateLocked`, `store_rhiza.go`, `internal/storage/rhiza`) | the store's `lastState`, its `poisoned` flag, native records and request receipts | compute a delta, send it under a request id, ask again, give up | answers are lost, contexts are cancelled, the process crashes, Close saves too |
| Lattice store (`store_lattice.go`, `internal/storage/lattice`) | nodes, edges, search texts, an edge marker and an index version on disk; `lastState` and `factEndpointEdgesReady` beside them | inspect and open, load, backfill the texts, save a difference, offer candidates | two derived structures that older databases lack and that may only be trusted when complete; another build at the same path |
| Open, ownership, restore, migration (`store.go`, `database_ownership*.go`, `storage_migration.go`, `maintenance.go`) | lock file, driver marker, restore-pending marker, migration-pending marker | acquire, detect the driver, restore, migrate, publish | several processes; a crash between any two steps |
| Queries (`search.go`, `graph.go`, `includes.go`, `history.go`) | none of their own; a client holds a cursor between pages | lookup, neighbourhood, timeline, provenance, search, record by id | a past answer must survive later merges; an indexed and a scanned lookup must agree; `GetRecord` locks twice |
| HTTP service and daemon (`pkg/httpapi`, `cmd/yeould`) | connections and handlers in progress; the engine it serves | one engine call per request, two for a lifecycle change; serve, shut down, exit | a check and an act that are separate calls; answers that never arrive; handlers that outlive the shutdown |
| CLI maintenance (`cmd/yeoul`: merge, compaction, near-duplicate guard, index, export) | a plan in memory, index and export files | a guard and a batch; one merge; many commits applied from one plan; files published by renames | stale plans, half-applied compactions, files that do not belong together, loss of power |
| CLI front end, policy files, retrieval text, secret redaction | none | parsing and formatting | no state: not modelled |

The parts meet as follows. A client (library, HTTP handler or CLI command) calls an engine method.
A mutating method runs its body under the write lock inside `mutateLocked`, which pins one
transaction time, copies the maps, and finally calls `Save` of the store it was opened with. The
Rhiza store turns the difference between what it believes durable and the maps into one native
mutation and answers success, a definite refusal, or "outcome unknown"; the last one poisons both
the store and the engine until a reopen. Reads take the read lock and see only committed maps.

### What makes each part correct

- Engine and history: an as-of read at or after a record's stamp rebuilds the live record; cuts that
  are in the past stay as they were told; supersession is one event at every cut and its chains are
  linear; a single-value slot is handed on and never shared; everything a fact refers to existed when
  the fact did.
- Identifiers: one raw id names at most one record, of one kind.
- Commit path: a call is written whole or not at all and at most once; the answer told never turns
  out false; readers see what a reopen would load; no failure leaves the lock held.
- Lattice store: between saves the database holds what the engine serves; an offered lookup or
  full-text answer misses nothing a scan would find; data of another build is never written.
- Open, ownership, restore, migration: two writers never hold one database; a half-written target
  or a half-finished restore is never opened as a database.
- Queries: an answer about the past never changes; every route to a record shows the same record;
  pages of a settled cut partition one ordered answer; a neighbourhood is connected.
- Service: what was acknowledged is kept, a refusal leaves nothing behind, racing clients replace a
  fact once, no fact of another space changes, an interrupted daemon exits.
- Maintenance: duplicate marks lead to one canonical entity or nowhere; merging gathers what belongs
  together; a compaction interrupted anywhere loses no statement and can be repeated; an index is
  called valid only if it is of the database as it is; an export is whole and stays.

## The modules

| Module | Models | Built on |
|---|---|---|
| `Engine` | the maps, the revision log, the id sequence, every mutation, rollback, as-of reads | |
| `Engine_proofs` | its inductive invariant; types, live facts, settled cuts, lifecycle, ids; supersession chains and their log; entities, causality and slots over time | `Engine` |
| `MCEngine` | instances for TLC: ids and inputs | `Engine` |
| `AtomicStore` | the abstract promise: a call takes effect whole, once, or never | |
| `CommitPath` | `mutateLocked` over `rhizaStore.Save` over `DB.Apply` over the native engine | `AtomicStore` (as `Promise`) |
| `CommitPath_proofs` | its inductive invariant, what follows from it, and that it implements `AtomicStore` | `CommitPath` |
| `MCCommitPath` | instances for TLC: calls, records, seeds | `CommitPath` |
| `Ownership` | processes that open, restore, maintain and migrate databases, and stop anywhere | |
| `Ownership_proofs` | its inductive invariant and what follows from it | `Ownership` |
| `MCOwnership` | its instances for TLC; which constants are symmetric | `Ownership` |
| `Store` | the Lattice store: opening, loading, saving, derived structures, another build beside it | |
| `Store_proofs` | its inductive invariant and what follows from it | `Store` |
| `MCStore` | its instances for TLC: databases of several ages, records, batches | `Store` |
| `Queries` | every query family over the histories of `Engine`; readers that lock several times | `Engine` |
| `Queries_proofs` | settled answers, pages, the record read under two locks, the index, neighborhoods, agreement between the routes | `Queries`, `Engine_proofs` |
| `MCQueries` | its instances for TLC: populated databases and requests | `Queries` |
| `Duplicates` | entity identity, redirects, the near-duplicate guard, merge, compaction | |
| `Duplicates_proofs` | its inductive invariant, chains of redirects, what merges and compactions keep | `Duplicates` |
| `MCDuplicates` | its instances for TLC: five clienteles | `Duplicates` |
| `Service` | clients, handlers and the daemon over the lifecycle of facts | |
| `Service_proofs` | its inductive invariant and what follows from it | `Service` |
| `MCService` | its instances for TLC: two facts, eight operations | `Service` |
| `Artifacts` | index and export files beside writers, failures and loss of power | |
| `Artifacts_proofs` | its inductive invariant and what follows from it | `Artifacts` |
| `MCArtifacts` | its instances for TLC: one use for the index, one for exports | `Artifacts` |

### Engine

`db` is the record of the engine's maps and sequence; `snapshot` is `mutateLocked`'s rollback copy
and, since the lock is free exactly when the two agree, also what readers were last shown. `txTime`
is `e.txTime`, `clock` what `time.Now` reads. `phase` is the progress of the running mutation: the
order in which `IngestBatch` handles its episodes, entities and facts, or the single step of a
lifecycle call.

| Action | Code |
|---|---|
| `BeginMutation` | `mutateLocked` up to the snapshot |
| `IngestEpisode`, `UpsertEntity`, `AssertFact` | one element of a batch, or the only one of the call of that name |
| `SupersedeFact`, `RetractFact` | the bodies of the calls of that name, including each revision they append |
| `Abort` | any error return of the body, and `restoreLocked` |
| `Commit` | a successful save and the unlock |
| `Tick` | the wall clock (external) |

Abstracted: payloads are one value, an input names the id it resolves to, and refusals before any
change are an `Abort`. A generated id is the pair of its prefix and number, so that the order of
revision ids (`revisionOrder`) and collisions with caller-chosen ids survive the abstraction.
`ClockMode` separates what depends on the clock: `stalling` never goes back but may give several
mutations one instant (the coarse Windows clock that `strictlyAfterTxTime` names), and under
`stepping` an adjustment may set it back.

### CommitPath and AtomicStore

`memory` stands for the engine's maps, `lastState` for the store's copy, `rows` and `receipt` for
what the native engine has made durable, `flight` for the request it has not decided. A record's
content is the call that wrote it last. `lock` and `step` are the write lock and where its holder
is: the body, the save, or one of the three points at which `Apply` waits (`sent`, `status`,
`retry`).

| Action | Code |
|---|---|
| `Call`, `Refuse`, `Begin` | the first and second look at the context, `ensureWritableLocked`, the snapshot |
| `Change`, `BodyFails`, `PreSave` | the body, its error return, the last look at the context |
| `SaveSpoiled`, `SaveNothing`, `SaveTooLarge` | the early returns of `Save` and the size check of `Apply` |
| `Send`, `SendFails` | `GraphExecute`: taken, or refused before it was |
| `HeardCommitted`, `HeardRejected`, `AskAgain`, `GiveUp` | its answer, the status query, the retry, `ErrCommitUnknown` |
| `Close` | `engine.Close`, whose save shares the actions above |
| `Open` | the store's `Load` and `applyState`, which seeds the revision log in memory |
| `Crash`, `Cancel`, `NativeCommit`, `NativeReject` | external: the process, the callers, the native engine |

The native engine is external and modelled from its use: a request it took is decided once, it
recognises a request by its id, and opening it settles what an earlier process left undecided.

`AtomicStore` says what callers may rely on and nothing about how: a call is open, then applied or
dropped; "ok" is only said of an applied call, "failed" only of one that will never be applied,
"unknown" of any. `KeepsPromise` is that specification under the mapping `Outcome`, `Told` and the
durable rows of callers' records. The seeded records belong to no caller and are outside it.

### Ownership

Several processes share paths of one file system. `root`, `marker` and `data` are a path's directory,
its driver marker and what each engine finds in it; `restoring` and `migrating` the paths with a
marker file beside them; `shared` and `sole` the lock file. `at` and `job` are where a process is
and what it is doing. The contents of a database are the number of writes it has seen, or `Bare`
(no metadata record yet) or `Partial` (a copy under way).

| Action | Code |
|---|---|
| `Ask`, `AskMigration` | the checks of `openStateStoreWithOwnership` and `MigrateLatticeToRhiza` before the lock |
| `Acquire` | `acquireOpenOwnership`; a lock that stays busy ends in `Stop` |
| `Check`, `MarkRestore` | the checks repeated under the lock, `ensureRhizaRestorePending` |
| `MakeDirectory`, `InspectDirectory`, `CreateMarker`, `WriteMarker`, `RecogniseMarker`, `OpenRhiza` | `newRhizaStore`, one step per change of the files |
| `InspectVersion`, `OpenLattice` | `newLatticeStore` |
| `Load`, `CompleteRestore`, `Save` | `Load` of either store, `CompleteRestore`, `Save` of either store |
| `MarkMigration`, `OpenSource`, `SeedSome`, `SeedLast`, `Verify`, `CloseSource`, `Publish` | `MigrateLatticeToRhiza` in order; its target is opened by the actions above |
| `Stop`, `RestoreBreaksOff` | an error return, `Close`, or the end of the process, at any step |

What the native engines do is external: Lattice admits one writer or many readers, Rhiza one owner,
both initialise what is missing, and a restore may be cut short by the archive. A save is one
step because `CommitPath` shows it to be.

### Store

A record is its search text and its links. `disk` is the property graph: nodes, edges, search texts,
the marker that vouches for the edges, the version of the search index and of the state. `memory`
is what the engine serves, `before` its rollback copy, `last` the store's `lastState`, `ready` its
`factEndpointEdgesReady`. `foreign` is a build of another state version, which the native lock keeps
out only while a handle is open.

| Action | Code |
|---|---|
| `Inspect`, `InspectAgain`, `Refuse` | the two read-only inspections before a writable open (`newLatticeStore`, `inspectStateVersionBeforeWritableOpen`) |
| `OpenWritable`, `OpenReadOnly`, `Reject` | the native open and the validation through the handle that will serve |
| `Load`, `Backfill`, `BackfillFails` | `Load`, `EnsureSearchIndexes` |
| `Mutate` | the engine changes its maps and asks for a save |
| `SaveCommits`, `SaveFails` | `Save`: `latticeRecordDelta`, `reconcileNodes`, `replaceLatticeEdges`, the marker; or the transaction is abandoned |
| `Stop` | `Close`, or the end of the process, at any step |
| `ForeignArrives`, `ForeignWrites`, `ForeignLeaves` | external: the other build |

The reads (`CandidatesAvailable`, `MayMiss`, `Indexed`) say when `FactCandidates` and
`SearchCandidates` offer an answer and what an answer may lack: an adjacency list comes back in any
order, cut off behind the bound.

### Queries

A query is one critical section under the read lock, so it is an operator on the engine's maps:
`LookupFacts` with its candidate index and pages, `Neighborhood`, `Timeline`, the three provenance
walks, `Search` with its two rounds of graph expansion, `Included` (`assembleIncludes`) and the
exported filter `RecordPasses`. What locks several times is an action: `OpenPages` and `NextPage`
are a client that follows cursors of a lookup at a settled cut; `FetchFact`, `FetchHistory` and
`Finish` are the two locks of `GetRecord` and its end. The writers are the actions of `Engine`.
In a timeline an episode and a fact's creation stand at the time a caller observed them, if one was
given (`ChooseTime`), and are hidden by a cut before it; transitions stand where the log has them.

### Duplicates

`entities` and `facts` are the maps, `window` the maintenance window of `admin compact --apply` with
the plan it still has to carry out, `clientele` which callers use this database (chosen in `Init`),
`writer` who made the last change.

| Action | Code |
|---|---|
| `UpsertEntity`, `AssertFact`, `RetractFact` | the engine's calls, as far as identity is concerned: derived and legacy ids, identity checks, merged metadata |
| `AutomaticAssert` | `fact assert --upsert-subject/--upsert-object`: the near-duplicate guard and one batch, refused when a reference both sides derive would name two entities (`ReferencesAgree`) |
| `MergeEntities` | `entity merge`: its checks and one batch |
| `BeginCompaction`, `CompactEntities`, `CompactionRefused`, `CompactFact`, `EndCompaction`, `Report` | `admin compact --apply`: the plan, one commit per candidate, the retractions, the end |
| `CompactionStops` | the process dies, or a commit fails, between two commits |

A command that commits once is one step: it holds the database exclusively from its first read to
its commit (module `Ownership`). Compaction commits per candidate and may stop in between; callers
write between two windows.

### Service

`op`, `attempts` and `told` are the clients; `handler`, `cut` and `outcome` their handlers and
connections; `daemon` the process; `facts`, `stored` and `poisoned` the engine, reduced to the facts
that the lifecycle routes change. One engine call is one step with the three ends a save has in
`CommitPath`: done, not done, unknown.

| Action | Code |
|---|---|
| `Send`, `Disconnect` | external: a client, a broken connection, an expired deadline |
| `Get` | the record read |
| `Mismatch`, `Check` | `bridgeSpaceID` and the first call of `factLifecycle` |
| `Commits`, `SaveFails`, `SaveUnknown`, `Refused`, `Cancelled` | the call that changes something, by how it ends |
| `Answer` | the status is written, if anyone still listens |
| `Start`, `CloseAtOnce`, `Listen` | `serve` up to the accept loop; a restore-only start, or listening fails |
| `Interrupt`, `Drained`, `ShutdownTimesOut`, `ServeFails` | the signal, `Shutdown` and its deadline, a failing accept loop |
| `CloseEngine`, `Exit`, `Kill` | the deferred `Close`, the end of `main`, the end from outside |

### Artifacts

A database is the number of its episodes and, for each entity, the texts of its revisions; a file is
what it was made from, whether it is whole and whether it is synced; `survivors` are the files a
name may hold after the power went. `using` selects the commands and the platform: on some a rename
does not replace an existing file.

| Action | Code |
|---|---|
| `Ingest`, `Upsert` | writers beside the commands |
| `Build`, `RemoveOld`, `PublishProjection`, `PublishManifest` | `index build` and `rebuild`: read, then publish two files by renames |
| `ReadManifest`, `ReadProjection`, `Verify` | `runIndexVerify`, which reads three things one after another |
| `Export`, `WriteExport`, `SyncExport`, `RenameExport`, `SyncDirectory` | `admin export` through `writePrivateFile` and `syncPrivateFileDir` |
| `Stop`, `PowerLoss` | a failed step or the end of a command; external: the power goes |

## The runs

| Run | Properties | Question | Distinct states |
|---|---|---|---|
| `Lifecycle` | `LiveFactIsLatestVersion`, `LineageIsLinear`, `SupersessionIsAtomicAtEveryCut`, `SettledCutsAreImmutable`, `LifecycleMovesForward` | do chains of assert, supersede, retract keep history and lineage on a clock that stalls? | 557,379 |
| `Batch` | `GlobalIDsAreUnique`, `LiveEntityIsLatestVersion`, `HistoryIsCausal`, `SlotHoldsAtEveryCut` | are batches causal and free of id clashes, with squatted ids and two spaces, and is a slot handed on, and never shared, at every cut of a clock that stalls? | 918,317 |
| `Commit` | `ServedStateIsDurable`, `KeepsPromise`, `CallsAreAnswered` | do lost answers, cancellations, Close and crashes break a promise or show readers something else than a reopen? is every queued call answered? | 238,144 |
| `Migrate` | `ServedIsWhole`, `CopyIsFaithful`, `MarkersComeDownOnWholeData`, `OwnedPathIsUndisturbed` | is anything half-made ever served, wherever opens, restores and migrations stop? is a migrated copy faithful? is an exclusive owner disturbed? | 758,534 |
| `Store` | `DiskHoldsMemory`, `LookupFindsEveryFact`, `FullTextFindsEveryRecord`, `ForeignDataIsUntouched` | may the derived structures be trusted whenever they are, in databases of every age and after failed saves? is another build's data ever written? | 11,251 |
| `Queries` | `LookupIsIndexIndependent`, `NeighborhoodStaysConnected`, `EveryRouteAgrees`, `TimelineTellsTheLifecycle`, `PagesOfThePastPartitionIt`, `RecordIsReadAtOneMoment`, `PastAnswersNeverChange` | do the query families agree with each other and with the past while facts are retired and entities merged? | 152,148 |
| `Duplicates` | `RedirectsEndInCanonicalEntities`, `PreviewIsMergeable`, `CompactionKeepsASurvivor`, `FinishedCompactionLeavesNoDuplicates`, `AutomaticAssertKeepsIdentities`, `MergesGatherWhatBelongsTogether` | are redirects safe whatever marks were written, and do guard, merge and an interrupted compaction lose or confuse anything? | 244,130 |
| `Service` | `AnswersStayTrue`, `OneSuccessor`, `ChangesStayInTheirSpace`, `PoisonedConfirmsNothing`, `InterruptedDaemonExits` | what may clients rely on when connections, saves, handlers and daemons fail? | 964,797 |
| `Artifacts` | `ValidMeansCurrent`, `ExportsAreWholeAndKept` | do an index called valid and an export called done deserve it, beside writers, other commands and loss of power? | 329,625 |
| `CommitLegacy` | `SmallMutationsFit` (violated) | is a mutation within the limit ever refused as too large? | |
| `OpenRace` | `SignaturesAgree` (violated) | can two writable opens leave one path to both engines? | |
| `RestoreRetry` | `RestoreCanBeRetried` (violated) | can an interrupted restore be retried? | |

The type invariants of `Engine`, `CommitPath`, `Ownership`, `Store` and `Service` are proved, so no
run repeats them; so are `HalfWorkIsMarked` (`Ownership`), `MarkerMeansComplete` and
`RecoveryIsInspected` (`Store`).

### Bounds and why they are enough

- `MaxSequence` counts generated ids, so it bounds how many records and revisions are written. Seven
  or eight leave room for a fact, its supersession (three revisions), a retraction of either end and
  a third fact; the hazards found need two or three mutations. In `Batch`, five leave room for
  generated ids that must step over squatted ones.
- `MaxTime` counts instants. Under a stalling clock two are enough: what matters is whether two
  mutations read the same instant or not. `Cuts` goes past `MaxTime` because `strictlyAfterTxTime`
  carries stamps past the clock. `Batch` has three, so that an assertion may share its instant with
  the retirement before it, precede it in the log's time, or follow both. The proofs of `Engine`
  hold for every bound and, unless they name one, for every `ClockMode`, the stepping clock
  included.
- `Commit` has three calls over two records: one writes both, one overlaps it, one writes nothing
  (an identical replay), so deltas overlap, are empty, and exceed `Limit` when the first one
  carries the watermark too. `MaxOpens = 2` is one crash or Close and the recovery after it; an
  instance whose last process ended stops, so deadlock is not checked there.
- `CommitLegacy` has two seeded records beside the watermark and a limit of three.
- `Migrate` has two processes and two paths: a migration needs a source and a target, and the
  properties speak of one process and whoever interferes with it. `MaxContents = 2` lets a database
  change after it was read, one archive content tells a restored database from an empty one. A
  process may stop and start again without bound. The two violated runs need one path. A path that
  both engines claim is refused by every open, so deadlock is not checked.
- `Store` has an episode with its source, two entities and three facts between them, in a database
  that is new, older than marker and index, of watermarks only, unversioned, or of another version.
  `MaxFanout = 1` puts an adjacency list of two behind the bound.
- `Queries` starts from a populated database, in one variant with a mark that leads nowhere, so that
  the bounded sequence is spent on facts, their retirement and the merge of their subject.
  `MaxCandidates = 3` (8 in the code) separates indexed from scanned lookups, and `MaxHops = 4`
  stands for 64. The requests are one
  or a few per family: with and without anchors, limits, filters and pinned cuts. The second fact
  was observed, by its caller's word, at an instant before, at or after which it may be retired, and
  in one variant the episode later than it was stored; timelines are read at every cut from 1 to 3
  and at none, so either event is hidden in some and shown in others.
- `Duplicates` runs five clienteles apart, because they share no action that matters to another:
  callers that write any duplicate marks, loops and chains past `MaxHops = 4` (64 in the code)
  among them; merges of entities that drifted in case, scope, alias or key, or bear a blank mark;
  automatic upserts beside legacy ids and merged entities; automatic upserts whose two sides derive
  one id; copies of one entity and one fact for compaction. Once everyone is served nothing is left
  to do, so deadlock is not checked.
- `Service` has two clients that may send twice: a race, a retry after a lost answer, and a retry that
  meets its own first attempt. Two generated ids cover every fact the clients can create.
- `Artifacts` has two commands and a database of up to two episodes or two revisions of one entity: two
  builders, a builder and a verifier, or two exports, with writers between any two of their steps.
  Three exports let a later one replace one that was reported.

### Fairness

`CommitPath` states fairness in `FairSpec`, for `CallsAreAnswered`. The lock holder keeps
running (weak fairness of `Save`, and of `Change` and `PreSave`): a goroutine that can run is
scheduled, and the native calls are assumed to return, with an answer or an error. A caller waiting
for the lock gets it if it is free again and again (strong fairness of `Refuse` or `Begin`):
`sync.RWMutex` starves no waiting writer. Nothing is assumed of the native engine's decision,
of `Open`, of `Crash` or of the caller.

`Service` assumes `WF_vars(Stopping)` only: the goroutine of `serve` runs and its shutdown deadline
expires. Handlers and clients may stall for ever, which is what makes `InterruptedDaemonExits` worth
asking.

## The proofs

TLAPS checks every theorem to its leaves. The assumptions are those named in the modules:
`InputAssumption`, `ClockAssumption` and `RecordAssumption` (inputs are typed, `None` is no id and no
record), `CommitAssumption` (`None` and `Closing` are no call, the watermark is a seeded record,
calls write callers' records), `OwnershipAssumption` (the special values are distinct, archives
hold contents), `StoreAssumption` (batches and initial databases are finite, and the latter what a
build could have left), `ServiceAssumption` (operations are of a kind the service knows, the
initial facts are active and bear no generated id), the `InputAssumption` of `Duplicates` (inputs
are typed, automatic ones name no id, mark or alias, a derived id tells what it was derived from,
folding case makes no word blank), `ArtifactsAssumption` (`None` is no file and no database) and
`RequestAssumption` (requests are typed, ids of a prefix are ordered as its rank and their number,
a blank mark is no id, a chain may have at least one hop). `PagesOfThePast`, like two theorems of
`Engine_proofs`, names the clock it needs, and `TimelinesTellLifecycles` the requests it is about.

**Engine_proofs.** `TypeOK` is inductive by itself. `LiveFactIsLatestVersion` is not: it says
nothing of why the latest log entry wins. `IInv` adds that every revision was generated by the
sequence so far and is no younger than the live fact it belongs to (`RevisionsAreGrounded`), that
some revision holds the live fact and comes after every other one (`FactsAreLogged`), and how far a
running mutation may have moved from the snapshot it would be rolled back to (`Extends`). New
revisions take a number above the sequence, which settles ties at one instant; a transition is
stamped strictly after the fact's stamp, which settles the rest. From it follow `LiveFactIsLatest`,
`SettledCuts` and `LifecycleIsForward`; the last two use the action step that publishes a
mutation, where `snapshot' = db` and `Extends` relates the two. `IDsAreUnique` has an invariant of
its own, which is inductive.

Supersession chains come next. `LineageIsLinear` speaks of live facts, but what a cut shows is a
revision, and `SupersessionIsAtomicAtEveryCut` compares revisions of two facts.
`LineageInv` holds of the running state and of the rollback copy alike. It adds that every revision
carries its fact's creation instant, that a revision names a successor exactly from the
successor's creation on (`SupersessionIsLogged`), and that every cut at or after a creation has a
last revision (`EveryCutHasALast`), without which the version at a cut would be nothing in
particular. Both theorems hold on every clock, one that is set back included:
`strictlyAfterTxTime` gives the successor and the retired fact one stamp after everything either had.

Two theorems name the clock they need. `LiveEntityIsLatest` and `HistoryPointsBack` need one that
is never set back: an entity update and a new fact are stamped with the clock as it is, so only the
clock keeps them from appearing before what they build on. `ClockInv` says that nothing carries a
later stamp than the pinned time; `CausalInv` that entities are logged as facts are and that the
statement in every revision is grounded in records no younger.

`SlotHoldsEverywhere` needs no clock. `factSlotOccupantsLocked` looks at live facts, and `SlotInv`
carries what it saw over to cuts, by the order of the log, which no clock disturbs: of any two
active versions of different facts in one slot with overlapping validity, the retirement of one
fact was logged before anything of the other (`OneAfterTheOther`, `GaveWay`); an active fact's
versions are all active with the same validity (`ActiveIsUnchanged`), and a version that is not
active stays so (`InactiveStays`). A cut that shows both therefore lies before that retirement's
stamp, which is what the property grants (`RetiredBefore`).

**CommitPath_proofs.** `ServedStateIsDurable` speaks of moments when the lock is free; its invariant
must say what holds while it is not. `LockInv` ties the lock to the step and to `poisoned`;
`ReceiptInv` says at most one request is undecided, and whose; `FlightInv` that the records in
flight are the difference between what will be and what is durable; `MemoryInv` that the rollback
copy is what a reopen would load until the save lands, that `lastState` is durable whenever a delta
may be computed from it, and that the maps are the rollback copy with the call's changes.
`IInv` is proved inductive with one lemma per way a save may end.

`CommitKeepsPromise` maps each step to a step of `AtomicStore` or a
stutter: landing is `TakeEffect`, a rejection or the crash of calls that were never sent is `Drop`,
and the three kinds of answer are `Succeed`, `Fail` and `LeaveOpen`. That a save without a
difference can only be of a call that writes nothing is the one case that needs the invariant on
records rather than on control.

**Ownership_proofs.** None of the properties is inductive: each rests on which process may touch a
path at all. `LockInv` says that a process past the lock holds it in the way its mode asks for, and
a migration its source too; `StepInv` which modes each step belongs to; `MarkerInv` which markers
stand beside a path in use; `DataInv` what a process that has a handle finds behind it, and that a
`Partial` copy is marked. They are proved one lemma each, one step per action. From `IInv` follow
the four properties of states and of copies, and two action properties: `OwnedUndisturbed` shows
that every step at an owned path is its owner's and shows in where the owner is or in its job, and
`MarkersDown` that only `CompleteRestore` and `Publish` take a last marker down. No
proof expands `NoHandle` or `NoWriter`: the theorems rest on the locks and the markers alone, not
on how the engines admit their writers.

**Store_proofs.** The four checked properties, and two more, rest on `IInv`: `ShapeInv` says that `last` is
what the database holds in every phase that has a handle to write through, so that writing the
difference to it leaves `memory` on disk (`OverlayOfTheDelta`, `TextsOfTheDelta`, `EdgesOfTheDelta`);
`DerivedInv` which edges and texts are on disk and when they may be trusted; `VersionInv` who may be
at the database and what an open knows of its version. `LookupIsComplete` needs a counting
argument: an adjacency list within the bound cannot have been cut. `MarkerIsTrue`,
`RecoveryWasInspected` and the types have no run of their own.

**Service_proofs.** Facts only accumulate (`Grows`), whatever the operation (`Effect`). On top of that
`MemoryInv` says that the engine and the database differ only after a save of unknown end,
`DoneInv` that what was answered or is about to be was done, `FruitlessInv` that a client whose only
attempt has not taken effect has left nothing, `SuccessorInv` that a fact created to replace another
one did, and `CheckedInv` that the lookup before a lifecycle change stays true until the change. The
last one is the answer to the check and the act being two calls: a fact never changes its space.

**Duplicates_proofs.** The bound on hops is a parameter, so a chain is as long as one likes and facts
about it need induction. The library's induction takes an operator; the proofs take a least
counterexample instead (`LeastNumber`), and unfold `Hops`, a recursive function, once and for all
(`Iterates`, which a definition by recursion satisfies). `RedirectsAreSafe` follows from the types alone:
what a chain reaches within the bound is an unmarked entity of the same space, or the id itself.
`IInv` adds `PlanIsCurrent`: as nobody writes inside a maintenance window, what the window has
left to do is what planning it afresh would find. So a fact is retracted for one that is active and
preferred at that moment, and from then on both keep their identity (`CompactionIsLossless`), and a
window that finished leaves no plan (`CompactionIsComplete`). `MergesGather` compares two chains: marking
a set of entities as duplicates of one unmarked entity (`Absorbs`) leaves chains that met none of
them as they were (`UnreachedReadsAsBefore`) and appends the target to the others. That a chain may
grow past the bound thereby, or meet a blank mark, is why the property excepts what fails closed.
`PreviewsCanBeMerged` and `AutomaticAssertIsCareful` compare the checks of several commands with one
another, for any folding of words.

**Artifacts_proofs.** A build reads the database, then publishes two files, and a verifier reads three
things, each at a moment of its own. `ManifestsTellThePast` says that every manifest in sight, or held by a
command, or left by a loss of power, was made from a moment of this database's past; the counts a
manifest carries grow with every write, so one that matches the present is of the present. That is
what `ValidIsCurrent` rests on. `ExportsAreStaged` follows an export from the temporary file to its name:
what may stand under the name after the power went is an export that was whole and synced
before it was renamed.

**Queries_proofs.** A query is an operator over maps, so the proofs are about two states of `Engine`, or
two ways to read one state.

- `PastAnswersAreSettled`: `PastInv` says what a running mutation has added to the rollback copy: records and
  revisions stamped no earlier than its transaction time. `SamePast` puts in words what two states
  have in common then, seen from an earlier cut: versions of facts and entities, episodes, sources
  and the revisions a timeline tells. Each answer is shown to read nothing else, whatever the request.
- `PagesOfThePast` carries that over many steps: `PagesInv` says that what was read so far is a prefix of an
  answer that stays the same. It needs finite maps (`FiniteInv`), for an answer to be a sequence at
  all, and a clock that is never set back: a cut that was past must stay past.
- `OneMomentAnswers`: `FetchInv` is about the client between the two locks.
- `IndexFindsTheSame` compares the canonical entities of a fact's endpoints with the facts stored against
  any entity that leads to the same one; chains are unfolded as in `Duplicates_proofs`.
- `NeighborhoodsConnect` is about breadth-first search: each ring is within one edge of the last, a node is
  kept only if everything nearer is, so a kept node has a path of kept nodes to an anchor.
- `RoutesAgree` compares code that filters records one by one with code that collects them. `PlacesInv` says
  that whatever a record refers to is stored, in the record's space, and that no version of an
  entity leaves its space, which makes the checks that one route omits redundant; `LinksInv`, that
  a fact names its successor or its predecessor once and for good, so that the successor's link and
  the predecessor's agree at every cut.
- `TimelinesTellLifecycles`: the other half of `LinksInv` (`TransitionsAreLogged`) says that a fact leaves
  the active state in one revision for each status, superseded before retracted, later than all
  that was logged of it before, and that a supersession bears the instant of its successor's creation.
  `EventsTold` turns `lifecycleEvents`, which groups, scans and fills gaps, into that list of departures;
  `TimelineOrders` shows that the comparison is a strict order, ties included; `SortedLists` and
  `ListsAgree`, that sorting a finite set by such an order gives its one sorted list, so the events of
  a fact can be read off. A creation may stand anywhere among them, at the time its caller gave, or
  be hidden: `CreationTold` finds it once, on the right side of every transition, and `SuccessorTold`
  shows that the supersession stands where the successor was written, where the successor's own
  creation stands too if no caller dated it. The hypothesis is that a timeline request sets nothing but a cut and a space,
  as those of the run do: a filter may show a fact and hide its successor, or an event of one kind, and
  then there is nothing to compare.

### Checked by TLC only

`CallsAreAnswered` and `InterruptedDaemonExits` are liveness under fairness, which stays with TLC, as
would anything that needs ENABLED. Every other property that a passing run checks is a theorem.

## Findings

- `CommitLegacy`: a database older than the revision log, migrated to Rhiza as it is, is seeded in
  memory on every open. The first save must carry every seeded revision; above the native limit
  every mutation is refused, and Close fails, for ever.
- `OpenRace`: an ordinary writable open shares the ownership lock, although the comment above
  `acquireOpenOwnership` rests on it being exclusive. Two processes that create one absent path with
  different drivers both succeed; afterwards every open refuses the path.
- `RestoreRetry`: the driver marker is created and then written. A process that ends in between
  leaves an empty one, and the retry that the documentation prescribes is refused for ever.

### Observations without a run

- `engine.go:612`: a retirement is carried past the clock by `strictlyAfterTxTime` while a later
  assertion is stamped with the clock itself. On a clock that reads one instant twice, a cut between
  the two shows two active values of a cardinality-one slot. `SlotHoldsAtEveryCut` says that no other
  cut does.
- `fact_cmd.go:774`: `entity merge` compares each source with the target, not the sources with each other.
  Sources with different stable keys can be merged into a target without one, although a
  conflicting key "still proves distinct identity" elsewhere (`merge.go:424`). Compaction groups by
  complete identity; `MergesGatherWhatBelongsTogether` therefore asks it of compaction only. What callers
  had marked as duplicates of the entities it groups, whatever their keys, reads as one with them
  afterwards.
- `engine.go:394`: an entity that was ever updated carries the engine's own log in its metadata. Merge and
  compaction write participants back with the metadata they read (`fact_cmd.go:814`,
  `admin_cmd.go:248`), which the engine refuses, so such entities cannot be merged or compacted.
  Modelled by `BatchAccepted` and `CompactionRefused`.
- `history.go:56`: a duplicate mark that is present but blank does not end a chain: whatever
  leads there reads as itself. An entity with a blank mark passes the checks of `entity merge` as a
  target; what is merged into it then reads as itself, and lookups of the target no longer find its
  facts. A merge that lengthens a chain past the 64 hops has the same effect. The property excepts
  both (`FailsClosed`).
- `search.go:92`: anchors of a search drop hits that do not touch them, where `docs/05-api/query-api.md:237` reads as
  if they only raised the rank.

## Not modelled

- `Engine`: payload validation, aliases and the derivation of ids (the latter two are in
  `Duplicates`); history kept in metadata by databases older than the revision log; their seeding,
  except as a first save in `CommitPath`. Entity updates under a clock that is set back are outside
  `LiveEntityIsLatestVersion`: their stamps are not carried forward, and nothing promises they are.
- `CommitPath`: read-only opens, the in-memory store, the metadata row that rides in each delta, the
  Lattice store's Save (in `Store`; it has no unknown outcome).
- `Ownership`: spellings of a path and symbolic links, read-only directories, regular and foreign
  files at a path, other application-state versions (in `Store`), platforms without Rhiza or flock,
  the in-memory store.
- `Store`: native transactions are atomic, `Checkpoint`, the sequence row and the native property index
  are left out, and so is the branch of a save that deletes nodes: the engine never deletes a record.
- `Queries`: scores, ranking, tokens and score thresholds, group ids, source kinds, lists of node and
  edge types. Pages of the present may skip or repeat a record when others write in between;
  nothing is claimed of them.
- `Duplicates`: how a name becomes a slug or a fingerprint is a table; drift summaries and the
  timestamps of marks are dropped.
- `Service`: decoding, authorisation, origin checks, the OpenAPI document; episodes, entities and
  queries, which pass one engine call each; 200 is not told from 201. A retry of an assertion that
  names no id may store it twice: `docs/05-api/service-api.md:38` leaves retries to ids that callers
  name.
- `Artifacts`: `admin import` decodes a file and passes it to one `IngestBatch`; `admin checkpoint` calls
  the native engine; the projection's own metadata. Exports are modelled for platforms on which a
  rename replaces a file and a directory can be synced.
- CLI front end, policy files, retrieval text, redaction, cloning and OpenAPI text are stateless parsing
  and formatting.

## Plan

Done, in this order: `Engine` with its proofs; `CommitPath`, `AtomicStore`, its invariant and its
refinement; `Ownership` and its proofs; `Duplicates`; `Queries` over `Engine`; `Store` and
`Service` with their proofs; `Artifacts`; lineage, causality and the slot of `Engine` for every value
of the constants; the theorems about `Duplicates`, `Artifacts` and `Queries`. Left:

1. An abstract specification of a path (no database, a complete one, or refused) that `Ownership`
   implements.
2. `Service` composed with `Engine` and `CommitPath`, in place of its reduced engine.
