# Verification of zpq

zpq is a Parquet query engine: a command line tool, an AWS Lambda handler and a C library (`libzpq`) with a Python binding
over one engine, and beside it the programs that serve, spread and measure it. This directory holds TLA+ models of its
concurrent parts and of the algorithms its tools rest on, the TLC configurations that check them on small instances, and TLAPS
proofs for every instance. Paths are relative to the repository's root.

## Inventory

A query goes through these parts. The front ends (`src/cli`, `src/lambda`, `src/service`, `src/libzpq`) parse a request
and call the engine. The engine (`src/engine`) reads the footers, plans, and hands *inputs* to the scan. The scan
(`src/core/scan`) runs workers, each claiming work items (parts of row groups) from a shared cursor. The bytes of a row
group come from a mapping, from the *local reader* or from the *S3 window*. Memory is drawn from budgets. The workers'
threads come from the *spawn pool*. A Python process holds a libzpq *context* (`python/zpq.py`), alone or behind the HTTP
*service* (`python/zpq_service.py`); one aggregate over many Lambdas is put together by the *coordinator*
(`tools/serverless/fanout.py`). The benchmark harness (`bench`) runs builds and rivals on quiet hosts and decides what a
release may claim; the tools (`tools/datagen`, `tools/check`) write Parquet fixtures and check the Parquet files zpq writes.

| Component | State | Operations | What is hard | What makes it correct |
|---|---|---|---|---|
| Local reader, `src/io/local_reader.zig` | the reads (units), a gate per row group and per file's probes, window counters, ledger charge, reference counts of segments | `planFile`, `probe`, `start`, `admit`, `unitDone`, `failAll`; the scan's `gateWait`, `gateDone`; `releasePruned`, `abandon`, `destroy` | reader threads against scan workers: admission, shared pages, failure, teardown and rerun | a worker never reads a page that is not there; memory keeps to the window; what was drawn comes back; the scan ends |
| S3 window, `src/io/s3_window.zig` | a state word per row group, window counters, the batch | `runErr` (admit, collect, dispatch), `landed`, `gateWait`, `gateDone`, `fail`, `stop` | fetcher, requests and scan decide together who gives a row group back | each charge comes back once; bytes in memory are charged; the scan ends |
| Spawn pool, `src/core/spawn.zig` | idle and all lists, a state word per thread, a count per region | `runTree`, `grow`, `start`, `boot`, `cancelSubtree`, `main`, `retainPool`, `releasePool` | spawns that fail inside a tree, a region that ends under its threads, closing | no thread outlives what it reads; lists hold the threads; callers return |
| Scan in blocks, `core/scan/worker.zig`, `block_merge.zig`, `core/consumer/budget.zig` | the blocks' cursor; `next`, `done`, the lock, `failed`, `failed_from`, `moved`; the decode budget's `used`, `released`, `waiters` | claim, `awaitTurn`, `finish`, `fail`, `failFrom`; `acquire`, `tryAcquire`, `release` | waits that a wake may miss; the order of merges against failures; a block that waits for memory others hold | tables merge in block order; few are alive; the budget is kept; the first failure is told; every worker ends |
| Contexts, `python/zpq.py`, `zpq_arrow.py`, `src/libzpq` | calls in flight, closing, the handle; the budget's queue and reservation; a reader's owner, producer and slot | `run_raw`, `open_reader`, a reader's `close`, `Zpq.close`; `Ctx.enter`/`leave`/`shutdown`, `Budget.acquire`/`release`/`close` | close against calls, readers and other closers | never freed under a call; freed once; FIFO within the ceiling; close ends |
| Service, `python/zpq_service.py` | connections, their threads, the server's state | accept, requests, `end_reads`, `server_close`, `stop` | stopping with idle and busy connections | stop ends, and turns no request away by itself |
| Coordinator, `tools/serverless/fanout.py` | capabilities remembered, calls in flight, the plan | negotiate, prepare, split, scatter, merge, finish, order | calls that fail or return in any order; an alias moved meanwhile; counts past a footer | the answer is the answer over every row group; inputs leave only after an acknowledgement; queries end |
| Quick A/B, `bench/quick.py` | timing lock, request, journal, `active.json`, report; the worker's rows; a directory shipped and fetched | `fleet`, `supervise`, `worker`, `execute`, `Run.command`, `recover`, `main` | a deadline, signals and kills at any step; a remote host behind ssh | a green report is earned; no timing before agreement; every run ends with a report and without processes |
| Checksum cache, `bench/quick.py` | entry per file identity | `InputHashes.verify` | a file that changes while it is read, several processes | verdicts are true |
| Lane, `bench/lane.py`, `__main__.py`, `spawn.py` | journal, records by key, round, process group | `Lane.run`, `attempt`, `finish`, `judge`, `write`; `--resume` | a host that disturbs; death between any two steps; remembered verdicts | journal right; an ended lane is final; it ends |
| Score, `bench/stalls.py`, `score.py` | none | `disturbed`, `quarantine`, `cells`, `ship_bar`, `score` | cohorts, rounds | the bar is met only by what it says |
| Export, `bench/export.py`, `requests.py` | loaded runs, the destination's files | `validate`, `load_run`, `engine_summary`, `make_export`, `export` | journals that grow; death while writing and a retry | one generation; complete, accepted and identical only as the records bear out |
| Parquet tools, `tools/datagen/parquet.py`, `corrupt.py`, `tools/check/readback.py`, `page_index.py` | none | read and write compact Thrift; walk footers; lay pages out anew; spoil a page; check page indexes; edit footers | offsets that move, encodings at their edges | rewrites keep the rest; the check is exact; readers and writer agree |
| Query ledger, `src/core/memory.zig` | `used`, `funded`, children | `draw`, `drawExact`, `force`, `release`, floors | children drawing past their floors at once | a root ledger is modelled, with the local reader |
| Multipart sink, publication, footer cache, print and write windows, S3 data wave | queues, turns, parts, files, slots | | lost wake-ups, order against failure, crashes | not modelled (below) |
| Planning, expressions, Parquet codec, writer, transport | none shared | pure functions, or I/O | | not modelled |

`PROJECT.json` lists every component with its status, and every hazard found with the line it bites at.

## Modules

| Module | Stands for | Used by |
|---|---|---|
| `LocalReaderLayout` | how planned ranges become reads, charges and segments (operators) | `MCLocalReaderLayout`, and `MCLocalReader` for its constants |
| `RowGroupWindow` | abstract: what a read-ahead window promises the scan | instanced by the next two |
| `LocalReader` | `local_reader.zig` under its threads, the scan's and the query's | `MCLocalReader`, `LocalReader_proofs` |
| `S3Window` | `s3_window.zig` with its requests and the scan | `MCS3Window`, `S3Window_proofs` |
| `SpawnPool` | `core/spawn.zig` | `MCSpawnPool`, `SpawnPool_proofs` |
| `BlockScan` | an ordered GROUP BY's workers: `worker.zig` over `block_merge.zig` and `budget.zig` | `MCBlockScan`, `BlockScan_proofs` |
| `ZpqContext` | `zpq.py`, `zpq_arrow.py` and the libzpq context and budget below them | `ZpqService`, `ZpqContext_proofs` |
| `ZpqService` | `zpq_service.py` composed with `ZpqContext` | `MCZpqService` |
| `Fanout` | `fanout.py` | `MCFanout`, `Fanout_proofs` |
| `InputHashes` | `InputHashes.verify` of `quick.py` | `BenchQuick`, `Bench_proofs` |
| `BenchQuick` | `quick.py`: coordinator, supervisor, worker, composed with `InputHashes` | `MCBenchQuick`, `Bench_proofs` |
| `BenchScore` | `stalls.py` and `score.py` (operators) | the next two |
| `BenchLane` | `lane.py`, `__main__.run`, `spawn.py`, composed with `BenchScore` | `MCBenchLane`, `Bench_proofs` |
| `BenchExport` | `export.py`, `requests.py`, composed with `BenchScore` | `MCBenchExport` (with `MCAlgorithms`), `Bench_proofs` |
| `CompactThrift` | the compact protocol: one writer, four readers (operators) | the next two and `MCParquetTools` |
| `ParquetFooter`, `FooterEdits` | a footer walked (`readback.py`); a footer rewritten (`parquet.py`) | `MCParquetTools` |
| `PageLayout` | pages laid out anew, one spoiled, indexes checked (`parquet.py`, `corrupt.py`, `page_index.py`) | `MCParquetTools` |
| `MCAlgorithms` | `MCLocalReaderLayout`, `MCParquetTools` and `MCBenchExport` in one run, each on inputs of its own | |
| `DataLemmas` | what a sum over a finite set is, and what a flattened sequence holds | every module of proofs |

In the concurrent modules an action is one access to shared state (an atomic operation, a section under a lock, a file written or
renamed, a signal), or several that no other actor can tell apart. A thread's program counter is a variable. A futex or
condition wait is the guard it waits for, except in `BlockScan` and of `Zpq._cond`, whose sleepers and wakes are modelled. Atomics are taken to be
sequentially consistent. An operator `D_X` is a mutant of `D`, a bug that could have been written there: for each property
`PROJECT.json` names one that TLC finds it to catch.

### LocalReaderLayout

`Coalesce`, `Blocks`, `Without`, `LayOut` and `Segments` follow `coalesce`, `addUnits`, the hole walk of `layOut`,
`layOut` and `planSegments`. The loops that append to lists are folds. `HeldRanges(file, rg)` are the ranges a row group
holds (its own coalesced, its probes taken in) and `OwnReads` what it reads itself, every probed page of the file left out.

### LocalReader

| Model | Code |
|---|---|
| `Claim`, `GiveUp`, `AdmitFree`, `AdmitCheck`, `AdmitTake`, `ReadUnit`, `UnitDone`, `OpenGate`, `ProbeDone` | `preadRun`, `admit`, `readUnit`, `unitDone` |
| `ReadFails`, `FailLook`, `FailStore` | `threadMain`'s catch, `failAll`, `failReady` |
| `WorkerClaim`, `WorkerWait`, `WorkerWaitProbe`, `WorkerScan`, `GateDone` | `workerRunErr`, `gateWait`, `gateDone` |
| `ReleasePages`, `ReleaseWindow`, `ReleaseLedger` | the three parts of `release` |
| `ReadDictionaries`, `ReleasePruned`, `EndScan`, `Abandon`, `EndRerun`, `Destroy` | the query's thread: `probeWait`, `releasePruned`, `abandon`, `destroy` |
| `OthersDraw` | the rest of the query on the same ledger |

A gate is a row group or a file's probes; `left` and `ready` range over both. `seg_refs` is kept per page rather than per
segment: `PagesComeAndGoOnce`, checked of the layout, says that this is the same. `Units`, `Holds`
and `Pruned` are constants; `MCLocalReader` assumes (and TLC evaluates) that `Units` and `Holds` are what `LayOut` makes of a plan.
`admit` is two actions: what it loads (`AdmitCheck` remembers `out`) and what it then stores; releases of workers fall
between. `drawExact` and the stores after it are one action: no other thread acts on them before `admit_next` moves.
The wake-ups themselves are left out: `waitRelease` sleeps a millisecond at most, and gates are waited for with the value
in the futex call.

### S3Window

| Model | Code |
|---|---|
| `FTop`, `FLook`, `FAdmit`, `FSized` | the admission loop of `runErr` |
| `FCollect`, `FReady`, `FDrop`, `FGive` | the collection loop, and `release` from it |
| `FDispatch`, `FAwait` | `fetchJobs` and the check after it |
| `FFail`, `FFailOne` | `fail` |
| `JobLands`, `JobFails`, `LandedDrop`, `LandedGive` | `fetchOneTask`, `landed`, and `release` from it |
| `WorkerClaim`, `WorkerWait`, `WorkerScan`, `WorkerProbe`, `GateDone`, `WorkerDrop`, `WorkerGive` | the scan at the gates |
| `Stop`, `Joined` | `stop` |

A part is what one request writes, or the bytes copied from the footer suffix. `returns` is a history variable. Which row
groups may be passed over unread is `Cuttable`: `print.zig` does so when `top.cutsOff(best)`, which depends on the rows met.
A print has one scan thread and an aggregate has many; the runs allow both at once, which is more than either does.

### SpawnPool

`runTree` is `Enter`, `TakeIdle`, `TakenAll`, `Grow`, `StartRoot`, `ListRoot`, `Leave`; a pooled thread is `StartKid`, `ListKid`,
`BootDone` (`boot`), `Look`, `Claim`, `JobDone`, `Park`, `Push` (`main`, `runOne`, `release`); `releasePool` is `ReleasePool`,
`TellExit`, `Join`, `Joined`. A slot is a piece of memory that may be used again once destroyed. The pool's last release may come before
the threads of regions that have ended are idle again, which the code does not exclude (finding 2): `closes` is a history variable that
remembers it, "early" from such a close and "reopened" once a context is opened on what it left. Left out: the fork check (`owner_pid`),
the `TreeNode` fallback for stacks larger than the pool's, regions nested in regions, and contexts that wait on one another.

### BlockScan

| Model | Code |
|---|---|
| `ClaimBlock`, `TakeItem` | `workerRunErr`: a block from the cursor, its items in order |
| `SeeMoved`, `SeeFailed`, `SeeNext`, `SleepForTurn` | `BlockMerge.awaitTurn`, one action for each load |
| `TryFirst`, `Enlist`, `SeeReleased`, `TryAgain`, `SleepForRoom`, `Delist` | `DecodeBudget.acquire`, `tryAcquire` |
| `Decode`, then `Give`, `Bump`, `Rouse` | the scan of a row group (`scanRGForAggImpl`), with its optional scratch, and `DecodeBudget.release` |
| `StoreDone`, `Lock`, `MergeNext`, `TellMoved`, `NothingReady`, `MergeRefused` | `BlockMerge.finish` |
| `FailFrom`, `StoreFailed`, `TellFailed` | `workerRun`'s catch, `fail`, `failFrom` |

Here a futex wait is not its guard: a worker is asleep on a word (`asleep`, `dozing`) until another wakes it, and it goes to sleep only
if the word still holds what it read, so that a wake-up lost is a state the model can be in. An item is what it asks of the budget
(`needs`: nothing when it is skipped or answered by statistics, two amounts when a whole decode gives way to one in slices), its
scratch, and whether its decode fails. A table is its block's number. The query's ledger may refuse any decode and any merge
(`CanRefuse`). Left out: the last release of a decode in slices, which returns nothing, and pruning, which makes an item one of no need.

### ZpqContext and ZpqService

| Model | Code |
|---|---|
| `Call`, `Return`, `FailOpen` | `Zpq.run_raw`, `open_reader`: counting in and out under `_cond` |
| `Enter`, `EnterArrow`, `Leave` | `Ctx.enter`, `leave` around `zpq_run`, `zpq_run_arrow` |
| `Acquire`, `Grant`, `Refused`, `TimeOut`, `EndQuery` | `Budget.acquire`, `release` |
| `Produce`, `Push`, `PushCancelled`, `Imported`, `ImportFailed`, `Pull` | `arrow.zig`'s `batchFn`, `getSchema`; `read_next_batch` |
| `CloseReader`, `JoinProducer` | `ArrowReader.close`: the owner taken, the producer joined, the call counted out |
| `BeginClose`, `RefuseCalls`, `CloseBudget`, `Check`, `Wake`, `Free` | `Zpq.close`: `zpq_shutdown` under `_cond`, the wait, `zpq_close` outside it |
| `Accept`, `ReadQuery`, `AnswerOther`, `EndOfInput`, `RunQuery`, `Reply` | `process_request`, `do_POST`, `do_GET`, `_refuse`, `shutdown_request` |
| `ServeReturns`, `EndReads`, `JoinThreads`, then `BeginClose(Main)` | `stop` |

`ZpqService` EXTENDS `ZpqContext`: a handler's thread is one of the callers. `owner, self._owner = self._owner, None` is one step
(the interpreter's lock). What a client had sent before its connection was cut can still be read (`buffered`), which is any subset.

### Fanout

`Begin`, `Negotiate`, `Scatter`, `Gather` are `run` between its calls; `Invoke`, `Return` and `Raise` one invocation, in any order;
`Deploy` moves an alias. `Split`, `Merge`, `Folded`, `Finished`, `Ordered` are `split`, `merge`, `fold`, `finish`, `order`, over the
aggregates a request asks for (`asked`) and no others. A value is a number, NULL or a text: how often "NaN" is written in it, which is how JSON
gives it to the merge. The infinities, texts as well, are left out. `Precision` is the decimal context's.
The worker (`Reply`: whether it knows plans, what it prepares, what partials it returns) is external, as is which version a
function names. The reference of `AnswerIsWhole` is one worker over every row group.

### BenchQuick and InputHashes

The coordinator is `Load` ... `FleetReturns` on the host itself, and `OnHost`, `AtHome`, `Probe`, `StartRemote`, `SshReturns`, `Fetch` for a
remote one; `MainRecover` is `main`'s except. The supervisor is `Supervise`, `Collect`, `Timeout`, `LookForActive`, `Sweep`, `Kill`,
`Recover`. The worker is the list in `Worker`, in the order of `quick.worker` and `execute`; `Fork`, `Assign`, `SaveActive`, `Poll`,
`Drain`, `Unlink` are `Run.command`, `Journal` and `WriteRow` the two halves of `Run.journal`, between which a signal may come. An exception
goes where Python's finally and except take it (`Unwound`); `TakeTerm` is the handler of SIGTERM raising wherever the worker is. Elapsed
time is one event, `Expire`. The outcomes of what is not modelled (an idle host, a build's version, a validator, ssh, rsync) are choices.
Each `Hashers` of `InputHashes` is a process in `verify`; `setup` and `worker` are the run's own. A version's identity is its number: every
change is taken to show in size, mtime or inode. On a remote host each command or transfer under its lock is one step but for `Probe`, one
transfer stands for several, and there is one input. `struck` records that the worker was stopped between the fork of a command and
`active.json`.

### BenchLane, BenchScore, BenchExport

`Start`, `NextAttempt`, `Condition`, `Spawn`, `Reap`, `SweepGroup`, `Finish`, `Judge`, `Write`, `Sync`, `RejectAgain`, `EndRound` are one
lane; `Crash` is its death (or the spawner's, or the comparer's), `Repin` a binary or input changed between two runs. An engine that runs
when its lane dies runs on, in a process group of its own: `left` are these groups. A spawner that outlived the lane waits for the engine,
kills it past its time and sweeps its group (`LeftEnds`, `LeftSwept`); one killed with the lane does nothing more. (Ctrl-C reaches the lane
and the spawner, and not the engine. A lane resumed meanwhile is not kept out: `env.timing_lock` is a lock of the lane's.) A child of the
engine is in its group or, daemonized, in a session of its own, which no kill reaches (`Beyond`). `Order` is the order of a round. A host's
condition, warming and pinning are one good or bad choice, `JudgeSays` is the comparer. `BenchScore` gives `Disturbed`, `Quarantined`,
`Cell`, `Verdict`, `ShipBar` over a journal; `BenchExport` uses the same. In `BenchExport` `Grow` adds a record as a harness would: a lane's
turns are warm-ups and repetitions of every planned case and engine, round after round of what the round before found disturbed, or whole
sessions, which a killed lane writes again from their first repetition (`NativeNext`). `HashJournal` and `ReadJournal` are the two reads of
a journal, `Make` is `make_export`, `CheckPackage`, `OpenFile`, `FillFile`, `FinishExport` are `export`, `Again` a retry after its death. A
file is what it says.

### The Parquet tools

Bytes are numbers below 256 and a struct is a sequence of fields. `CompactThrift` has `WriteValue` and the four readers `Value`
(`parquet.py`), `Skip` (`readback.py`), `CompactEnd` (`page_index.py`), `Spans` (`corrupt.py`). `PageLayout` abstracts a page to its place,
sizes, counts and values; lists and lengths that a footer may leave out are there or not. New headers move every place and size the tool
writes; a row group's own `total_compressed_size` and `file_offset` it leaves as they were (`parquet.py:397-402`), and `ToolsAgree` says so.
Its modules are recursive and hold no theorem.

## Runs

| Run | Shows | Bounds |
|---|---|---|
| `algorithms` | `PagesComeAndGoOnce`: every plan is cut into reads that bring each needed page once, charged as read, with segments that go with their last holder. `CheckIsExact`: the page index check passes a file exactly when its pages lie where the footer says and its index, as far as it speaks, says of each what its values are. `ToolsAgree`: one writer, four readers, the same fields, and new headers, a spoiled page or an edited footer leave the rest as it was. `OneGeneration`, `CellsAreBorneOut`: a destination holds one generation of an export, a complete cell is what the scorer says and is not held back, and its accepted attempts bear it out | plans of one file of 9 bytes, pages of 2, blocks of 4, gap 2 (a gap of 2 is read across, one of 4 is not), 2 row groups, at most 3 ranges or probes: ranges that touch, overlap, nest, leave a gap, cross the file's end or share a page. Five files with every kind of page, each number in them changed by one or left out, each rewriting of headers; structs at the encoding's edges (field steps 15 and 16, lists of 14 to 16, numbers of one byte and two); footers and filter headers with and without each field, a filter cut short. 16 requests of an export, of which 7 are refused or ambiguous: a case disturbed in all three rounds (quarantined), one disturbed and run again, warm-ups beside timed repetitions, two cases of which one runs again, a session written twice, a legacy run, two lanes with the same case; a journal that grows by one record; an export that dies and is run again |
| `local_faults` | the reader keeps to `RowGroupWindow` (`ImplementsWindow`), pages are in memory while held, and only then but for a probe's, accounts balance (`AccountsBalance`), the window is kept (`WindowBound`) | 2 reader threads, 2 workers, 4 row groups of charges 2, 2, 0 and 5: the first two share a page, the third is pruned but probed, the last takes two reads and a probe and is bigger than the window, so it waits for both; window 4, ledger 7, of which the rest of the query may hold 4 (the last is then forced in). Reads fail, workers end early, reruns follow |
| `local_live` | `ScanEnds`, whatever fails | 2 files, 3 row groups of 2 work items, window 1 (every row group is too big), ledger 2, of which the rest of the query may hold 1 for good |
| `s3_window` | the fetcher keeps to `RowGroupWindow`; bytes are in memory before use and charged meanwhile; `ScanEndsUnlessLeaked` | 2 scan threads; row groups of two requests, one and a copied suffix, a suffix alone, and one bigger than the window; any but the first may be dropped; requests fail |
| `s3_window_hang` | finding 1 | one thread, no failures, only row group 2 may be dropped |
| `spawn_pool` | a region outlives its threads and the lists hold the threads, whether closes are early or not, until one is reopened; with quiet closes every caller and every close returns | 2 contexts on one pool: a region of 2, and two of 1; 3 slots, so that memory is used again; any start may fail |
| `spawn_pool_close` | finding 2 | one context, one thread |
| `block_scan` | tables merge in order (`MergedInOrder`) and at most `ahead` are alive (`FewTables`), the decode budget is what the workers hold (`DecodeKept`), no later failure hides an earlier one (`FirstFailureTold`), every worker ends (`WorkersEnd`) | 3 workers, 4 blocks of which one holds two items, budget 3: items that ask for 2 and then 1, for 2 and a scratch of 1 before failing, for nothing, and for 4, more than there is; any decode and any merge may be refused memory |
| `service` | no call outlives the context, which is closed once; the budget's reservation is what runs (`BudgetKept`) and queries start in order; `close` and `stop` end | one connection, one more caller, one Arrow reader closed by its user, its iterator, or both, two closers; ceiling 1, budgets 1 and 2 (the second is refused), one batch, so that the slot is both free and full |
| `fanout` | the answer is the answer over every row group; inputs go out only after the function acknowledged plans; queries end | 21 kinds of request (split, pattern, counts short and past, an old version, an alias, schemas that differ, ordered and limited; one NaN, or two that meet in a sum, an average, an extreme or an order), with all five aggregates or some, 6 inputs, 2 queries so that a remembered capability is used, 2 moves of an alias |
| `quick` | a green report is earned, no timing precedes agreement, a run ends reported (with the rows of memory in its journal, or one less where it was stopped), verdicts are true, the coordinator ends | 7 configurations (below), each with the timing lock free and held; a file that changes once; failures, signals and the deadline at every step |
| `lane` | the journal holds, what ended is final, the ship bar is sound, the lane and what a dead one left to its spawner end | 8 setups of zpq against DuckDB with up to 5 cases and 2 repetitions, 3 rounds (the code's own number), one crash, a bounded amount of trouble per setup; with five cases one may be behind, and the limit of one and a half is what decides |

The configurations of `quick` are: a JSON pair twice with rivals behind it, a slow Parquet pair with a declared difference, a refusal of
the candidate alone on a shared input, the same with a Parquet output on a remote host, and one of each thing that `load` or `supervise` refuses.

Why this is enough. Two threads of each kind let each pair that shares a word interleave in every way, and the admission,
ownership and lock rules are between two parties. Sizes are those at which each comparison in the code has both outcomes and
equality. One crash and one retry reach every prefix of what is written; a second starts from a state the first leaves. Symmetry
(threads that may be interchanged) is used only in `local_faults`, which has no liveness. Bounds of the models and not of the code are
`Draws`, `NumSlots`, `Opens`, `Regions`, `MaxBatches`, `MaxQueries`, `MaxDeploys`, `MaxVersion`, `MaxCrashes`, `trouble`, `Most`, `MaxGrowth`
and `MaxExports`.

Deadlock is checked but in `algorithms` (what is looked at has no further step, an export may have nothing more to do), `fanout` (a process
may have nothing more to do), `spawn_pool` and `spawn_pool_close` (where the program does stop: finding 2).

### Fairness

- Engine (`local_live`, `s3_window`, `spawn_pool`, `block_scan`): weak fairness of each thread's next step. The system schedules its threads, and every
  loop that waits sleeps on a futex with the value it waits for, or polls within a millisecond. A request ends, if only by its
  timeout. Nothing is assumed of `OthersDraw`, of a failure, or of a worker that ends early. In `SpawnPool` a context's
  job ends, and nobody has to open a context; a thread there has one next step, so its fairness hides no choice. In `BlockScan` a
  sleeper is not woken by fairness: someone must have told it.
- `s3_window` states `ScanEndsUnlessLeaked`, with `[]~Leaked` as a hypothesis: what is left once the leak of finding 1 is put aside.
- `service`: each caller, closer, handler and the stopping thread goes on; a reader's user closes it in the end, as its
  contract asks; a client whose connection was cut sends no more. No client is assumed to send or to hang up.
- `fanout`: `Progress`, the coordinator and the calls in flight: the client's `read_timeout` gives every invocation back.
- `quick`: the coordinator, the supervisor and the deadline. Nothing of the worker, of the commands it measures or of other
  processes: they may hang, and the coordinator ends.
- `lane`: the lane, one that died being resumed; and a spawner that outlived its lane. Nothing of an engine whose spawner died too.

## Proofs

TLAPS checks these for every value of the constants, from the assumptions named in the modules.

`LocalReader_proofs`, about `LocalReader`'s `Spec`:

- `TypeCorrect`: `[]TypeOK`, action by action. That a reader's unit exists and that a worker's row group exists is part of it; without it
  `Units[unit[r]]` means nothing.
- `AdmitsOneAtATime`: `[]OneAdmitter`, what the comment of `Reader.admit` claims: the check and the charge are one reservation. It has no
  run of its own.
- `KeepsWindow`: `[]WindowBound`: past the window, the bytes outstanding are no more than the last row group's own.
- `BooksBalance`: `[]AccountsBalance`: the window's counters and the ledger's charge are the sums of what the row groups outstanding
  charge, one of them at most is drawn past the ledger's limit, and what was taken comes back.

`OneAdmitter` is not inductive: that two threads are not both past the check follows from each holding the unit of the ticket
`admit_next` (`InTurn`), a ticket having one such unit (`TicketAssumption`) and a unit being claimed by one thread (`UnitsClaimedOnce`).
`InTurn` also keeps what the check saw, `out >= submitted - released`: other threads only release in between. With it `AdmitTake` keeps
`WindowBound`; this is `AdmissionInv`. `AccountsInv` adds what the books take: a row group is given back by one worker, and not before its
charge, because no unit is read before its row group is admitted and no gate opens before its units are counted off. The accounts
are sums over the row groups outstanding (`DataLemmas`).

- `KeepsToTheWindow` (`ImplementsWindow`): the reader refines `RowGroupWindow`. `AdmitTake` is its `Admit` (in ticket order, which is plan
  order), the last `UnitDone` of a row group its `Arrive`, `ReleaseWindow` its `Return`, everything else a stutter.
- `PagesStayWhileHeld` (`InMemoryWhileHeld`): who is past a gate finds its pages, and a page without holders is not in memory, unless a
  probe reads it: a probe may land after its row group, pruned, was done with, and what it read stays until the reader goes.

`GateInv` says that a gate counts at least its unread units (`CountsUnread`: claimed or not, a unit is counted until it is read),
so that one counted down to nothing has them all (`CountedDown`). It is an inequality because a failure leaves units counted
that nobody will read. `MemoryInv` adds that a row group's items are claimed and done once each (`ItemsOnce`), so that none is given
back under a scan, that a page's count is the number of its holders (`HoldersCounted`), and that none stays without (`NoneStays`).

What `LocalReader` assumes of its constants is what `layOut` makes of a plan: a ticket has one first unit (`TicketAssumption`), row groups
with reads are scanned and take their tickets in order (`RowGroupAssumption`), a row group holds the pages of its own reads and of its file's
probes (`HoldAssumption`). TLC evaluates all three on the layouts the runs use, which it also checks to be what `LayOut` makes.

`S3Window_proofs`, about `S3Window`'s `Spec`, for any row groups, requests, window, batch, number of threads and cuts:

- `WindowTypes`: `[]TypeOK`.
- `BytesAreThere` (`BytesBeforeUse`) and `ChargesComeBack` (`ChargedWhileResident`).
- `S3KeepsToTheWindow` (`ImplementsWindow`): it refines `RowGroupWindow` as well. `FAdmit` is `Admit`; a last request that lands, or a row group
  copied whole, is `Arrive`; a `GateDone` that drops is `Skip`; whoever gives back is `Return`.

The one invariant behind all four is `WindowInv`. From the `Frontier` on, the first row group no batch has taken up, row groups are
empty and not ready (`InPlanOrder`). A batch's row groups wait for all their requests until these are sent, and a request in flight has not landed
(`RequestsPending`), so one request of a row group is the last and finds the others in. Three may give a row group back, and no two of them can
hold it at once: the fetcher one that was dropped and has no requests (`FetcherHolds`), its last request one that was dropped and has
(`RequestHolds`), the last item's thread one that is in (`WorkerHolds`). Items are claimed and done once each (`ItemsOnce`), so a row group that
is in stays in until its last item is done (`KeptIn`). `Counted` is the books. Row groups lost to finding 1 stay in the sum, which is
why the accounts hold in spite of it. TLC checked each part on the run's instance, and with one and two items per row group, before its proof.

`BlockScan_proofs`, about `BlockScan`'s `Spec`, from `ScanAssumption` (blocks cut the items in order, `ahead` is at least one, the workers
are finite):

- `MergesInOrder` (`MergedInOrder`), `KeepsFewTables` (`FewTables`), `TellsFirstFailure` (`FirstFailureTold`), for any number of workers, blocks
  and items, from `KeepsScanInv`. A block is one worker's (`Owned`), and whoever merges holds the lock and `next` (`OneMerger`), so the
  merged table grows by `next` alone; what is started was near `next` when it started, and `next` only grows (`Turned`).
- The first failure takes the rest. What a worker leaves behind it in its block was good (`InPlace`, `DoneGood`), so a bad item's block is
  never done. `failed_from` is some worker's failure (`Told`). Every block claimed is done, in work, failed, or given up at or past
  `failed_from`; a worker is over for no other reason (`Accounted`). Once all are over, a bad item was therefore failed at or before,
  in its own block or an earlier one. With no failure every block is done, and nothing done waits unmerged without someone to
  merge it (`Drained`), so all are merged.

- `KeepsDecodeBudget` (`DecodeKept`): what is in use of the budget is the sum over the workers of what they hold, scratch included, and
  is never past it. `DecodeInv` says what each holds at each step (`Holding`): a first or a second need, a scratch beside it, or what it
  has still to give back. The sum is moved one worker at a time.

`SpawnPool_proofs`, about `SpawnPool`'s `Spec`, for any contexts, sizes of regions and slots, whichever threads fail to start:

- `RegionsAreOutlived` (`RegionOutlivesItsThreads`) and `ListsAreWhole` (`ListsHoldTheThreads`), both from `ClosesAlways` and with no assumption on when a
  close comes. After an early one (finding 2) regions are still outlived, every thread is still on the list of who joins it, and the idle
  list has nobody twice; that all on it sleep is said of quiet closes only. Of a pool opened again on what an early close left nothing is said: its
  idle list may hold threads whose memory was freed.

`ClosesInv` is `PoolInv` while every close was quiet and `EarlyInv` after an early one: no context is open, no caller in a region, and each
live thread is on its way to its list and on that of someone who joins it. `PoolInv` has three parts. The count (`Counted`): what is pending
is what the caller has yet to hand out and what threads hold, and no more jobs are left to claim than contexts, so `next` stays within
`ctxs`. The tree (`TreeInv`): every slot of `fresh` not yet started is below one thread that will start or cancel it (`KidsMade`,
`LeftApart`), so that a cancelled subtree is made up of jobs still out, each counted off once; this rests on what the subtrees of a heap are
(`SubtreeParts`: a place and its two children's subtrees, apart; `WholeTree`). And the lists: a thread is on `Pool.all`, on the list of one
that joins, or about to be put on `all` by who started it, on one of these and by one only (`ListedOnce`, `OneLister`); a thread is idle or
told to exit while it is joined (`JoinsSleep`); and `holders` is the number of contexts open (`HeldOpen`), so the last to close is alone and
nothing is about to be listed. `CallerKnows` is what lets a caller that got no thread leave without waiting.

`ZpqContext_proofs`, about `ContextSpec`, from `ContextAssumption` (the kinds of threads are finite and apart):

- `NeverFreedUnderACall` (`NoCallOutlivesContext`) and `ClosedOnce` (`OneCloseEver`), from `ContextInv = CallTypes /\ Counted /\ OneFinisher /\
  TakenWhenIdle`. `inflight` is the number of threads and readers that hold the context (`Counted`); a reader is counted out by the one
  finisher that took its owner (`OneFinisher`), and only so does the count not fall twice; the context is taken only when the count is zero and
  closing has begun, after which no call comes in (`TakenWhenIdle`). The service's steps are steps of `ContextNext` or
  leave it alone; in composition both are model-checked, in `service`.

- `ReservedIsWhatRuns` (`BudgetKept`) and `GrantsInOrder` (`StartsInOrder`, an action property), from `BudgetInv`: what is reserved is the sum
  of what the queries that run asked for; a thread is queued once, and only while it waits (`Queued`).

`Bench_proofs`, about `InputHashes`' `HashSpec` and `BenchQuick`'s `Spec`, for every set of configurations:

- `CacheTellsTheTruth` (`VerdictsAreTrue`), of `HashSpec`, from `HashInv`: the types, that the entry's sum is its version's, and that a process that
  reads has, as long as the file has not moved since, read blocks of the version it saw (`HasherInv`). An entry is published only
  after a second look at the identity, so this needs no lock.
- `RunsOnTrueVerdicts`: the same of a whole run: each step of `Next` is a step of `HashNext` or leaves its variables alone.
- `RunsAreReported` (`RunEndsReported`): a run that ends leaves a report, no worker, no native command that it could name, and a journal
  with the rows of memory, or all but the last, where the watchdog's signal came between the two halves of `Run.journal`, and then a report that
  is neither complete nor flagged; a supervisor that raises on a remote host is the exception. `QuickInv` is what this takes: before a
  supervisor is asked for there is no process (`CoordinatorBegins`); the signal comes from the watchdog alone, and a worker that took
  it only winds up (`WindsUp`); a native command that runs is about to be named, or is named by memory and by `active.json`, unless the
  worker was stopped before it could say so (`Findable`); past its look at `active.json` the watchdog has nothing left to find (`Swept`);
  it is over only with a report (`Reported`); and journal and memory have the same rows but for the one being written (`Journalled`).
- `CompleteIsEarnedAlways` (`CompleteIsEarned`) and `TimedAfterAgreement` (`TimingAfterAgreement`): what a run reports and when it may time,
  for any cases, refusals, outputs, validators, mayDiffer pairs and repetitions, whatever commands answer and wherever the run is stopped or
  killed. Both rest on `PlanIs`, about the plan that `Plan` makes of a configuration: two probes, then every repetition of every case by
  every build of the case once, in whole pairs of which only the second is `last`, the first answers before anything timed, and the rivals
  after all of it. The pairs are flattened lists of lists, so this is proved with `DataLemmas`' `Flattened`. `EarnedInv` then has, of a
  worker and its rows: it begins with a valid configuration (`Begun`) and its request saved (`Requested`); it is at a step of the plan, and
  past the end only when it certifies or has completed (`OnPlan`); what its commands gave so far is as the case declares (`Ready`); row `n`
  is the plan's attempt `n`, ok, and where a pair is closed its two builds agree with each other and with their first answers (`RowsAre`,
  `Agreed`); the hash pass is noted once its last pair agreed (`HashedIs`); and a report on disk or at home is already earned
  (`EarnedReports`). `Agreed` is needed for every closed pair and not only the last, because a signal may stop the run at any point and what
  is selected then is of rows long written. `RowsAre` without `OnPlan` is not inductive: a row is put where the worker is, and only the plan
  says that this is the next.

The same module, about `BenchLane`'s `LaneSpec`, from `LaneAssumption` (at least one round, times are numbers,
a setup has lists of cases and engines), for any setups, engines, replies, outputs, number of rounds, crashes and amount of trouble:

- `LaneJournalHolds` (`JournalHolds`), `LaneEndedIsFinal` (`EndedIsFinal`), `LaneBarIsSound` (`BarIsSound`), from `LaneInv`. What memory has
  is what is loaded of the journal's certain lines (`InMemory`), and each line says of its answer what the judge does (`AllTruthful`). A record is of a
  case of its round, and the rounds before a record's are whole (`Rounds`): this is what a resumed lane finds again, so a round ends only when
  `Order`, a flattened list of sessions and repetitions, has nothing left that memory lacks. What is attempted is of the round and
  not yet there (`AtWork`), so only a session writes a key twice (`OnceEach`). At the end every cell's last round is then whole, which gives finality
  (of the result; of the processes it says what the code sweeps, the group of each attempt of this lane, see `left`). `BarIsSound` restates the bar
  over the records in memory: a median is a sum of two times that no more than half of the checked repetitions lie before, or after
  (`Halfway`), and zpq's are compared with each rival's whose repetitions are all right and written once; a rival without is beaten and limits nothing.

And about `BenchExport`'s `ExportSpec`, from `ExportAssumption` (a run has a positive number of repetitions, a request's runs are a sequence
of saved ones), for any requests, saved runs, journals and number of exports:

- `DestinationIsOneGeneration` (`OneGeneration`), from `Generations`. A package is checked whole before anything is opened; while it is written
  each file is absent or its own, but for the one still open. Whole files therefore tell one story (`OneStory`). They still do when the
  writer is dead and its package forgotten, and a later export writes beside them only if they are its own to the byte.
- `CellsAreBorneOutAlways` (`CellsAreBorneOut`), from `ExportTrue`: a journal has records as the harnesses write them (`JournalsTrue`), what is loaded
  is such a journal of a run the request may name (`LoadedTrue`), and a package is made of what is loaded and was not refused
  (`Made`). A case has then one run that measured it (`Measures`); its complete engines are what the scorer calls a median (`ScoredIs`), and the
  attempts audited as accepted are its good ones (`AcceptedIs`), each repetition once (`RepsAreAll`). The theorem is about journals of any cases,
  engines, rounds, warm-ups and sessions, with any number of records that went wrong (`MaxOdd`). An attempt counts for the case of its own
  lane: without the lane the property is false when a case is in two, and the request with two lanes would refute it.

`Fanout_proofs`, about `Fanout`'s `Spec`, from `FunctionsAssumption` (published versions are functions, inputs stand for files), for any
functions, versions, tables and requests, however often aliases move:

- `InputsWait` (`InputsAfterAcknowledgement`), from `FanoutInv`: a published version is what it was and only such are remembered, and
  remembered only as knowing plans (`Remembers`); a call carries inputs only if what it may reach does (`Calls`); a query is past
  negotiation only then (`Stage`).
- `OneSchema`: a query is answered only over inputs of one schema, whether they went out whole, split, or expanded from a pattern. It has no run of
  its own.

`DataLemmas` has the sums and the flattened sequences. Both are recursive functions of the library, and what they come to is proved by the least
counterexample on cardinality or length (`LeastNat`), not with the library's induction theorems, which take an operator.

Only model-checked: liveness; the rows of `Fanout`'s answer (`AnswerIsWhole`: folds over data, rounded past `Precision`); and the algorithms
on data of `algorithms` (`PagesComeAndGoOnce`, `CheckIsExact`, `ToolsAgree`). Out of the prover's reach are liveness under fairness,
ENABLED, and induction over data, which is what the layout's folds and the recursive operators of `CompactThrift`, `ParquetFooter`,
`PageLayout` and `FooterEdits` would take.

## Findings

1. `src/src/io/s3_window.zig:202`, run `s3_window_hang`. A row group admitted to the window and then dropped by the scan before its batch is
   collected is passed over if it has requests: not fetched, so it never lands, and not released. The comment at `:31` says such
   a row group was never admitted or is released on landing. Its charge keeps `submitted - released` above zero; a later row
   group that does not fit beside it is never admitted, not even alone, and the scan waits for it for good, where `:1-3` promises that
   the scan completes. A print of the first rows (`--limit` with an order) over S3 drops row groups at such moments.
2. `src/src/core/spawn.zig:169`, run `spawn_pool_close`. A pooled thread stores `idle_state` after the region's count is zero. `releasePool`
   called in between stores `exit_state`, loses it, and joins for ever. "No parallel region may be running" (`:292`) is met by then.

### Seen on the way

Where the models follow the code and a document or docstring says otherwise; no run is devoted to these.

- `fanout.py:83-88`: a worker writes a NaN as the string "NaN" (`docs/output-format.md:109`). `add` looks for a float (`:86`), finds none, and puts two
  strings together: a sum over two workers with a NaN each is answered "NaNNaN", where `docs/output-format.md:142` has "number, or a NaN/infinity
  string". The run reaches it, and `AnswerIsWhole` reads such a text as a NaN. An average over two texts raises in `float` (`:111`), a text beside a number
  in `:88`, and so do the comparisons of `min`, `max` and ORDER BY over both; the handler at `:307` catches none of these.
- `spawn.py:91`: "a daemonized grandchild must not outlive its query", says the comment of the kill of the engine's process group. A daemon
  is in a session, and so in a group, of its own: it runs on beside the next query (`Beyond`), and `EndedIsFinal` excepts it.
- `parquet.py:397-402`: new headers leave each row group's `total_compressed_size` and `file_offset` as they were, so they disagree with the file.
- `quick.py:790`: on the host itself a lock held by another run raises `Deferred` past `main`, which ends with a traceback, exit 1 and no
  report, where `bench/README.md` has 2 for deferred or incomplete. The remote path gives it (`:891-899`). A host without a memory cap, a sweep
  that fails there, or ssh that drops leaves no report at home.
- `score.py:88-95`: a cell with some repetitions missing does not make the score INCOMPLETE as its docstring says a cell without a
  result does. A session killed between two of its records writes the first again when resumed (`lane.py:218-247`): the cell then has three of two
  repetitions, is called incomplete, and `ship_bar` (`score.py:54-77`) leaves it out of the rival's times. The bar may then be met by a zpq
  many times slower than that rival, in a score that is COMPLETE. `BarIsSound` and its theorem count such a rival as beaten, as the code does.
- `lane.py:117`: a journal whose last line is torn makes `--resume` fail. A torn file of an export makes each retry refuse.
- `page_index.py:256` cannot be reached.
- A signal between a pair's second row and its check leaves both rows selected, in a report that is incomplete.

## Not modelled

- In the engine: the io_uring loop of the local reader; the multipart sink, publication, the
  footer cache, the print and write windows; S3's data wave, connections and retries, for which `S3Window` takes that a batch ends; the
  ledger's children and floors. Each is concurrent and within reach of a model; they are what is left.
- The strength of memory orders, which the models take to be sequentially consistent.
- Values: decoding, filters, aggregates, group tables and their merges in the engine. They are folds over data with no
  shared state, and the repository's differential tests are the better instrument. `Fanout` models the coordinator's merge.
- Byte formats and transport (Parquet in the engine, HTTP, TLS, signing) and planning: sequential, no shared state.
- The fixture catalogues, contracts, suites and scripts under `tools` and `bench`: lists of cases, or programs that call
  others and compare their text.

In the order they should be taken: the ledger with children (`SharedBudget`: what children hold is what the parent counts), the data wave
(no waiter left asleep), the ring of the local reader in place of `ReadUnit`, the multipart sink and
publication with a crash between any two steps.
