# NexusCode in TLA+

NexusCode is a command line (with a terminal UI, an SDK and a local server)
that sends the prompts of one conversation to many AI providers: HTTP services
and wrapped coding CLIs. This directory models the parts of it whose
correctness depends on order: what several processes do to one file, what a
stream may contain after retries and provider switches, and what a conversation
holds after failures and restarts. Paths below are relative to the repository;
`core` is `packages/core/src`.

## The system

| Component | State it keeps | Operations | Interacts with | What makes it correct |
| --- | --- | --- | --- | --- |
| Provider circuit breaker (`core/provider-circuit.ts`) | entries per target (closed, open until, half-open with a probe lease), last clock value; a JSON file shared by processes | tryAcquire, recordFailure, recordSuccess, reset, annotate, status, listStatuses | called around every dispatch by the router; other processes through the file | one probe at a time; blocks last as long as promised, through clock corrections; a failure blocks its scope and nothing else |
| Store lock (same file, `withStoreLock`) | a directory next to the file | take, evict when stale, give back | every breaker operation | operations of processes are atomic; a dead holder blocks nobody for ever |
| Router (`core/router.ts`) | candidate chain, withheld preamble, recovery plan | runWithFailover, withProviderCircuit | breaker, retry, partial recovery | one public run with one start and one end, whatever the candidates do |
| Retry (`core/resilience.ts`) | attempt, withheld preamble | withRetry | stream contract | nothing is shown twice |
| Stream contract (`core/stream-contract.ts`) | what an attempt has sent | enforceStreamContract | adapters | a malformed stream ends in an error |
| Partial recovery (`core/partial-recovery.ts`) | actions seen and their status; text shown | observe, decisionFor; push, finish of the deduplicator | router | no mutation is repeated; the reader sees the missing part once |
| Session (`core/engine.ts`, `cli/src/history.ts`, `core/switching.ts`) | live transcript, sequence number, durable rows | newTurn, recordReply, record, rollback, compaction, resume | orchestrator, chat command, history database | alternating roles; live and durable copies agree; answers survive |
| Orchestrator (`core/orchestrate`) | lanes, winner, results | single, compare, race, consensus, chain | bus, cancel scopes, router, event store | the outcome is what was streamed; losers are cancelled; every lane settles |
| Cancel scope, bus (`core/cancel.ts`, `core/bus.ts`) | a tree of scopes; sequence numbers | cancel, child, onCancel; publish, merge | orchestrator, adapters | a cancel reaches every descendant once; a total order of chunks |
| Tool loop (`agentStream`, `executeToolCall` in `core/orchestrate/orchestrator.ts`) | turn, calls, results, accumulated usage, tool exchange | provider turn, hook, hand-off guard, gate, tool, end of turn | router, permission gate, approval broker, transfer log, history | a tool runs with what was cleared; one public run; history, usage and boundaries agree with what ran |
| Agent runner (`agent/src`) | queue of steps and roles | run, policies | orchestrator, tools | roles and limits around the tool loop |
| Terminal jobs (`tools/src/terminal`) | jobs, timers, output buffers | spawn, kill, output cap, timeout, stream | job tools of the agent loop | a job settles once and truly; a cap on live children; readers end |
| Tools, permission gate (`tools/src`), approval broker (`cli/src/commands.ts`) | mode, lists; pending approvals | check, run; request, decide, denyAll | tool loop | gated tools run only when allowed; an approval is answered once |
| Job registry (`cli/src/jobs-registry.ts`) | jobs.json, shared by processes | record, update, list, killJob | keepers of background jobs, the operating system | a signal reaches only the job; a job said to have ended has |
| Task store (`tasks/src/store.ts`) | tasks, parents, dependencies; tasks.json | create, update, delete, addDependency, removeDependency, readyTasks, topoOrder | the CLI, other processes through the file | graphs stay acyclic and whole in every copy; a plan is never stuck |
| Server (`server/src`) | runs, sessions | start, settle, reap, cancel | SDK, orchestrator | a cap on runs; every run gets a final state, the one its clients saw |
| Context transfer (`transfer/src`) | write-ahead log, items, graph, snapshots, blobs | apply, recover, snapshot, check, repair | tool loop, history database | a folded write keeps its effect and nothing else is in the items, whatever crashed or was restored |
| Enterprise, auth, config, cache, memory, RAG, observability, LSP, MCP, hooks, plugins, git, tool families, SDK, TUI, theme, Mac app | see `PROJECT.json` | | | mostly I/O, parsing, rendering or wiring |

Hard behaviours, each at its line, are the `hazards` of `PROJECT.json`.

## Modules

* **`ProviderCircuit`**: the breaker over one shared store. An operation is one
  step because it holds the lock from its load to its save. `file` is the JSON
  document (`savedAt`, entries); `lastClock` is each process's `lastClockMs`,
  which is all that a process keeps between operations, since each one clears
  and reloads the entries. `req` holds the dispatches of `withProviderCircuit`
  and the keys of their leases. `Loaded` and `Opened` are `load()` and `now()`
  with their two rebasings, `Refresh` the two expiry helpers, `Persist` the
  write that may fail. A lease id is the request it was made for.
* **`CircuitDeadlines`** extends it with history variables that measure real
  time: how far the clock was set back in all, and when each recorded block was
  to end.
* **`CircuitLock`**: `withStoreLock` one system call at a time, with crashed
  and suspended holders. Its history says which windows have lost their lock to
  another one (`robbed`) and which were inside when such a window wrote
  (`crossed`). **`AtomicStore`** is what the lock achieves: read, modify and
  write in one step, but for those windows. The store is reduced to how many
  operations of each process it reflects, so a lost update is visible.
* **`StreamPipeline`**: one run through `enforceStreamContract`, `withRetry`,
  `withProviderCircuit` and `runWithFailover`, with the `PartialRecoveryTracker`.
  The stages are generators, so a raw chunk is pulled only once the consumer has
  taken everything the last one produced (`queue`, `out`), and one action
  carries a chunk through all stages. Adapters are external and may send any
  chunk, stop or throw; the host's callbacks may throw (`HostThrows`) and the
  consumer may stop reading (`Leave`). The options of a run are a variable that
  never changes, so that one run of TLC covers retries and recovery.
  **`RunStream`** is the promise to the consumer, which the pipeline implements.
* **`ContinuationOverlap`**: `ContinuationOverlapDeduplicator`, `push` and
  `finish` as functions of the object's fields on UTF-16 code units, against a
  definition over the whole continuation.
* **`AgentLoop`**: `agentStream` with `executeToolCall`, the permission gate,
  `runTool` and the approval broker. Every `await` is a step of its own, `phase`
  says which one the loop is suspended in, and `Cancel` may fall between any
  two. The provider turn is taken as what `RunStream` promises, and the loop
  implements `RunStream` again. What a hook does to a call is whether it
  rewrites the input, and a rewritten input is one the gate classes as a write.
  The mark of a turn's boundary may fail, which the code swallows, so
  `boundaries` tells which ones were written; at the end of a run the consumer
  has the run-end before the last mark is attempted (`phase` "closing").
  `cleared` and `ran` record what guard and gate were shown and what ran.
* **`EngineRuns`**: `RunManager.start` with its cap and its reaper, over the
  lanes of `runLanes`, `runRace`, `runConsensus` and `runChain`, the numbering
  and merging of `bus.ts` and the scopes of `cancel.ts`. A lane is a generator
  with at most one outstanding pull (`at`), which is what
  `mergeAsyncIterables` keeps; `held` is the chunk the pump awaits the store
  with, and `log` the queue that clients replay. `Waits` are the requests whose
  session makes `start` wait for the store, `overtaken` (a history variable)
  those that another run was registered before.
* **`TransferLog`**: the write-ahead log of the context transfer. `tx` is what
  the open transaction sees; `Commit` publishes it and `Crash` drops it.
  Recovery is one step per SQL statement, since nothing makes the fold of a
  replayed row and its mark atomic. A row belongs to a session and carries the
  stamp its kind of delta gets: an item's own `updatedAt` under the session that
  is its source, the wall clock, or the session's counter. Snapshots, restores
  and truncations select by session and stamp, as the code does. An item is a
  version and a status.
* **`JobRegistry`**: `jobs.json` with its keepers and killers over a process
  table. A change of the file is a read and a write, with anything in between;
  pids are reused; `passes` is the set of jobs whose recorded name and start
  time a process happens to match.
* **`SessionTranscript`**: the live transcript and its durable rows through
  `newTurn`, the replies the orchestrator summarizes, `record()`, the rollback
  of unanswered input, the compaction of a provider switch, crashes and resumes.
  A turn is single, a compare, a race, a consensus or a chain, and `Decisive`
  are the lanes its recorded outcome may be about, the first lane when none won.
* **`TaskStore`**: the table of tasks as two relations, `dep` and `parent`, in
  `tasks.json` (`file`) and in each process that opened it (`mem`). Every
  mutation is one step, as it is one synchronous call: it checks, changes the
  table in memory and saves all of it over the file; the save may fail, and the
  change then stays in memory. `Reaches` stands for the two graph walks, by the
  sets closed under the edges, a form that can be proved about.
* **`TerminalJobs`**: `ProcessManager`, `Job` and `AsyncBroadcast` with the
  operating system around them: a child that ends, ignores SIGTERM, leaves a
  descendant with its pipes, or runs as another user and refuses signals
  (`Foreign`), which Node reports as an error event that settles the job.
  Callbacks of the event loop are actions, and a
  timer may expire at any moment.
* **`MCProviderCircuit`**, **`MCCircuitDeadlines`**, **`MCTaskStore`**, **`MCStreamPipeline`** (which puts the
  pipeline and the deduplicator together), **`MCEngineRuns`**, **`MCTransferLog`** and
  **`MCJobRegistry`** give their modules instances for TLC. The other configurations
  run on the modules themselves.
* **`ProviderCircuitProofs`** (also for `CircuitDeadlines` and `CircuitLock`),
  **`StreamPipelineProofs`, `TaskStoreProofs`, `TerminalJobsProofs`,
  `AgentLoopProofs`, `EngineRunsProofs`, `TransferLogProofs`,
  `JobRegistryProofs`**: the proofs.

`PROJECT.json` maps each definition to the lines it translates. In the comments
a definition named "Mutant" is a plausible bug of the definition after it, used
to make sure that each property can fail.

### What the models leave out

* `ProviderCircuit`: messages, annotations' content, the credential fingerprint
  behind an account, invalid files (`validEntry`). `openCount` saturates at
  `OpenCap`, where the back-off has reached its maximum (`BackoffSaturates`).
* `CircuitLock`: file systems whose `mkdir` is not atomic; a lock that cannot
  be removed.
* `StreamPipeline`: text and reasoning deltas are one type, "text"; tool-call
  deltas, file edits, approval requests and tools of unknown risk are left out;
  a foreign `runId` counts among the contract violations; two providers use
  different tool-call ids.
* `AgentLoop`: the wiring of fail-over and the adaptation of requests to another
  provider; captures for the transfer log other than the turn boundaries; the
  truncation of results for the history. Results are told apart by their call:
  providers report each call consistently and with fresh ids per turn. The mode
  of the gate does not change during a run (`setMode` has no caller there), and
  which tool names the lists match is an arbitrary verdict.
* `EngineRuns`: what a provider streams, beyond text and a terminal; what a judge
  computes; event streams over HTTP and the SDK's `Broadcast`; the event log,
  whose appends may fail without consequence; routed and agent runs, which are a
  single lane here. Only a single run can throw: it alone is dispatched with a
  host callback that may.
* `TransferLog`: graph nodes and edges, verbatim captures, the flush barrier, the
  encryption key and a second process. Each row has a payload blob of its own
  (equal payloads share one in the code). Of the arithmetic of revision and
  confidence only the order is kept. A snapshot's own blob is never lost (a
  restore would throw). `recordLoss` only adds to a report.
* `JobRegistry`: log files, exit codes, and the three seconds for which a
  launcher waits to see the record; `list` and `reprobe` are views of the same
  data. No pid is reused between an identity check and the signal that follows.
* `TaskStore`: titles, notes, timestamps and their orders; a file edited by hand
  or unreadable (`load` starts empty); tasks given their own id more than once
  are created again only after a deletion. Every mutation counts against
  `MaxOps`.
* `TerminalJobs`: what a chunk says; exit codes other than by signal or not,
  which the close event still sets on a job that an error has settled
  (`process-manager.ts:182`); the working directory; `remove` and `prune`, which the program never
  calls.
* `SessionTranscript`: a message costs one token; callers pass prompts, not
  transcripts of their own; the tool exchange of a turn is part of its reply;
  the rows of one turn are written in one step; one process at a time.

## Runs

| Run | Question | Bounds |
| --- | --- | --- |
| `circuit_shared` | Do leases and authentication blocks stay with those they belong to, and does a probe give back what it leased, when two processes crash, restart and let leases run out? | 2 processes, 2 requests for one model, so that leases are over the circuits of the model and of its account; 3 clock values and a correction of 2, beyond the skew of 1, so that stores and memories are rebased; blocks and leases last 1 tick, so that both run out while requests are in flight |
| `circuit_scopes` | Does a failure block what it should, at once, for its time, and nothing else, when the clock is set back by more than the skew and the store is full? | 1 process, 2 accounts and a model, hence 4 keys for 2 entries; a correction of 3 |
| `circuit_lock` | What holds of the lock when any holder may die or be suspended beyond the limit: who is inside alone, whose operations are atomic, and do operations end? | 3 windows, since the race over a stale lock takes a victim and two waiters; 3 operations in all; a lock is stale after 2 ticks |
| `session` | Is what a provider gets well formed and what the store holds, is a turn answered once, and do answers survive, with several lanes, overlaps, failures, crashes, resumes and compactions? | 3 turns, 2 lanes, 2 processes, 1 compaction; a budget of 4 messages, so that trimming cuts exchanges, with and without a summary among what is kept. The turns are consensus and chain turns: what a single, compare or race turn of two lanes may end in is among what a consensus may end in, only the chain differs. The invariants say for which histories (`Orderly`) they hold; the others are below. |
| `stream_pipeline` | Is the public stream one well-formed run that ends; is a provider left only when nothing need be repeated; is its lease settled first; is the overlap of a continuation removed exactly? | 2 candidates; without recovery 2 attempts of 3 chunks with every contract violation, cancellation and declined switch; with recovery 5 chunks, so that a mutating call can start, end and return after some text. Overlaps: texts of 3 code points with surrogate pairs, continuations of 4 code units in every cut into deltas. |
| `task_graph` | Do tables stay acyclic and whole, and plans able to go on, when two processes change them and save over each other? | 3 tasks, 2 processes, 4 mutations: enough for two processes to close a cycle of two edges that each found harmless, if saves were merged |
| `terminal_jobs` | Is each job reported once and truly, settled, and its output read to the end? | 2 jobs for 1 slot, one of which ignores SIGTERM and may leave a descendant, the other may refuse signals; an output cap of 1 chunk; 1 iterator |
| `agent_loop` | Does a tool run only with the input that was cleared, does a cancellation stop the rest, and do stream, history, usage and boundaries agree with what ran? | 2 turns of at most 2 calls, the last without tools offered (a provider may call one regardless); 1 mark of a boundary that fails; mode "ask" with an approver, each verdict of the lists, so that every way to be allowed, asked or denied occurs |
| `engine_runs` | Are chunks delivered once and in order, is the outcome what was shown, who may exceed the cap, does every run give its slot back? | 2 requests for 1 slot, the first of any primitive, the second waiting for its session, 2 lanes of which one may stream a text first; a chain of an optional stage and a gated one |
| `transfer_log` | Do folded writes keep their effect, and is nothing else in the items, after crashes, lost blobs, replays, restores and repairs? | 3 rows among writes of two sessions, a supersession and a row that is only logged, with 2 readings of the wall clock in any order; 1 crash between any two statements, 2 snapshots, 1 check, 1 lost blob |
| `job_registry` | Do signals reach only the job, is a job that is written off dead, do records hold? | 2 jobs, 1 kill, 2 pids, 2 of which may be given to a stranger while the kill waits |

One run shows the code do what a comment of its own rules out, and is a
`finding`.

* `session_overwrite_violation`: two rolled back turns and one answered leave
  rows 2 and 3 in the store; the resumed session starts at 2, the number of
  messages, and overwrites them.

Further deviations found while modelling, most of them reproducible by changing a
constant or dropping a condition:

* With `PersistMayFail` in `circuit_scopes`, `FailureBlocksAtOnce` fails: after a
  failed write "in-memory protection remains active"
  (`core/provider-circuit.ts:544`), but the next operation clears the memory and
  reloads the file (`:978`).
* The lock is not what its comment says, "independent Nexus windows cannot
  overwrite each other's failures" (`core/provider-circuit.ts:1047`). Without
  `robbed` and `crossed`, `MutualExclusion` and `ImplementsAtomicStore` fail in
  two ways. Two waiters find the lock of a dead window stale; one evicts it and
  takes it, then the other evicts that, and two windows are inside (`:1067`):
  three windows and one death do it, without any suspension. And a holder
  suspended past the limit is evicted, then saves its old copy and removes a lock
  that is not its own (`:1091`). What the run and the proofs show is how far the
  damage goes: a window is exposed only if its lock was removed under it, or if
  such a window wrote while it was inside.
* `EverythingEnds` has an exception: a descendant that keeps the pipes of its
  dead parent holds back the close event, so the job keeps its slot and `kill`,
  `killAll` and its readers wait for as long as it lives, although the limit is
  there "so nothing runs forever" (`tools/src/terminal/process-manager.ts:22`).
  Without `Kept` the property fails.
* A child that runs as another user refuses `child.kill` with EPERM, and Node
  emits an error event; the handler (`process-manager.ts:176`) settles the job as
  failed although its child lives. It has no slot any more, so the children alive
  may exceed the "Ceiling on LIVE (running) jobs", and nothing ends them;
  `ChildrenBounded` counts them out (`Escaped`) and says that there are no others.
* With a second process in `circuit_scopes`, `BlockLastsAsPromised` fails, also
  without a correction: `load()` judges `savedAt` by the time this process last
  used the breaker (`core/provider-circuit.ts:995`), so one that was idle for
  longer than the skew takes a fresh file for one from the future and shifts all
  deadlines back. A block may then be probed before its time, where
  `docs/EDGE-CASE-AUDIT.md` has it kept ("without calling it again").
* A lease is over all circuits of a target that were half-open, and is inactive as
  soon as one of them is gone (`:865`). The report is then ignored, and what is
  left of the lease stays until it expires, although its probe has settled;
  `SettledLeaseReleased` says so in its second disjunct, which `circuit_shared`
  reaches.
* The success of a request that was in flight before a block closes it, an
  authentication block too (`:668`); and a transient failure of a target without
  a model is recorded at the account itself and may replace such a block by one
  with a deadline, or close it below the threshold (`:928`). Hence the second
  disjunct of `AuthBlockKept`, against the comment that only credential changes or
  a reset recover (`:944`).
* With `Threshold` 3 a transient failure closes a circuit that a Retry-After
  had opened (`:928`).
* `Orderly` is what keeps `Alternates` and `LiveIsRecentDurable` true. Without
  its `starts = 1` a question that a crash left unanswered is trimmed from the
  loaded copy only (`core/engine.ts:358`), and the next resume loads it into the
  middle. Without its last clause, `record()` rolls back a turn one of whose lanes
  had answered, when the outcome is about a lane that failed: the question and
  the stored rows go, and the reply of the other lane stays live
  (`core/engine.ts:500`). A compare whose first lane failed does this, and so does
  a consensus without quorum, which names no winner although a lane ended well
  (`core/orchestrate/orchestrator.ts:1209`). `OneReplyPerTurn` covers these
  histories and says that nothing else is left of such a turn.
* Without its `compactions = 0`, `Alternates` fails. The compaction of a switch
  may cut between a question and its reply (`core/switching.ts:431`), and the
  removal of orphaned replies then stops at the summary, a system message
  (`core/engine.ts:247`), so that the conversation opens on a reply, where the
  comment says that it "still opens on a user turn" (`:216`).
* Without the assumption on tool-call ids `OneWellFormedRun` fails under
  recovery: ids are checked within an attempt, and two providers may use the same
  one.
* `AgentLoop`: a run that is cancelled between two turns or among its tools does
  not report the usage of the turns before (`UsageAddsUp` excepts it), and one
  that ends in an error or is cancelled hands on no tool exchange, so the tools
  it has run are unknown to the next turn. The signal is not looked at again
  between the loop over the calls and the tool, hence the one late tool of
  `CancelStopsTools`.
* The marks of turn boundaries are best effort: a failure is swallowed
  (`orchestrator.ts:1926`, `:2323`), and a consumer that has the run-end of a run
  may find its last turn not yet marked as ended (`:2234`, `:2250`).
  `BoundariesPaired` is about the attempts, and says in which order they are made
  and when each was.
* `EngineRuns`: "Max runs allowed in the running state at once"
  (`server/src/runs.ts:86`) is not kept. The cap is checked before the session is
  resolved and the run registered after it (`:188`), so where reading the session
  really waits, which `core/types.ts` allows, a request that has passed the check
  is registered whatever was registered meanwhile, and the runs exceed the cap.
  Without `overtaken`, `ActiveBounded` fails in `engine_runs`; with it, the
  property says that no other run ever comes on top, and where no request waits
  (`Waits` empty, as when the CLI serves) it is the cap itself. A consensus of one
  lane, which `backends` allows, is reported as partial even when its lane ended
  well (`core/orchestrate/orchestrator.ts:1207`), so `OutcomeIsWhatWasSeen` excepts
  it. The sequence numbers give the order of publication, and lanes are merged by
  a race over pulls, so what clients saw is in another order than the event log
  when it is read back by number (`session/src/store.ts:155`).
* `TransferLog`: in recovery the fold of a row and its mark are two statements
  (`transfer/src/sync.ts:80`), and a crash between them repeats a supersession,
  which counts the revision up once more, where the comment says "Idempotent"
  (`:64`). `EffectsKept` speaks of versions at least as new for that reason.
  A restore replaces the items of all sessions by those of the snapshot, but the
  truncation with it (`wal.ts:116`) only drops rows of the snapshot's session
  with a greater stamp. Writes are stamped with the item's `updatedAt` under the
  session it came from, supersessions with the wall clock, the rest with the
  session's counter (`sync.ts:176`). The comment at the truncation has it drop
  the "rows that arrived AFTER the snapshot" (`snapshot.ts:316`), but rows of
  other sessions or with older stamps stay in the log, marked folded, although
  the restore has taken their effect back and no replay will repeat it. The
  history variable `undone` names them. The snapshot that a repair chooses as the
  latest is the one with the greatest stamp (`integrity.ts:184`), across sessions
  whose clocks do not compare. Rows that are appended and not folded are
  written by the exported functions only, and nothing in the CLI takes snapshots
  or repairs.
* `JobRegistry`: `jobs.json` is read, changed and written without a lock, so
  overlapping changes lose records or bring back old ones; `RecordsHold` says
  what holds as long as none overlap. A kill writes "killed" over an exit
  that came during its grace, and a `ps` that fails after it has a running job
  written off. A script run by an interpreter has another process name than
  its command: it is listed as gone and cannot be killed.
* A run refused before any adapter is called is an error without a run-start
  (`core/router.ts:446`), where `packages/shared/src/events.ts:4` promises
  "exactly one `run-start` first"; `RunStream` allows it.

## Fairness

Safety runs assume none. `circuit_lock` checks `OperationEnds` under weak
fairness of each live process's next system call and of the clock: the waiting
loop sleeps 10 ms and tries again, and nothing blocks a live process for ever.
A dead process takes no steps. `stream_pipeline` checks `EveryRunEnds` under weak
fairness of the pipeline as a whole: some stage moves when one can, that is, an
adapter goes on to send, end or throw (the code relies on its timeouts for
that) and the consumer goes on reading. Which chunk comes is left open, and no
fairness makes the user cancel or a candidate succeed. `terminal_jobs` assumes
that set timers expire, that events of a child are delivered, that an iterator
which can go on is pulled, and that SIGKILL ends a child; no child has to end of
itself, and no descendant has to let go of its pipes. `agent_loop` checks
`AgentEnds` under weak fairness of the loop together with its hooks, tools and
provider: a tool and a provider turn end by their own limits, and an approval
that nobody answers times out. Nothing makes the user cancel. `engine_runs`
checks `RunReaped` under weak fairness of the registration, of the pump, of the
wall-clock timer, and of a provider whose scope was cancelled, which answers
once more and returns; that a provider answers while its scope is live is not
assumed, since it need not, and the timer is what the property rests on.
The action properties and invariants of these runs hold without fairness.

## Proofs

TLC checks small instances; the theorems hold for all values of the constants
that satisfy the assumptions.

* `ProviderCircuitProofs` proves `TypeOK`, `LeaseAccountable`, `LeaseNotStolen`
  and `AuthBlockStays`, the last two joined in `NothingTakenAway`, for any
  targets, processes, corrections of the clock and failed writes.
  `LeaseAccountable` is inductive together with `TypeOK`: an entry's lease names a
  request that, while running, has the key in its lease and runs in the process
  that owns the entry. The proof goes by what may happen to one entry: each
  operation leaves it, unleases it, or leases it to the request it starts
  (`SameLease`, `StepKinds`), so that every action is examined once.
  `NothingTakenAway` is about the entries that nobody may touch (`HeldEntry`: with
  a lease that has not run out, or blocked without a deadline). Reading the store
  leaves them alone even when it rebases or expires what it reads
  (`ReadingStands`). The store is never above `maxEntries` when an operation begins
  (`Fits`), so a prune drops one entry at most, and one of these only when the
  store is full and no circuit in it is closed. `HeldStep` then lists what a step
  that changes such an entry may be: its removal by a reset or by such a prune
  (`Removed`), or the outcome of a request that covers it (`EndedBy`).

  Three more theorems rest on `Scoped`: the store only ever holds entries for
  the scopes that a report may name, and a lease covers only scopes that apply to
  its target. Each states its conditions as assumptions on the constants.
  `SettledLeasesReleased`: when writes succeed, a probe that settles leaves no
  lease, unless one of its circuits was taken from it or its lease had run out.
  `FailuresStayInScope` (`BlastRadius`): the targets of one provider all name an
  account, or none does (`Accounts`); an entry without an account applies to
  every account. `FailuresBlockAtOnce` (`FailureBlocksAtOnce`): writes succeed
  and the store has room for the scopes of one target (`Room`), so that a prune
  spares what the report has just stamped.

  `BlocksLastAsPromised` covers the clock that is set back: `BlockLastsAsPromised`
  holds in every behaviour in which one process runs at a time, saves succeed
  and the Retry-After values are bounded, for any number of corrections, restarts
  and idle times of any length. (TLC refutes it for two processes at once, with
  a correction and, when one of them has been idle, without; see the runs.) The
  clock alone does not say how old a deadline is, so the invariant (`TimesKnown`) speaks of anchors: the clock
  at some real time, and the number of corrections by then. The store stands for
  one anchor, a running process for a later one, and both lie before now
  (`Before`). An entry promises the same real time from each anchor it is rebased
  to (`ShiftTimed`), and a correction pays for the skew that may hide in it
  (`Horizons`). Saves must succeed because the history variable records the
  promise of a failure that was not written.
* The last section of `ProviderCircuitProofs` is about `CircuitLock`, whose names
  are its own so that one module can extend both. It proves `LockTypeOK`,
  `MutualExclusion` and that the lock implements `AtomicStore`, for any number of
  windows and of deaths, and whether or not holders may be suspended. The
  inductive invariant says that whoever is inside and was not robbed has the lock
  (`LockOwned`), that a window about to evict has a stale lock before it or comes
  too late (`Aimed`), and that what the holder loaded is still in the store unless
  a robbed window wrote meanwhile (`LoadedFresh`). Mutual exclusion alone is not
  inductive: a waiter about to evict would break it.
* `StreamPipelineProofs` proves `TypeOK`, `LeaseSettledInTime`,
  `LeftOnlyWhenSafe` and that the pipeline implements `RunStream`
  (`OneWellFormedRun`), for any number of candidates, attempts and chunks, any
  tools and approvals, and any options. The stream is taken as a whole, with
  what the consumer has still to take (`All`), so that every action adds to its
  end or leaves it alone. The promise itself is not inductive: chunks wait in the
  buffers of retry and of fail-over, and whether one is legal is judged by a
  source that has not seen the stream. The invariant therefore says, by concern:
  what the retry buffer and the calls that retry has noted tell of the source
  (`SourceInv`); that a stream still open has no terminal, that the tracker
  knows every call in it, and that before the commitment only a continuing
  candidate follows anything (`WaitingInv`); that a plan was made only when the
  tracker finds it safe (`HandoverInv`); and that the stream is legal, from one
  attempt per candidate, and left safely so far (`OutputInv`).
* `TaskStoreProofs` proves `TypeOK`, and `GraphSound` with its parts
  `DependenciesAcyclic`, `ParentsForest` and `NothingDangles`, for any tasks,
  processes and number of mutations. What is inductive is a fact about one table
  (`Sound`), kept by each mutation for the table it makes; the file and the
  memories only ever exchange such tables. A new edge cannot close a cycle because the other way round is not reachable
  before it is added, which is a lemma about `Reaches` alone.
  `PlanUsable` follows from the same invariant by how many tasks a task reaches:
  after as many rounds it is taken (`TakenInTime`, from a smallest
  counterexample), and a todo task that reaches the fewest others can be started.
* `TerminalJobsProofs` proves `TypeOK` and every safety property of
  `terminal_jobs`, for any number of jobs, iterators and slots, from
  `IsFiniteSet(Job)`. One invariant of a job (`Sound`: one that says "running"
  was never signalled, one that says how it ended is settled and has no live
  child, or one that refuses signals) and one of an iterator (`ReaderSound`: it is not ahead of its job, and
  parked only when level with it) are inductive; `Evolves` says how a step may
  change a job. The ceiling is proved for the live children but those whose job
  an error has settled (`Escaped`), which can only be children that refuse signals. For `TaskStore` and `TerminalJobs` the types are left
  to the proofs.
* `AgentLoopProofs` proves `TypeOK`, `RunsWhatWasCleared`, `CancelStopsTools`,
  `AccountsAgree` and that the loop implements `RunStream`, for any number of
  turns, calls and verdicts of the lists, whichever marks of boundaries fail. The
  invariant is a conjunction by
  concern: where the loop is and which call it works on (`Position`), what guard
  and gate were shown of that call (`Judging`), what a cancellation leaves
  possible (`Cancelling`), and that results, usage, boundaries, stream and
  history say what the turns before contained (`Counted`, `Bounded`, `Streamed`,
  `Remembered`). `RunsWhatWasCleared` alone is not inductive: between the
  model's call and the tool lie a hook, the guard, the gate and an approval, so
  `Judging` has to say of each phase which input the call then has and what has
  been shown it. The step of the refinement maps each chunk that
  the loop passes on to a step of `RunStream` and everything else to a stutter.
* `EngineRunsProofs` proves `TypeOK`, `DeliveredOnce`, `OutcomeIsWhatWasSeen` and
  `ActiveBounded`, for any number of lanes and any cap, from `IsFiniteSet(Run)`.
  A step touches one lane of one run, so the proof goes from lane to run to all
  runs: `LaneOk` says where the chunks of a lane are (in the log, held by the
  pump, or still to be taken), `Good` adds for one run how far it has come
  (`Placed`, `Staged`) and what its outcome is judged by (`Judged`), and `Moved`
  says that a step takes one good run to a good one and leaves the others.
  A request that waits for its session and was not overtaken still has its slot
  (`Capped`); where none waits, the cap is exact (`CapExact`).
* `TransferLogProofs` proves `TypeOK`, `EffectsKept`, `ItemsAccountedFor` and
  `RecoveryComplete`, for any rows, sessions, clock readings and any number of
  crashes, snapshots, checks and lost blobs. A replay is not atomic, so what holds
  half way through one is part of the invariant (`Replays`): a row neither folded
  nor still to be replayed cannot be read, and one about to be marked has had its
  effect. A restore is right because a snapshot has the effect of the rows it
  holds (`SnapshotsHold`), and because rows are told apart by their number
  (`Keys`); their stamps, which do not order them, play no part.
* `JobRegistryProofs` proves `TypeOK`, `EndedMeansDead`, `RecordsHold` and
  `SignalsOnlyTheJob`, for any jobs, pids and kills. `Honest` says that what
  the file, a change under way or a killer believes of a job is still true of its
  process, and `Recorded` what the file holds as long as no changes overlap.

Only model-checked: liveness; the session, whose transcript is made by filtering
and flattening sequences; and the deduplicator (`ShowsMissingPart`),
which computes over every cut of a text, an induction over data.

## Plan

1. Done: all modules above, and the proofs for nine of them.
2. Theorems: the invariants of `SessionTranscript`, once its filters are written
   as functions.
3. Models: routing and the choice of candidates; the guard and the graph of a
   hand-off; request ids, timeouts and exits in the LSP and MCP clients; the
   cost budget under concurrent runs; the refresh of a token by two processes;
   two windows on one session.

## Not modelled

Components that are not modelled are listed in `PROJECT.json` with their reason.
There are three kinds. Most are parsing, rendering, wiring, or wrappers of external
services, with no state of their own that outlives a call. The vendor
adapters and the tools are the environment of the models: an adapter may send
any chunk at any moment, and a tool ends with or without an error. Some have a
protocol and are planned (3 above).
