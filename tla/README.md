# A TLA+ verification of nexus-ai-harness

The repository (`src/`) is a Python harness that runs an LLM agent out of
plugins: a loop calls a model, runs the tools the model asks for, and goes on
until the model answers without tool calls or a guard stops it. The code is
asyncio code in which every plugin method is awaited, sync plugin code runs in
worker threads, and a session outlives its process through snapshots. What is
hard about it is not the happy path, which the repository's tests cover, but
what happens when tasks interleave, when something raises or is cancelled
half-way, and when a process dies between two steps. These modules model that
part and check it; paths below are under `src/src/nexus_ai_harness/`.

## 1. Inventory

| Component | State | Operations | Interacts with | Hard behaviour | What makes it correct |
|---|---|---|---|---|---|
| Harness lifecycle: `harness/harness.py`, `harness/registry.py`, `harness/validation.py` | entries with a status, subscriptions, `_started`, the lifecycle lock | `use`, `unuse`, `replace`, `start`, `stop`, `run` | awaits every plugin's `start()`/`stop()`; plugins subscribe to events | several tasks on one lock; a start that raises or is cancelled and rolls back; sync starts that outlive their await | no plugin is up without the registry knowing; dependency order; one set of subscriptions; `stop()` reaches all; a run finds its plugins up |
| Agentic loop: `plugins/loops/agentic.py`, `services/runner.py`, `services/model_call.py` | iteration index, batch of tool calls, stop reason | `run` | session, guards, hooks, tool runner, model | concurrent tool calls; interrupts and interventions from outside; failing models; exact budget edges | well-formed history for the model; interrupts and interventions neither lost nor stale; every run ends |
| Tool runner and permission gate: `services/tool_runner.py`, `services/permission_gate.py`, `plugins/permissions/` | one coroutine per call | `run`, `check` | permissions, approver, tools | calls end in any order, are denied, raise | one result per call, in order; nothing left running |
| Guards and their hooks: `plugins/guards/`, `plugins/hooks/` | index, elapsed time, cost | `check`, `on` | events of the loop | two events per response; state that outlives a run | each call counted once; bounded overspend |
| Session and interventions: `harness/session.py`, `harness/context.py` | history, interrupt signal, inbox | `interrupt`, `submit`, `take_interventions`, `fork` | loop, persistence, spawner | take-then-apply is not atomic | see the loop |
| Spawner: `plugins/tools/subagent.py`, `plugins/spawner/in_process.py` | a semaphore, the depth of a fork | `Subagent.run`, `InProcessSpawner.run` | runs a whole loop inside a tool call | a tree of agents behind one semaphore, interrupts, cancellation | slots are agents that run; depth; no orphans; no deadlock |
| Persistence: `plugins/persistence/` | snapshot on disk, `_unsaved` | `AutoSave.on`, `save`, `create`, `load`, `resume`, `fork_session` | events of the loop | crash between a step and its save; failed saves; two writers | the snapshot is at a boundary, current and only grows |
| File session store: `plugins/persistence/file.py`, `schema.py`, `core/persistable.py` | one file per session, a temp file per call | `save`, `create`, `load`, `delete`, `fork_session`, `dump`, `restore`, `migrate` | AutoSave, other processes | kills and power losses between system calls; processes of other releases | each call atomic; acknowledged means durable; unknown state is carried along |
| File memory: `plugins/memory/file.py` | one file per memory, two locks, a cache per process | `save`, `delete`, `get`, `search` | tools `remember`, `recall`, `forget`; people who edit the files | several processes, stale caches, abandoned temp files, reused inode numbers | a read returns what the file held; overwriting keeps the creation time |
| Summarizing context manager: `plugins/context_manager/summarizing.py` | recap, positions folded and dropped, usage anchor | `process` | calls a model; feeds the request formats | cuts between a call and its answer; a history that is cut back | every request is well formed, accounts for what it hides and keeps the budget |
| Request formats: `plugins/models/` | none | message translation of four providers | context manager | empty and repeated roles, repeated call ids | turns alternate, calls are answered |
| Model backends, routers, chat loop: `plugins/models/retry.py`, `_http.py`, `plugins/routers/`, `plugins/loops/chat.py` | attempts, the sticky choice | `complete`, `post_json`, `route`, `run` | HTTP, interrupt signal, worker threads | interrupt or cancellation while a worker waits or sends | bounded attempts, prompt abort, one report per call |
| MCP client: `plugins/mcp/client.py` | sessions and tools of each server, an exit stack | `start`, `stop` | the lifecycle, the MCP SDK | a server that fails half-way; a `stop()` that fails or is cancelled | nothing open that the client does not know of |
| Interceptors: `harness/context.py` | the chain entered so far | `invoke` | every plugin call | errors and cancellation in any hook | befores and afters pair |
| Shell tool, sandbox, process runner: `plugins/tools/shell.py`, `plugins/sandbox/`, `services/process.py` | session directory and environment with tickets, process groups, scratch directory | `run`, `check_shell`, `run_process`, `select_backend`, `wrap` | operating system | concurrent calls, timeouts, lingering children, overlapping mounts | the session is as the latest call left it; nothing survives a killed call; writes stay where they may |
| File and search tools: `plugins/tools/filesystem.py`, `search.py` | a lock per path | `read_file`, `write_file`, `edit_file`, `grep`, `glob` | file system | concurrent edits, line breaks at chunk and page boundaries, limits | edits compose, pages lose no line, a cut answer says so |
| Plugin graph: `harness/graph.py`, `graph/graph.py` | none | startup order, cycles, impact | the registry | cycles | the answers are those of the relation |
| Logging, skills, evaluators | none | | | formatting, parsing, one model call | |

`PROJECT.json` lists each of these with its status and, under `hazards`, what
can go wrong in the code that a test would hardly reach, each at its line.

## 2. Modules

    Lifecycle                                        <-- LifecycleProofs, MCLifecycle
    AgenticLoop                                      <-- AgenticLoopProofs, MCAgenticLoop
        ^
        +-- ResumableSession                         <-- ResumableProofs, MCResumableSession
    Spawner                                          <-- SpawnerProofs, MCSpawner
    SessionStore (implements AbstractStore), SavedState, MemoryStore
                                                     <-- PersistenceProofs, MCPersistence
    WireFormat <-- Compaction                        <-- CompactionProofs, MCCompaction
    ModelCall, MCPClient, Invocation, PluginGraph    <-- ServicesProofs, MCServices
    CommandCheck <-- ShellTool, Isolation,
    TextLines <-- FileTools, SearchTools             <-- ToolsProofs, MCTools

The last modules are parts that share no state with each other; an MC module
that extends several of them picks one part per behaviour, so one run checks
them side by side without multiplying their states.

In the modules of asyncio code an action is the code between two awaits, which is
what asyncio makes atomic; where threads or processes meet it is one system call,
or what happens under one hold of a mutex. Operators named `Mutant_...` are the definition that follows them
with a plausible bug in it; `PROJECT.json` pairs each with the property that
notices it. They are part of no specification.

**Lifecycle.** `entry`, `status` and `subs` are `Registry._entries` and the
subscriptions; `started`, `lock` are `_started` and `_lifecycle_lock`; `todo`,
`newly`, `cur` are the local lists and the loop variable of the call that holds
the lock. A removed entry leaves a hole in `entry`, so list order is slot order.
`live` is the plugin's own view of whether it is up, and is what the properties
compare the registry with. `Call` queues a task for the lock, `BeginStart`,
`StartReturns`, `StartRaises`, `StartCancelled`, `RollbackReturns`,
`BeginStop`, ... are the pieces of `start`, `stop` and `unuse` between awaits;
`Use` and `Replace` need no lock, as in the code.

**AgenticLoop.** One session and the successive `run()`s on it. `phase` is where
`run()` is: awaiting `start()`, at the top of the loop, applying interventions,
preparing (context managers and routers, which may call models of their own),
awaiting the model, or awaiting the `gather` of tool calls. `call[c]` is where
the coroutine of one tool call is; `late[c]` says that a tool goes on although
nobody awaits it. A message is its role and the calls it makes or answers.
Every model call costs one unit, so `cost` is what `CostCounter` counted and
`paid` what was really called. `runs`, `paid`, `asked`, `submitted` are
history variables.

**ResumableSession** extends AgenticLoop: each step of the loop puts the events it
emits, in their order and with what a save would store at that moment, into
`events`; `Hear` is AutoSave's answer to the first of them, and the loop goes on
when none is left. `disk` is the stored snapshot, `unsaved` whether the session is
in `AutoSave._unsaved`. `Crash` is the death of the process at any point, also
between two events of one step, and `resume()` in the next; it restores what a snapshot holds (history, the
persistable part of the inbox, the stop reason) and nothing else.

**Spawner** is the tree of agents of one run. An agent is the path of call
numbers that leads to it. What an agent does between two awaits of its loop is
reduced to: delegate to n children, go on when all are answered, or finish;
the details are AgenticLoop's. The semaphore has its FIFO queue.

**SessionStore** is `FileSessionStore` shared by processes: `pc[p]` is the next
system call of p's `save`, `create`, `delete` or `fork_session`, `dir` what the
directory shows and `disk` what a power loss would leave of it. File systems with
and without hard links and directory syncs are initial states. **AbstractStore**
says what the protocol `SessionStore` promises: each call takes effect at one
instant or fails, and `create` replaces nothing where it is exclusive. The
refinement maps a file to the snapshot `load()` finds in it. **SavedState** is the
contents: `live` and `saved` are `Session._state` and `_saved_state`, and `proc`
is a release of the program with the plugins it has imported.

**MemoryStore** is `FileMemoryStore` with a cache per process. A file is its inode
number, its time and its lines; `Serialize` and `Parse` are the file format, so that
a text that looks like a header is one of the cases. `seen[c]`, `past` and
`recurred` are history. `ReadsCurrent` leaves out ids of which an (inode, time) pair
came back: the signature cannot tell these files apart, as the comment at
`plugins/memory/file.py:254` grants only in part.

**WireFormat** is how four providers' formats group a history into turns.
**Compaction** is the context manager in front of them: `memo` is `SummaryState`,
`shift` the usage anchor, `layout` what the last request was made of. A message has
a size and an identity (`uids`); what is folded or dropped is tracked by identity.

**ModelCall** is a chat turn with its router and the retry loop of `post_json` in a
worker thread. The awaiting task and the worker are separate actors: `calls` keeps
every worker, also those whose task has left, into the next turn. Time is counted in
ticks of the abort poll. **MCPClient** has `open`, what really is open, next to what
the client lists. **Invocation** is `RunContext.invoke`, one await per action.
**PluginGraph** steps Kahn's waves, the iterative Tarjan and the impact walk as the
loops of the code do, over every requirement relation of four plugins; `Dependents` is
what the answers are compared with, the least set closed under the relation.

**CommandCheck** is what `check_shell` decides from a scanned command, and the set
of places a shell may write to when it runs it. **ShellTool** has the calls of a
session, each with its ticket, its environment and its process group: the leader, a
helper that holds the output, one that does not, and a daemon that left the group.
**Isolation** is the choice of a backend and the ordered mounts or rules it asks
for. **TextLines** and **FileTools** are line splitting, edit lists, and concurrent
edits, writes and chunked reads of a path; **SearchTools** the walk, filters,
context and limits of a search.

### What the application may do: Quirks

`Quirks` names what an application or its environment may do beyond plugins,
models and tools that return or raise. With `Quirks = {}` every property holds; `loop` and `resumable_faults` allow them.
Where a property does not survive a quirk, that is a fact about the code:

| Quirk | What happens | Line |
|---|---|---|
| `cancel_rollback` | a second cancellation during a rollback leaves plugins up on a harness that counts as stopped (breaks `StoppedMeansReleased`), although `stop()` is documented to release every started plugin | `harness/harness.py:107` |
| `cancel_thread` | a cancelled sync `start()` goes on in its thread and subscribes after its subscriptions were dropped (breaks `SubscriptionsMatch`) | `core/invoke.py:46` |
| `replace_in_flight` | `replace()` during the first `start()` forgets a plugin that is coming up (breaks `LiveIsTracked`) | `harness/harness.py:51` |
| `double_use` | an instance registered twice is started twice (breaks `StartsOnce`) | `harness/registry.py:86` |
| `early_interrupt` | an `interrupt()` before `run()` has got going is cleared (breaks `InterruptHonored`), which the example in `docs/plugins/interventions.md` does | `harness/harness.py:179` |
| `apply_raises` | an intervention that raises takes those behind it with it (the exception `NoNoteLost` makes; those still in the inbox are kept) | `harness/context.py:111` |
| `cancel`, `raise_in_gate` | the history keeps tool calls without answers, and the next run saves them (breaks `DiskIsBoundary`, against the docstring of `AutoSave`) | `plugins/loops/agentic.py:120` |

Each of these was found by running TLC with the quirk allowed. The time budget
has no quirk: `ElapsedState.started_at` is set by a session's first event and never
reset (`plugins/hooks/elapsed.py:23`), so `timeout_s`, which `default_harness`
calls a budget "for a run", is a budget for a session.

## 3. Runs

| Run | Instance | Shows |
|---|---|---|
| `lifecycle` | 2 tasks, 3 plugins (two providers of a capability the third requires), 4 uses | no plugin leaks, dependency order, one set of subscriptions, `stop()` releases all, runs find their plugins up, with every `start()` and `stop()` returning, raising or being cancelled |
| `lifecycle_cancel` | 2 tasks, 2 plugins, 2 uses, cancelled rollbacks and abandoned threads; fair | every lifecycle call gets the lock and returns (`CallsReturn`) |
| `loop` | 2 runs of 2 iterations, a budget of 3 model calls with one auxiliary call per iteration, batches of 2 concurrent calls, 2 interventions, a clock; runs that are cancelled, a gate or an intervention that raises; fair | spend is bounded, no waiting intervention is lost, interrupts are honored, and every run ends |
| `resumable` | 2 runs of 2 iterations, a persistable and another intervention, up to 2 failing saves, batches of up to 2 calls, crashes anywhere | the model always sees every call answered, also after a resume, and no tool outlives its run; the snapshot is at an iteration boundary and holds the input before the model is asked; what was stored stays, and no intervention is applied twice |
| `resumable_faults` | `every_message=True`, 2 failing saves, crashes, a clock, all quirks | a session that is not pending is on disk as it is |
| `spawner` | 3 slots, depth 2, fan-out 2; fair | slots and queue match the agents, no orphans; with more slots than agents that can delegate every run ends |
| `spawner_deadlock` | the same with 2 slots | **violation** of `InterruptStopsAll`: the agents deadlock |
| `persistence` | 2 processes, 2 ids, 2 calls; 2 sessions, 2 plugins, 2 releases; 3 callers in 2 processes, 3 inode numbers, 2 ticks, 3 calls | the file store implements the abstract store (`Implements`) and keeps what it acknowledged; plugin state is kept; memory reads are current and creation times kept |
| `conversation` | up to 6 messages of 2 sizes, replies with text, two calls or nothing, a rewind, provider counts off by 0 or 2 | requests are well formed for every provider, hide nothing unaccounted and keep their budgets |
| `services` | 2 turns of 2 calls with one retry and a sticky router; 2 MCP servers, 4 starts and stops; 3 interceptors; all graphs of 4 plugins; fair | aborts stop retries, calls are reported, MCP sessions are owned, afters pair, the graph's order, cycles, impact and drawing are exact, workers end |
| `tools` | 2 shell calls with 3 cd commands; 3 kinds of machine with overlapping directories; texts of up to 6 characters; 2 editors and a writer; searches of 2 entries of 4 lines; fair | session state, process groups, confinement of redirections and of isolated commands, edits, pages and searches, and that shell calls end |
| `edit_line_endings` | an edit that begins at a line break of a CRLF file | **violation** of `EditKeepsLineEndings` |

The two violations are disagreements between the code and its documentation;
`PROJECT.json` describes them under `findings`, each with the quoted line.

**Bounds.** Two tasks and two runs are what the hazards need: every race here is
between a call and one other, and a session's second run is the first to find
state of an earlier one. Four uses of three plugins let a plugin be removed and
registered again in the middle of the list. The budget is one more than the
iterations of a run, so that it is reached exactly, both by a final response
and by one with tool calls, in the second run. Two calls in a batch suffice for
every order of answers. In `spawner` three slots are one more than the children
that can delegate at once, and `spawner_deadlock` is the boundary case. An agent
there makes one model call that delegates: with two, the safety properties were
also seen to hold (a million states), too many for the liveness check.
In `persistence` two calls make a race, and three memory calls let one caller fill a
cache, a second replace the file and the first read again; three inode numbers are
those of the file and of two concurrent temp files. In `conversation` the message
budget is 2 and the token budget 8, so that six messages need every stage: folding,
dropping and shrinking. In `services` one retry has all points of a retry loop, and
four plugins all shapes of cycle with something behind them. In `tools` three cd
commands are one more than the scan tracks (`MaxTrackedCds` 2, 4 in the code), and
chunks of 2 characters split every line break of a text of six.

**Deadlock.** TLC checks for deadlock in the runs of Lifecycle and in
`spawner`. The other runs say `CHECK_DEADLOCK FALSE` because the application may
stop making calls (`MaxRuns`, `MaxCalls`, ...) or the computation ends, and
`spawner_deadlock` is about a deadlock of a part of the system.

**Symmetry.** `persistence` permutes processes, ids and inode numbers, none of which
the code compares except for equality. It has no liveness property. The same model
values serve as processes, sessions and callers, so that one permutation moves all.

**Fairness.** `AgenticLoop!FairSpec`: weak fairness of the loop's own steps and
of each tool call, since the event loop runs whatever is ready, model calls have
a timeout and tools, approvers and interventions are awaited for as long as they
take; a tool that never returns would hang the run, in the code as in the model.
The application's actions (runs, interrupts, submissions, time) are not fair.
`Lifecycle!FairSpec`: strong fairness of the code of each task that holds or
takes the lock, because `asyncio.Lock` serves its waiters in turn, so one for
which the lock is free again and again gets it; cancellation is not fair.
`Spawner!FairSpec`: weak fairness of each agent and of the semaphore, whose queue
is explicit. `ModelFairness`: each worker thread goes on, since its requests have a
timeout and its waits an end; the task that awaits it and the application are not
fair. `ShellFairness`: the thread of a call goes on, since each of its waits has a
time limit (`timeout`, `_LINGER_GRACE`, `_DRAIN_TIMEOUT`); no helper process need
ever end.

## 4. Proofs

TLAPS proves the theorems below for every value of the constants, from the
assumptions that the modules name (`LifecycleAssumption`, `LoopAssumption`, ...)
and that TLC evaluates in every run. They type the constants and keep apart what
Python keeps apart: `None` from files, calls, processes and snapshots, `NoError`
from the errors, `Keep` from the values of a variable, `Nothing` from values and
session ids, `Absent` from what a memory file parses to. `MemAssumption` also says
that there are finitely many processes. A theorem that holds only without some of
the quirks of section 2 says so in an `ASSUME` of its own; the quirk is then one
whose counterexample TLC shows.

A property is seldom inductive; each part below gives the invariant that is, and
what it adds. Each was checked by TLC, as an invariant of the part's run, before it
was proved.

**LifecycleProofs**, for any plugins, tasks and uses. `TypeCorrect` holds for all
quirks, the other theorems for `Quirks = {}`: `NoPluginLeaks`, `StartOrder`,
`OneSubscription`, `StartedAtMostOnce`, `StopReleasesAll`, `RunsReady`. The
inductive invariant is `LifecycleInv`, in three parts. `TypeInv`: types, and
that exactly the lock holder is inside a critical section. `PhaseInv`: what the
holder's lists mean at each await; for instance, during a rollback nothing
later in the list than the plugins still to be rolled back is up, which is what
makes the dependency order survive it. `PluginInv`: the properties themselves,
told in terms of slots, and that no instance is registered twice. The properties
alone are not inductive: a step of `start()` only preserves the order because
`todo` holds what was unstarted when it began, and `replace()` only because a
harness that is not started has nothing up.

**AgenticLoopProofs**, for any calls, batches, interventions, limits and runs.
- `LoopTypeCorrect` (all quirks) needs that an iteration past the guards has an
  index below the limit.
- `EveryCallCountedOnce` and `OverspendIsBounded` (all quirks) rest on
  `SpendInv`: past the guards the cost is below the budget plus the auxiliary
  calls made since.
- `CompletedIsWithinBudget`, where only the loop's return ends a run.
- `InterruptIsHonored` and `StaleInterruptIsIgnored` rest on the agreement,
  while the loop runs, of the session's signal with the calls of `interrupt()`.
- `RunLeavesNoTool` and `ModelAlwaysSeesAnswers` (the parts of `CallsAwaited`), where no
  gather is torn down.
  The invariant `AnsweredInv` says that outside the gather the history is
  answered, and that within it all but the last message is, which is the
  assistant message of the batch being run; the lemmas `PrefixKept`,
  `PlainMessage` and `BatchAnswered` are the facts about sequences it needs.
- `InterventionsAreKept` (all quirks) is the action property `NoNoteLost`: a step
  changes the list of known interventions only at its end, except where a run that
  raises loses what it had taken. It rests on `TakenInv` (only a run that applies
  interventions holds any) and on lemmas about `Kept`, which says which members of
  a sequence a filter keeps.

**ResumableProofs**, for any number of interventions, runs and failed saves, with a
process that may die between any two events.
- `SavedSessionIsCurrent` (all quirks, either `every_message`) and
  `InputIsOnDisk` rest on `SessionInv`. Its part `QueueInv` relates the events that
  AutoSave has not been given yet to the session: all have its pending
  interventions, and only a message that is one of several added together comes
  with less than the whole history. `CurrentInv` extends the property to the
  moments between two events; `ModelInv` says that a run that reached the model
  emitted a boundary since its last message.
- `StoredAtBoundary` and `ResumedSessionsAnswer`, with `every_message=False` and
  gathers that finish (no `cancel`, no `raise_in_gate`): `AnswersInv` adds to the
  invariants of the loop that the snapshot is answered, so that `Crash` establishes
  what the loop then keeps.
- `NothingAppliedTwice`, unless an intervention raises while it is applied:
  `OnceInv` relates what the session and the snapshot know to what was submitted.
- `StoredIsKept`, the action property `SavedStays`, with `every_message=False` and
  nothing that ends a run while it applies interventions: `AheadInv` says that the
  session is never behind the disk.

**SpawnerProofs**, for any depth, fan-out and number of slots. `NobodyOrphaned`
(`NoOrphans`) from `SpawnerInv`: the children that run are the holders of slots, who
was called is awaited by a parent that gathers, and the queue holds exactly those
who wait, each once, which is what makes the semaphore's hand-over fill a free slot.

**PersistenceProofs.** The session store, for any processes, ids, snapshots and calls,
with kills and power losses between system calls: `StoreInvariant` says where each call is from its
files and its result, that a file has a name only when it is whole and synced, and
that the last process to change a session is still in its call. From it follow
`AcknowledgedSurvives` (`AckedSurvives`) and `StoreImplements`: initial states of
the store map to initial states of AbstractStore and every system call to a step of
it, with one lemma per system call, or to a stutter.

Plugin state: `StateIsKept` (`StateKept`), through any releases, imports and forks: `HeldInv` says that the process that holds a session has what is owed to it,
claimed or not yet. The memory store: `ReadsAreCurrent` (`ReadsCurrent`), for any callers and
processes: `CoherentInv` says that an item cached under the signature of the file is
that file's item, and `SeenInv` that one cached under an older signature, which a
call may still be given, is of a moment of that call. `CreationTimeIsKept` (the
action property `CreatedKept`): `LockInv` keeps the writers apart, and `MatchInv`
says that what a save read, decided and wrote to its temp file is still of the file
it is about to replace.

**ServicesProofs.** `AftersArePaired` (`AftersPaired`), for any number of
interceptors; `SessionsAreOwned` (`SessionsOwned`), for any servers and with a
failure or cancellation at every await; `AbortsStopRetries` and `CallsAreReported`,
for any retry policy, router and number of turns, where `AwaitInv` says which worker
is still awaited and `EventInv` counts the calls that are announced and not yet
reported.

The plugin graph, for any plugins and any requirements between them. `AnswersAreExact`
(`AnswersExact`) puts together `StartupOrderExact`, `CyclesReportedExact`,
`ImpactIsExact` and `DrawingIsComplete`. `GraphInv` has a part per loop.
- `WavesInv`: what was emitted requires only what was emitted before, and the counts and
  the wave are what is left of the relation. That a set of plugins none of which can be
  emitted contains a cycle is `WavesExact`, from the well-foundedness of proper subsets
  (`FewestRequired`).
- Tarjan's search. `StacksInv`: the node stack is in the order of the indexes, and the
  work stack is a path in it. `SearchInv`: a node of the path reaches all that is above it
  on the node stack, all that is on it reaches a node of the path below, and nothing
  leads from what has left it to the rest; the path thus cuts the node stack into
  segments. `LowInv`: a low link is the index of something on the node stack that the
  node reaches, and no greater than that of any its segment has looked at. `FoundInv`:
  what was recorded are the classes on cycles among what has left the stack. `PopComponent` is the heart of it: a node whose
  low link is its own index is the root of the last segment, and that is its class.
- `WalkInv`: the dependents of what the walk has met were met or wait.

`DrawingIsComplete` needs no invariant. The function in `Rendered` has no length to
count down, so that it exists is shown (`DrawingExists`) by taking the least of the
drawings that show enough.

**ToolsProofs**, for any number of calls at once. `SessionFollowsLatest`
(`SessionIsLatest`): `MovesInv` says that `cwd_seq` is the largest ticket of a move
and the directory that of its owner. `GroupsEnd` (`GroupGone`).

`RedirectionsStayInside` (`RedirectsConfined`), for any programs, allowlist and number of
`cd` commands: `ConfinedInv` says that a session in allowlist mode only ever is in
directories inside the root, and `AcceptedConfined` that the directories `check_shell`
follows are all that a command it accepts can be in, the give-up past `MaxTrackedCds`
included.

`IsolatedCommandsConfined` (`IsolationHolds`), for any root, scratch and runtime
directory, masks, links and exposed paths: `Decides` says which mount or rule is in force
at a path, the last that covers it, and the lemmas `BwrapHolds` and `ProfileHolds` go
through the groups of mounts or rules in the order they are asked for.

`CallsCompose` (`EditsCompose`), for any editors, writers and texts: `HolderInv` (exactly
the call that holds the lock is in its critical section), `PathInv` (inodes) and `EditInv`
(what a call read is what the file still holds). That an edit list does to a text what it
does to its lines, `SeenAlike`, is a hypothesis: `edit_line_endings` shows an edit for
which it fails. `LfCallsCompose` discharges it where lines end in LF, for any edits, since
`TextsInv` keeps CR out of the files and `ToLf` and `ToCrlf` are then not asked for.

`PagesAreWhole` (`EveryLineOnce`), for any texts, edit lists, windows, chunk sizes and
limits: `PageInv` says that a reader nobody wrote under has a held CR or nothing from a
place `q` of the text on where no CR LF is parted, has as many lines behind it as end up
to `q`, and carries what there is of the line at `q`; and that its page has the lines from
its offset to its last. `ChunkIs` is one call of `Chunk`: the breaks of its buffer are the
next ones of the text (`CutsAre`), so its lines are (`LineSeen`), and what it carries over is
again what there is of a line (`RestSeen`), since `_extend` gives for the pieces of a line
what it gives for the line (`ExtendTwice`). `TakeNext` is one step of the loop of `_read`.

`SearchesAreHonest` (`SearchHonest`), for any tree, query and caps: `SearchInv` says that
the entries visited gave all their findings, unless the search was cut short, and that
what was written is in order and a prefix of the findings. `GroupIs` is one step of
`_render` (a match and the lines around it, behind a gap if they do not follow), `RenderIs`
the lines of one file, and `CutShortIs` what `_clip` leaves.

**CompactionProofs**, for any settings of the manager, sizes of messages, replies and
drifts of the counts. `BudgetIsKept` (`BudgetKept`), `HiddenIsAccountedFor`
(`HiddenAccountedFor`) and `RequestsAreWellFormed` (`RequestsWellFormed`) are about what
one call of `process()` makes of what earlier calls left, so the proof has both.
`CompInv` is what lasts from call to call:
`HistoryInv` says that the history is a `Dialogue`, in which calls and results are where
they belong, and that each message knows its place; `MemoInv` that the recap is of the
messages between the head and its cut, and that its cuts part no call from its results,
unless the history was cut back since, and then `process()` is next. `StageOk` is what
holds within the call, kept by each stage (`OpenedIs`, `HeadTrimmedIs`, `FoldedIs`,
`TruncatedIs`): the tail is what follows the start, the recap what precedes the cut,
and the note counts what is between. For the budgets, `ChooseIs` shows that a cut into
too long a view leaves few enough messages or has no open cut behind it, and
`TruncateIs` that a round per message is enough: each makes the view fit or leaves one
text less that can be cut.

That a request is well formed has two halves. On the side of the manager, `Alike` says
that cutting a text changes the size of a message only, and `ViewIsComplete` that a head,
a seam and what follows a clean cut are again a complete conversation (`Complete`); the
history itself stays a `Dialogue` through replies, results and rewinds (`GoesOn`,
`IsAnswered`, `IsCutBack`). On the side of the providers, `OneFormat` says that the turns of
Anthropic, Bedrock and Gemini are the same for any messages, and `CompleteIsWellFormed`
that a complete conversation makes a request each provider accepts: by induction over
the messages, where `Calm` is what the turns are like between batches of results and
`Busy` what they are like within one.

**Induction.** What a recursive definition or a fold returns is proved by induction
on a length, from the lemma `NaturalInduction`, which takes the set of numbers it is
about instead of a predicate (`Induction` in ToolsProofs); it follows from the well-foundedness of the strict
subsets of a finite set in FiniteSetTheorems. In CompactionProofs `Induction` is that
lemma, and `Recursion` (as in ToolsProofs) follows from it: a recursive function with a first value and a
next one for each exists, which is what a `LET f[k \in ...] == ...` of the model needs
before anything can be said of its values.

**What the proofs showed about the model.** Four definitions had `CASE` arms that
overlapped (`SavedState!Owing`, `Compaction!OverBudget`, `SearchTools!Findings`,
`WireFormat!OpenAIStep`): TLC takes the first arm, TLA+ any, so the value was not
determined. They are `IF ... ELSE` now, in the order of the code. `Emits` was one
atomic step for all the events of a step of the loop, which hid a death between two
of them; the queue of events came out of that. `WireFormat!CallParts` and
`Compaction!Truncate` are recursive functions now, in place of a sorted set and a
recursion that counted the rounds down in a second parameter. So is what the wire formats
fold a history with (`WireFormat!Through`), and what a provider demands (`Alternating`,
`Answered`) is stated over places in the turns instead of by further folds; it also
demands now that the last turn is the user's. `TextLines!Occurrences` and
`Substitute` are recursive over the positions that matter now, where they took indexes
outside of their domains or jumped ahead; the closure of the requirements was a transitive closure of relations and
is the least closed set; and `Rendered` takes one argument at a time. `SplitLines`, `Chunk`
and `GrepFile` take places in order from a recursive function (`InOrder`) in place of a
sorted set, `TakeAll` is recursive instead of a fold, and `Findings` is a set. Of
Isolation the proof showed that `Granted` had left out `/dev`, where the profile of
sandbox-exec lets a command write and which no place that TLC looked at was in.

**Only model-checked.** Liveness (`RunEnds`, `CallsReturn`, `WorkersEnd`,
`ShellCallsEnd`), which needs fairness and `ENABLED`.

## 5. What the models leave out of the code, and what they showed

Facts about the code that reading it for the models brought up and that no property
states, because nothing promises otherwise:

- `FileSessionStore.delete` does not sync the directory, so a deleted session may be
  back after a power loss; of two processes that delete a session at once one gets a
  `FileNotFoundError`; temp files of killed writers stay.
- The sweep of memory temp files goes by age, so a save that stalls for an hour
  fails when another store opens (it raises; nothing is lost).
- A state that its class fails to restore is dropped, and the next save overwrites
  it; interventions of classes a process has not imported are dropped on resume;
  state that cannot be copied is not in a fork (`SavedState` has all three).
- A `stop()` of the MCP client that is cancelled between two closers leaves closed
  sessions listed, and the next `start()` returns at once; `SessionsOwned` leaves
  that client out.
- Retries inside Bedrock's SDK do not look at interrupts (`plugins/models/base.py:65`
  says so); a cancelled call has no closing event; a cancellation that arrives in an
  `after` is dropped when the call itself had failed.
- A history that was cut back and has grown past the folded part before the next
  request is taken for the old one (`summarizing.py:267`). In the model a history that
  was cut back gets no message before the next request.
- Variables have no tickets: the last shell call to finish wins. Locks of the file
  tools are those of one process, and a read during a write may see half of it.
- `HarnessGraph.render` leaves out a cycle nobody outside it requires when there are
  other roots.
- A budget is per agent: a fork starts with a cost counter of its own
  (`harness/context.py:224`), so `max_cost` bounds each agent of a tree and not
  their sum.

Not modelled: the scanner of shell text (`services/shell.py`), glob and ignore
patterns, the parsing of provider responses, rendering, logging, skills and
evaluators (character-level parsing and formatting without state); BM25 ranking and
token estimates (floating point over text); what the operating system does with
mounts and process groups, and the MCP SDK (outside the repository; modelled only by
what the code relies on); `AutoSave(strict=True)`; recycled process ids
(`services/process.py:166`) and the eviction of shell variables past 256.
