# Open Quant Studio: TLA+ verification project

Open Quant Studio is a local research workbench for trading strategies. A Python service
(`services/quant-domain`) keeps everything durable in one SQLite database, a content-addressed
blob directory and one Git repository per project. A worker process executes queued jobs. A
TypeScript control plane (`apps/control-plane`) hosts agent sessions and the browser API, and a
Rust crate (`crates/quant-engine`) computes backtests. This directory models the parts of that
program whose correctness depends on order: who may write when, what survives a crash, and what a
later command may rely on.

Line numbers below are those of `services/quant-domain/src/quant_domain/domain.py` unless a file
is named.

## 1. Inventory

| component | state | operations | what is hard | what makes it correct |
|---|---|---|---|---|
| Job runner and formal runs (498-1150, 3364-4878, `worker.py`, migrations 005-007) | jobs, run specs, preparations, checkpoints, formal runs, validations; memory of each worker | request, cancel, retry, capture; claim, verify, prepare, checkpoint, finalize, finish | leases, several workers, crashes between transactions, cancellation racing completion, strategies that are not deterministic | one writer, one frozen tape, an unbroken chain of checkpoints, one verdict per run, every run ends that meets no exception at each claim |
| Revision graph and promotion (1745-2574, `git_workspace.py`, migration 004) | revisions and files, variants, heads with versions, head history, candidates, promotions, Git references | create revision, create variant, create merge candidate, promote | optimistic comparison of two heads, heads that return, Git outside the database transaction | a linear main line with no lost work, promotion only on a validation of its own, protected objects |
| Command ledger, events, outbox (133-315, 2891-3121, 5986-6114, `app.py`, migrations 001-002, `domain-event-stream-client.ts`) | receipts, artifacts, events with stream sequence numbers, outbox | submit, replay, register, stream, resume | lost responses, concurrent duplicates, work before the transaction, broken streams | one effect per command, answers that agree with the log, rows that name the artifacts they mean |
| Session Fabric, durable (2576-3362, 5864-5984, migration 003) | sessions, workbench bindings, messages, receipts | register, bind, queue, transition | rebinding while messages are queued, repeated transitions | a message reaches its target once, receipts only move on |
| Session Fabric, control plane (`session-fabric.ts`, `session-registry.ts`, `pi-session-adapter.ts`, `pi-jsonl-recall.ts`) | live sessions, wake queues | attach, wake, deliver, recall | asynchronous callbacks, lost wakes | every queued message is eventually delivered to a live session |
| Diagnostics and log retention (1152-1292, 1604-1744, 4918-4996) | logs, policies | write, page, delete, configure, sweep at opening | two processes, policies read before they are applied, paging while rows go, statements of limited length | sweeps follow a policy in force, listings are complete, a data root opens |
| Forward tests (1293-1486, `forward_replay.py`) | forward tests | replay | a long computation between two looks at the database | one test per request, in the active workbench, with its own transcript |
| Project archive (1487-1603, `project_archive.py`) | archives; database, references and blobs of each data root | export, import | three stores without a common transaction, crashes, a worker beside it | archives stand alone, databases name only what is there, imports destroy nothing and end |
| Data snapshots and import (317-497, `data_import.py`, migration 009) | snapshots, artifacts | preview, create | blobs before the transaction, shared content; parsing of market data | a snapshot names its own source, bars and engine input |
| Run report (`run_report.py`, migration 010) | none | compute | arithmetic | figures follow from the result |
| Strategy host and library (`formal_runner.py`, `strategy_library.py`) | three processes, a thread, pipes and queues | start, release a bar, answer, close, reap | timeouts, late and stray output, processes left behind, user code | the tape is what the strategy answered, decided without the future; the host ends |
| Quant engine (`crates/quant-engine`) | an engine checkpoint | start, step, finalize | accounting, stepping in batches | stepping computes what one pass computes |
| Contracts (`packages/contracts`, `contracts.py`) | none | validate | - | schemas agree between languages |
| Browser server, revision client (`browser-server.ts`, `domain-revision-client.ts`) | none of its own | proxy | - | - |
| Research UI, agent-team scripts, strategies, fixtures | - | - | - | - |

How they interact: the control plane and the browser send commands over HTTP to the domain
service; each command is one `BEGIN IMMEDIATE` transaction that also writes its event, its outbox
row and its receipt. The worker process shares nothing with the service but the database and the
blob directory. `formal.run_request` reads the heads of the revision graph, the end of a run writes
the validation that `workspace.revision_promote` reads.

## 2. Plan

1. `FormalRun` with the contract it keeps, `RunContract` - *done*.
2. `RevisionGraph` with `HeadLog` - *done*.
3. `PromotionPipeline`, the composition of the two - *done*.
4. Proofs about `FormalRun`: type correctness, the claim fence, the verdict, the frozen tape, the
   chain of checkpoints, and the step simulation behind `KeepsContract` - *done*.
5. Proofs about `RevisionGraph`: its safety, `HeadsMoveToChildren`, and the step simulation behind
   `KeepsHeadLog` - *done*.
6. Proofs about `PromotionPipeline`, from those about its parts - *done*.
7. `SessionFabric`: durable receipts, the control plane's deliveries and the resuming reader of
   the event stream, and proofs of its four invariants - *done*.
8. `CommandLedger` with the log it keeps, `CommandLog`; proofs of its typing, its three invariants and
   its refinement - *done*.
9. `ProjectArchive` and `StrategyHost`, with proofs of their safety - *done*.
10. `LogRetention`, with proofs of its typing, `SweptByAPolicy` and `PagesComplete`, from lemmas about
    sums over finite sets and about the places of rows in an ordered page - *done*.
11. What is left is listed in section 6.

## 3. Modules

### FormalRun

One variable per table (`jobs`, `run_specs`, `preparations`, `checkpoints`, `formal_runs`,
`merge_validations`) and one for the memory of the worker processes. `verify_jobs` are the
`artifact.verify_sha256` rows of the jobs table, kept apart because they have no lease and no run.
Every database transaction is one action; what a worker does between two transactions is folded
into its neighbour because nobody else can see it.

| action | code |
|---|---|
| `Request`, `Cancel`, `Retry`, `Capture` | 498-827, 829-1013, 1015-1150, 133-315 |
| `ClaimRun`, `ClaimVerification`, `FinishVerification` | 3364-3561 |
| `Prepare`, `PublishPreparation` | 3900-4149 |
| `LoadCheckpoint`, `PersistCheckpoint`, `Finalize` | 4291-4528, 4151-4289 |
| `Execute` | 3563-3842, the `m3-v1` policy, which has no checkpoints |
| `FinishRun` | 4581-4804 |
| `Crash`, `ExitOnError`, `Restart` | `worker.py`: the loop without `except`, and `main`, with which a new process begins |
| `AbandonedLeaseExpires`, `HeldLeaseExpires` | the comparison with the database clock in 3373-3377 and 3883-3889 |
| `CreateCandidate`, `MoveHeads` | what the revision graph does to candidates, as far as a request sees it |

Abstractions. A claim's UUID token is the claim epoch it was drawn in. A calculation context (a
hash over spec, engine, input and intent tape) is the pair of run and tape: everything else is the
same for a run. `gate_policy_version` is `m3` or `m5`; `m8-v1` takes the `m5` path. The strategy
host is a choice among tapes, a different one each time if it likes, because nothing in the code
makes it deterministic. A lease is live or expired, and the clock that decides is the database's.
`created_at` is read before the write lock is taken, so stamps need not follow commit order.
Refused commands change nothing and are actions that are not enabled.

Exceptions. `run_worker` catches nothing, so an exception that leaves `run_next_job` ends the process: the
transaction is rolled back and the job stays `running` until its lease runs out and another worker claims it
(`ExitOnError`). Besides a failed fence there are three sources, and each meets the next worker too:

* A market input that has the shape tested at 3987-4004 and lacks a field read at 4013-4032 (`timestamp`,
  `account.symbol`) raises a `KeyError` in `_m5_preparation`. `Malformed` are the specs with such an input; a request
  never looks into it.
* `_register_generated_artifact` knows a content under one identity. If a client captured a checkpoint's
  bytes before the run made them, the registration at 4193 raises; for a result, a manifest or the tape of an
  `m3` run the ones at 4611-4619 do. `Refused` are the contents so captured. (In `_m5_preparation` the
  same exception is caught, 4299-4301, and the run fails.)
* The two policies give one tape and one result different identities (`m3` at 3676-3735, `m5` at 4050-4062 and
  4440-4446). Their bytes are the same if two runs compute the same, and whoever registers first has them
  (`Published`, `Frozen`, `OtherTape`, `OtherResult`). A preparation of an `m5` run takes over the id of a registered
  tape (4081-4084) but not its description, so this worker's completion raises (`adopted`); the next one reads
  the description from the table, and only the result may still be in its way.

`Poisoned` names the runs that meet such an exception at every claim. They stay `running`, 3382-3387 keeps all other
formal runs out, and one under `m3` cannot even be cancelled: nothing in the code ends it. The model takes all runs
of one instance to compute on the same bars, so that equal tapes give equal results, and an `m8` run, whose
input is a portfolio's, can share its tape with others but not its result; a content in `Refused` is captured before any run makes it.

`RunContract` is the abstract specification: a run is opened, frozen, advanced and settled once.
`KeepsContract` is the refinement, with the mapping at the end of `FormalRun`.

### RevisionGraph

One project. Revisions carry their Git parents and the set of their paths, heads carry versions,
`head_history` is in version order, `refs` are the references `refs/oqs/revisions/*`. A command is
one action, and `HeadsMoveToChildren` says of each what no two writers may do to one head.
`CrashBeforeCommit` is the one intermediate state that survives: the Git reference is
there and the transaction is not. `HeadLog` is the abstract specification of the main line.

### PromotionPipeline

Both modules over one database, by `INSTANCE`. `FormalRun`'s `candidates` become a state function
of the heads (`CandidateSeen`), `RevisionGraph`'s `merge_validations` a state function of the runs, so the two
environment assumptions (`CreateCandidate` and `MoveHeads` there, `Validate` here) are discharged:
`KeepsParts` says that the whole, seen from each part, is a behaviour of that part's specification.

### SessionFabric

The agent sessions of one activity send messages to each other. The service keeps them with a
receipt each (`queued`, `receiver_received`, `injected`, `acknowledged`); the control plane writes
a message into the journal of the recipient's Pi session and moves its receipt on. The control
plane is a single thread, but every call is asynchronous, so a delivery is a *task* that runs from
one `await` to the next while the service, Pi and other tasks move.

| variable | code |
|---|---|
| `bound`, `messages`, `receipts`, `events` | `workbench_bindings`, `session_messages`, `message_receipts`, `domain_events` |
| `registry` | `SessionRegistry.#sessions`, its `activeWorkbenchId` |
| `journal`, `followups`, `streaming` | the JSONL of a Pi session, what Pi holds back during a turn, `isStreaming` |
| `injecting` | `PiSessionAdapter.#injectionPromises` |
| `tasks` | the stack frames of `#deliverMessages`, `#deliverOne`, `#inject`, `acknowledge`, `bindWorkbench` |
| `reader` | the cursor a caller passed to `readEvents`, the events acknowledged since, the end of the batch |
| `offline` | no variable of the code: messages the reader passed over because their session was not live |

| action | code |
|---|---|
| `Register`, `QueueMessage` | 2690-2764, 3123-3209 |
| `Deliver`, `Acknowledge`, `Bind` | `session-fabric.ts` 202-223, 259-284, 125-139: up to the first request |
| `Read`, `HandleEvent`, `BreakStream` | `app.py` 84-124, `session-fabric.ts` 225-257, `domain-event-stream-client.ts` 64-136 |
| `Receive`, `Check`, `MarkOrAcknowledge`, `Refused` | `session-fabric.ts` 343-408, domain 3258-3362 |
| `Inject`, `Send`, `Confirm` | `pi-session-adapter.ts` 374-419 |
| `CommitBind`, `Activate` | domain 2766-2868, `session-registry.ts` 68-87 |
| `Open`, `Stop` | `pi-session-adapter.ts` 232-280, `session-registry.ts` 116-130 |
| `BeginTurn`, `EndTurn`, `AbortTurn` | the Pi agent (external) |
| `LoseRequest`, `LoseResponse` | what `domain-session-client.ts` 220-236 reports as an exception |

Abstractions. One project and one activity. `Kinds` are the kinds of message clients send; a `send`
differs from an `ask` in that nothing replies to it. A command or query of the service is one step, and its
response arrives with it, except for a bind: there the order of the responses matters. A delivery asks for a page of
the inbox, any `after` and any `limit` up to `MaxPage` (100 in `domain-session-client.ts:324`): the page decides which messages
the task looks at. A client
names the sender's active workbench, and deliveries leave the optional `workbenchId` out, so they
use the registry's. Of Pi the module assumes what the adapter itself relies on: a message sent
outside a turn is in the journal when `sendCustomMessage` resolves, and one sent during a turn is
written or dropped when the turn is over. No code of the repository stores the reader's cursor, so a
reader starts again at 0 after `Stop`. Left out: steering, prompts, recall (it only reads), bodies
and source references of messages, and unregistering one session while the process runs on.

### CommandLedger

A command reaches the service as an envelope under a `command_id`. Clients that got no answer send
it again, two handlers may work on one command, and the service may stop between any two steps.
The module keeps what all commands share, receipts, events and artifacts, and the commands that no
other module covers.

| variable | code |
|---|---|
| `blobs`, `artifacts` | the files under `artifacts/sha256`, the table `artifacts` |
| `rows` | `context_items`, `session_messages`, `data_snapshots`, `forward_tests`: key, artifacts named, event |
| `bench` | the active row of `workbench_bindings` |
| `events`, `receipts` | `domain_events` (each with its `outbox` row), `command_receipts` |
| `handlers`, `answers` | the call of `submit_command` a handler is in, every answer sent |

| action | code |
|---|---|
| `StoreBlob`, `Submit`, `Respond` | `app.py` 45-55, 58-82 |
| `CommitCapture`, `CommitMessage`, `CommitBind` | 187-315, 3123-3209, 2766-2868 |
| `BuildSnapshot`, `StoreMarketInput`, `CommitSnapshot` | 317-350, 351-496 |
| `CheckForwardTest`, `ReplayForwardTest`, `CommitForwardTest` | 1293-1312, `forward_replay.py`, 1367-1485 |
| `CommitKnown` | the look at `command_receipts` with which every transaction begins |
| `Stop` | the service ends and loses its handlers |

Bytes are told apart by what they are made from and how (`Content`): an upload, its normalized bars
under a price basis, its engine input, a transcript. The id of an uploaded artifact is the
client's choice, that of a generated one is determined by its content or by the row. A forward
test is replayed outside any transaction: between `CheckForwardTest` and
`CommitForwardTest` others bind, capture and record. That is more than one service does, because `app.py` 58-65 calls
`submit_command` synchronously in its event loop: handlers that interleave between two steps of a command stand for
several services on one database, and what holds of them holds of one. `CommandLog` is the abstract specification: a
log in which each id stands once, and answers that say no more than the log does.

### StrategyHost

Four sequential programs: `run_strategy_host` in the worker (`parent`), the broker process, the
callback process, and the thread in it that runs the strategy. Pipes are sequences of frames with
an open end, the two queues of one place are the fields `request` and `result` of `strategy`. Each
wait may end by its frame, by the end of the other process or by its timeout, which may come at
any moment (`GiveUp...`). A frame carries the request id; the random token is new with each id and
is left out. The strategy answers any list in `Answers`, raises, hangs, starts threads that outlive it, and
writes stray lines to the inherited descriptor. `trouble` records that something other than
a timely, acceptable answer has happened; it is what `LegalStrategySucceeds` speaks of.
`EngineAccepts` is the check of the portfolio engine (`portfolio_v2.rs` 765-779), with `InOrder`, the
sessions' order that it insists on (721-730).

### LogRetention

Rows of `diagnostic_logs` with level, priority, day and size; the clock counts days. Service and
worker each open the data root: `ReadPolicies` is the query of `apply_log_retention`, `SweepProject`
its transaction for one project, `Serve` the end of `QuantDomain.__init__`. `Configure`, `DeleteLogs`, `List`
and `ReadPage` are the users' requests. `inForce` is no variable of the code: it collects the policies
that stood for a project since a process read its own. `Constants` is what the module asks of its constants, assumed
where they get their values. `MaxVariables` is SQLite's limit of
placeholders, which is the only way in which a sweep can fail.

### ProjectArchive

Several data roots, each with the rows of one project (`db`), its references (`refs`), its blobs, the
request its service is working on, and the worker (`RunJob`) beside it. An export is `Snapshot`
(one read transaction), `ReadRefs`, `Publish`; an import is `BeginImport` (the archive is checked in a
temporary directory, the target is compared), `StoreBlob` for each body, `MakeRepository`,
`CopyRepository`, `RestoreDatabase`, `CheckRestored`, `Record`. A crash may come between any two
of these steps, and `CrashInRevision` between the reference of a revision and its commit. Hashes
stand for what they identify, so a body that is there is the right one. The service's handlers call the domain
synchronously, so a root works on one request at a time.

## 4. Runs

| run | question | result |
|---|---|---|
| `FormalRunCompetition` | two workers, two candidates, two specs: can two writers pass the fence, a run have two endings, or a recovered calculation differ from the frozen one? | passes, 555k states |
| `FormalRunLiveness` | does every run end, and can runs starve a verification, but for runs whose every claim raises? | passes, 500k states |
| `VerificationAnswered` | is every claimed verification answered, as the event contract says? | **violated** |
| `RevisionGraph` | candidates of two variants compete; files, limits, references, a crash | passes, 56k states |
| `InterruptedCommands` | may an interrupted command be sent again? | **violated** |
| `PromotionPipeline` | runs validate while heads move | passes, 230k states |
| `SessionMessages` | a reader and a tool call deliver two messages between two sessions, with a fault: is each written once, are receipts moved from stale states, does the reader's cursor pass a message? | passes, 2.7M states |
| `SessionLiveness` | is every queued message delivered? | passes, 129k states |
| `SessionWorkbench` | do tool calls carry the current workbench, as the session document says? | **violated** |
| `CommandLedger` | does a command take effect once whatever is lost, repeated or concurrent, and do rows mean what they name? does the strategy host return what the strategy said, and end? | passes, 706k states |
| `DataRoot` | do sweeps follow a policy, do listings lose rows? are archives complete and imports all or nothing? | passes, 290k states |
| `StrategyRerun` | does a legal strategy always succeed? | **violated** |

Every property has a mutant, an operator beside the definition it replaces whose comment begins
with `Fault:`. It names the plausible mistake the property is there to catch.

`MCCommandLedger` and `MCDataRoot` each check two components that share no state side by side: a
constant choice `part`, made in the initial state, says which of the two moves, so the state space
is the sum of the two and not their product, and one run checks both. Liveness formulas and
fairness are conditioned on `part`.

Bounds. `MaxFaults` counts crashes and leases outrun by a live worker; one is enough for a
stale writer beside the worker that took its run over, or for a restart in the middle of one. A second
one multiplies the states by seven and shows nothing new. Two workers
are enough to have one of each. Two runs are the least that give a retry or a competitor. Three
bars in batches of two give a full batch and a cut one; `FormalRunLiveness` has one worker, which
must do everybody's work, one batch of two bars, one of two specs with a malformed input, and a client that has
captured what will be the first checkpoint of the run requested first (`RefusedCheckpoint`). `MaxClaims` is 3: a claim, one after the fault that `MaxFaults` allows, and one
after an adopted tape has made a completion raise. Whoever would be claimed a fourth time is poisoned, and would be for ever; the
bound is far from hiding an ending, since each of the disjuncts of `Poisoned`, and each of the two exceptions,
is needed for the run to pass. Its clients use their run and validation ids in one order (`SpecInOrder`): this takes the
place of a symmetry, unsound for liveness, and leaves out only that the run with the captured checkpoint is the second. In the graph, five revisions allow a root, two
competing candidates and a second promotion; three variants with room for two reach the limit, and
two paths with room for two files let a merge lose one.
`PromotionPipeline` has one bar and one worker: the interleavings of workers are the subject of the
other runs.

`MaxFaults` in `SessionFabric` counts lost requests, lost responses, aborted turns, broken streams and
stops; `MaxBinds` counts changes of workbench. Two tasks, the reader and one tool call, are the least in
which one injects while the other looks. Two messages are
the least for an inbox whose second entry is stale, for an ask and its reply, and for a delivery
that holds up another; `MaxObjects`
bounds the sessions registered and the messages sent together, so that three are two sessions with one message
between them, or one session with two messages to itself. `SessionMessages` has no message of kind `send`, which
does nothing that an unanswered `ask` does not do; the other two runs have all kinds. The clients' identifiers, the sessions and all tasks but the reader are
interchangeable (`Symmetry`), except in `SessionLiveness`, where symmetry would not be sound.

In `CommandLedger` three sends by two handlers give a command beside its own repetition and a
third one that comes when both are done; its envelopes want one upload under two artifact ids, under two price
bases and in two snapshots, one test and one item twice, and an id for two commands. Four bars in
two sessions are the least with two symbols per session, and one stray line is enough to be taken
for an answer. In `DataRoot` a page of one row and three rows make a listing of several pages,
two placeholders a sweep that is too long; one policy beside the default is enough for a stale
one. Two roots, one revision, one run, two archives and two import commands let an archive be made
of an imported project, be imported where it came from, and arrive when the project has gone on.

`CHECK_DEADLOCK FALSE` throughout, because clients' identifiers are finitely many and
the system rests when they are used up.

Fairness (`FairSpec`). A worker polls for ever (`worker.py:18`), so each worker's own steps are weakly
fair. An abandoned lease runs out, because time passes. A worker that exited is started again (`Restart`): no code does that.
`scripts/run-m4-local.mjs` stops the whole stack when a process exits (263-283), `compose.yaml` has no restart
policy, and restarting is the operator's act (`docs/08_IMPLEMENTATION_PLAN.md:84`, "restart resumes a long Run"). It is an
assumption about the person who runs it, and without it no run needs to end. Commands, crashes and outrun leases
are not fair, and `MaxFaults` makes them finitely many: a strategy that always outlasts its
30-second lease is never finished by the code, and `RunsSettle` does not claim otherwise.

`RunsSettle` has one exception, `Blocked`: from some time on there is a poisoned run. Which runs are poisoned is said by
the data alone (the input, the registry, the frozen tape), not by what workers do, so a run that is not
ended for any other reason violates the property. `VerificationsDone` has the same exception for a poisoned run
queued no later than the verification: the oldest job is claimed first, so the worker that comes back takes the poisoned run
again and again. A worker that dies on a verification itself leaves it behind, see `VerificationAnswered`.

In `SessionFabric` (`FairSpec`) the tasks and the reader are weakly fair, because a promise that can
be settled is settled and the caller of `readEvents` calls it again with the cursor it has. Turns
end: an agent that never ends its turn holds messages back for ever. A session that is not live is
opened, an assumption about whoever starts the control plane. Faults, binds, tool
calls and turns are not fair. `Delivered` has two exceptions, and both are behaviours of the code:
a message whose event was handled while its session was not live waits for a `pull`, and while a
workbench is out of step every delivery of the session is refused and the reader, which handles
events in order, stands still.

That somebody starts the processes of `LogRetention` again when they end is the same assumption as for the workers,
so their opening steps are weakly fair; users and writers are not. The service of `ProjectArchive` works on
what it has begun (weak fairness), and a client whose import has no receipt sends it again: strong
fairness, because the root may be busy with something else each time it looks. `ImportsEnd` names
the reasons for which an import never ends: another workbench, a repository left by a crash
in a root without a project (`_validate_empty_target` refuses it, so a root that crashed between
the repository and the database cannot be used for the import again), and a project that is not what the archive
holds. In `StrategyHost` parent, broker and callback are weakly fair, as each of their waits has a
timeout; the strategy is not, and `HostEnds` holds although it hangs. Its exception is the code's: a
broker that the parent had to terminate cannot stop its callback, and a thread that the strategy
started keeps that one alive. `DataRootOpens` has one exception too: a project with more rows to sweep
than one statement can name.

### What the four violated runs show

* A worker that dies after claiming an `artifact.verify_sha256` job leaves it `running` for ever.
  `run_next_job` takes back only `formal.run` jobs (3371-3380). `docs/04_COMMAND_EVENT_CONTRACTS.md`
  promises one of two outcomes.
* `protect_revision` runs before `COMMIT` (1945-1961) and refuses a reference that exists. A process
  that dies between the two leaves the reference, and every later attempt to send the command fails, which the
  document's account of idempotent commands does not allow for.
* `bindWorkbench` changes the active workbench in the service first and in the registry when the
  response arrives (`session-fabric.ts:134-141`). Two binds answered in the other order, a lost response, or a
  restart, which registers the session with its first workbench, leave the two apart. The service
  then refuses every delivery of the session until it is bound again.
  `docs/03_SESSION_FABRIC.md:10` says that tool calls carry the current workbench.

* After sending its answer the broker asks whether its input is quiet (`formal_runner.py` 348, 366) and
  gives up if it is not. The parent may have read the answer and sent the next bar, or closed the pipe
  after the last one, by then: nothing makes it wait. A strategy that answers every bar correctly and in
  time then fails, and the more bars there are the likelier. The behaviour was confirmed by running the program: with
  2000 bars no run in five succeeded, with the check removed all did.
  `docs/14_M5_RECOVERY_LIFECYCLE_EVIDENCE.md:21-22` says that rerunning a legal strategy succeeds.

## 5. Proofs

TLC's runs show the properties on small instances. The theorems hold for every number of workers,
runs, candidates, bars, variants, sessions, tasks, handlers, envelopes, roots and faults. All of them are
about the whole specification of their module, and all are checked by TLAPS to the last leaf.

| module | theorem | statement |
|---|---|---|
| `FormalRun_proofs` | `TypeCorrect` | `Spec => []TypeOK` |
| | `OneWriterAtATime` | `Spec => []SingleWriter` |
| | `RunsSettleTogether` | `Spec => []SettledTogether` |
| | `EndedRunsAreHistory` | `Spec => SettledForever` |
| | `OneTapePerRun` | `Spec => []OneFrozenTape` |
| | `CheckpointsAreOneChain` | `Spec => []CheckpointChain` |
| | `RunsKeepContract` | `Spec => KeepsContract`, the refinement of `RunContract` |
| `RevisionGraph_proofs` | `GraphTypeOK` | `Spec => []TypeOK` |
| | `CommittedIsProtected` | `Spec => []Protected` |
| | `MergesAreComplete` | `Spec => []MergeComplete` |
| | `PromotionsAreValidated` | `Spec => []PromotionsValidated` |
| | `NoWorkIsLost` | `Spec => HeadsMoveToChildren` |
| | `MainLineKeepsLog` | `Spec => KeepsHeadLog`, the refinement of `HeadLog` |
| `PromotionPipeline_proofs` | `PartsAreKept` | `Spec => KeepsParts`, the whole implements both parts |
| | `PromotedRunsAreComplete` | `Spec => []PromotedOnCompleteRun` |
| | `StaleCandidatesStayOut` | `Spec => StaleStaysOut` |
| `SessionFabric_proofs` | `FabricTypeOK` | `Spec => []TypeOK` |
| | `MessagesInjectedOnce` | `Spec => []InjectedOnce` |
| | `LogTellsReceipts` | `Spec => []EventsTellReceipt` |
| | `ReaderPassesNothingOver` | `Spec => []NothingPassedOver` |
| `LedgerAndHost_proofs` | `TypeCorrect` | `Spec => []TypeOK`, of `CommandLedger`, as the next four |
| | `LedgerKeepsLog` | `Spec => KeepsLog`, the refinement of `CommandLog` |
| | `RowsAndEventsMatch` | `Spec => []RowsTellEvents` |
| | `RecordedInActiveWorkbench` | `Spec => []InActiveWorkbench` |
| | `RowsNameTheirBytes` | `Spec => []RowsResolve` |
| `StrategyHost_proofs` | `HostTypeOK`, `AnswersAreTheTape`, `NothingIsForeseen` | `Spec => []TypeOK`, `[]TapeIsAnswers`, `[]NoLookAhead` |
| `LedgerAndHost_proofs` | `LedgerAndHostTyped`, `AnswersAreTheTape`, `NothingIsForeseen` | the same of `LedgerAndHostSpec`, which the run checks |
| `DataRoot_proofs` | `ArchiveTypeOK` | `Spec => []TypeOK`, of `ProjectArchive`, as the next four |
| | `ExportsStandAlone` | `Spec => []ArchivesStandAlone` |
| | `DatabaseComesLast` | `Spec => []Grounded` |
| | `ImportsAreThere` | `Spec => []ReceiptsTell` |
| | `ImportsDestroyNothing` | `Spec => NothingOverwritten` |
| `LogRetention_proofs` | `LogsTypeOK`, `SweepsFollowAPolicy`, `ListingsAreComplete` | `Constants => (Spec => []TypeOK)`, and so `SweptByAPolicy`, `PagesComplete` |
| `DataRoot_proofs` | `DataRootTyped`, `SweepsFollowAPolicy`, `ListingsAreComplete` | the same of `DataRootSpec`, which the run checks |

### Assumptions

Each is named in the module that declares the constants, and TLC evaluates it on every run.

* Bounds are natural numbers; there is at least one bar, and a batch has at least one (`PositiveBars`,
  `PositiveBatch`, `RunBounds`, `GraphBounds`, `Bounds`). Clock readings are numbers (`ClockReadings`).
* `None` is SQL's NULL or the absence of an object, and nothing that the variables hold otherwise
  (`NoneIsNothing`, `NoneIsNoRow`).
* Identifiers of different tables are different where one table holds both: `DisjointJobs` of runs and
  verifications. `ReaderIsATask` and `HomeIsAWorkbench` say what these two constants are.
* An envelope has its fields, a kind and, where it needs one, an upload (`EnvelopeShape`), and a message has one of
  three kinds (`KindsOfMessages`): the schemas of `packages/contracts` admit nothing else.
* `SourcesAreNamedByClients`: the id that a client gives the source of a snapshot, a UUID, is not the hash by which
  the service will name what it makes from that source. `ArchivesAreOtherBytes`: a ZIP file is not a
  revision's body. Both are hash collisions otherwise.
* `HostConstants`: bars name sessions by positive numbers, there is one at least, and an answer is a list of intents.
* `LogConstants`: rows have a level, a priority and a size, policies have numbers of days and bytes, and a page
  and a statement take at least one row.

### The argument of each module

**FormalRun.** `TypeOK` is not inductive: a worker's checkpoint is only well-typed if the worker has a job and a
context. `TypeInv` adds `WorkerShape`, what the program counter says about the memory. It is proved
action by action, with two lemmas (`JobField`, `WorkerField`) for updates of nested records.

`SingleWriter` follows from `ClaimInv`: at most one run is running, its token lies between 1 and its epoch,
and two workers that hold one run hold different tokens. Only a claim gives out a token, and
`NoNewClaim` treats all other actions at once.

`SettledTogether` needs `VerdictInv`: a validation belongs to one job, so no other run can
overwrite it, and a job that has ended is never in the set a claim chooses from. `MovesOneRun` and
`MovesNoRun` say that a step touches the rows of at most one run and that the row was open; the
action property follows from the same lemmas.

`OneFrozenTape` and `CheckpointChain` follow from `TapeInv`. Of each run (`RowsOK`): a requested run has its spec
(`SpecOK`), its checkpoints continue each other, with epochs that never fall, up to where the job row stands
(`ChainOK`), and all of it has the published preparation as its context (`TapeOK`). Of each worker (`WorkerOK`): one
that loads or steps holds the published preparation (`HoldsTape`), and one that passes the fence
stands where the job row stands (`StandsWithJob`). The second part is what an expired lease
could break: a worker that lost its claim may hold an old cursor, and it may, because the fence keeps it out. `KeepsContract` is a step simulation over these invariants: each action is a step of `RunContract` on the run it moves, or a
stutter.

**RevisionGraph.** `GraphInv` is one conjunct per table with what the table says of the others: revisions
with their references and parents (`RevisionsOK`), variants and heads (`VariantsOK`, which carries the
finiteness that counting needs), the history with the head at its end (`HistoryOK`), candidates as merges of the two heads they
were recorded with (`CandidatesOK`), promotions (`PromotionsOK`). `PromotionsValidated` needs `HistoryOK`: the head a candidate was recorded with is the
last entry of the history, so that a promotion continues it, and `PromotionsOK` says that whatever was promoted stands in
the history, so that it is refused a second time. `MainLineKeepsLog` maps the main line to its history.

**PromotionPipeline.** The proofs about the parts are used as they are: `PromotionPipeline_proofs` instantiates both
proof modules over the shared variables. What is left to show is that the environment step of one part is what the other part does. `SameGraph`
and `SameRuns` say that the instances speak of the same specifications; `PipelineInv` is both
invariants with `CandidatesBehind`, that a candidate's parents are never ahead of the heads. From that
a stale candidate stays stale (versions only grow), which `Runs` assumes of its environment. `OutcomeInv` says what a
validation tells of the run that wrote it, and with it `PromotedOnCompleteRun` follows.

**SessionFabric.** `TypeInv` ties a task's program counter to its message and session. `InjectedOnce` needs `JournalInv`: two tasks never
make the same injection (`OneInjection`), what Pi holds back has a task that waits for it (`HeldForTask`), and
a task that is about to write, or waits until Pi does, finds no copy in the journal (`AtJournal`). `EventsTellReceipt` is proved as `Tells` per message: the states told are the first ones, in order, as
many as the receipt's version says. `NothingPassedOver` needs `AtEvent`: what the reader delivers is the message of
the event that it has not put behind it.

**CommandLedger.** `TypeOK` needs `HandlerShape`: what a handler does says which kind its command has, and a
forward test that commits has a result. `LedgerKeepsLog` follows from `LogInv`: each event has the receipt
of its command and each receipt its event, so that a command without receipt is in no event, and an answer
that is decided but not sent is true already and stays true, because events are only appended.
`StepKinds` sorts the steps of a handler: one records a command (`RecordExecutes`, a step of the log), one
sends an answer (`RespondAnswers`), and all others stutter. The three invariants about rows are proved together as
`RowsInv`: `BenchTold` says that `bench` is what the events tell the next command, `RefsResolve` that a row's
references are all there, so that nothing registered later can join them, and `HandlersStored` which
blobs a handler has stored on its way to its transaction.

**StrategyHost.** `HostInv` is the typing of four programs and their pipes, `ProtocolInv` and `TapeInv`.
`Place` says how far each has come: parent and broker are at the number of answers said or one
before it, and a request is in one pipe or in one program at a time. `NoFrameLies` says that every frame on the way back that
carries an id carries what the strategy said to it; stray lines carry none. `SaidInOrder` numbers
what was said, and `TapeInv` says that the tape is the stamped answers up to the parent's request, with increasing sequence
numbers, so that `NoLookAhead` can trace an intent to the one answer it came from. The strategy, its timing and what it
leaves behind are not restricted.

**LedgerAndHost.** The two share no state; `HostKept` and `LedgerKept` say that a behaviour of both is one of each, and the theorems carry over.

**ProjectArchive.** `ArchiveInv` has one part per place where rows can be: a database (`Stored`), what an export has collected
(`Collected`), what an import is working on (`Working`), an archive (`Complete`). `Kept` is the action that every step satisfies: projects,
stores and files never lose anything. `AllStaged` says that an archive asked for is in the root that was asked. `Grounded` then follows because an import writes its database last.

**LogRetention.** The first half is about operators. `Bytes` is a fold, which the library defines by a recursive function:
`SumsExist` and `SumsAgree` show that there is one and only one such function on the subsets of a finite set, and
`BytesAddOne` and `BytesAddUp` that sizes add up. `OverQuotaFacts` looks at the candidates in their order (`Before`, a
strict total one): those that go are the first ones, they are enough, and the last of them was needed.
`SweepIsPermitted` puts this together: what `Swept` takes, `Permitted` allows. `PlacesAreFilled` says that
the rows of a finite set stand at the places 1, 2, ..., one at each, so that `Page` is what `IsPage` says: the first rows,
in order, none left out. The second half is `LogsInv`: a row has its own number (`LogsOK`), what a process has read for a project
it has not swept was in force since then (`ReadInForce`), and a listing has shown what lies before its cursor
and is still there (`Shows`). Old readings are the point of the first, deletions between pages that of the second.

**DataRoot.** Archives and logs share no state either; `ArchiveKept` and `LogsKept` carry the theorems over to `DataRootSpec`.

Where a proof needs induction over numbers (the first answer that is not as it should be, the last bind before an event,
a set of rows without a sum), it uses the least-number principle, that `<` on `Nat` is well-founded
(`NatLessThanWellFounded` and `WFMin` of the library), with the set in question given explicitly.

### Model-checked only

* Liveness (`RunsSettle`, `VerificationsDone`, `Delivered`, `HostEnds`, `DataRootOpens`, `ImportsEnd`) and
  every formula with `ENABLED`: the installed temporal prover knows neither.
* Facts by induction over data in general, and RECURSIVE operators, which no module here uses.

## 6. Not modelled

* `data_import.py`: parsing of CSV, JSON and Parquet rows and their normalisation, a pure function of
  text; what the service does with its result is in `CommandLedger`. One thing a reader of that file
  should know: a portfolio snapshot sorts rows by the text of their timestamps (247), and text
  with fractions of a second does not sort by time.
* The engine's accounting (fills, fees, equity) and the run report: integer and decimal arithmetic
  without state of its own. The formal-run model takes the strategy's tape as a choice.
* Contents of artifacts, events, receipts and log rows (each is written in the transaction that an
  action stands for), several projects in one database (no row of one project refers to another),
  authentication, and rendering.
* Of archives: the log selection `warn_error`, which differs from `full` in the rows it takes, and
  the order of members in the file.
* Of logs: the predicates of a selection, which may be any set of a project's rows, and the
  full-text index.
* Contracts, browser server, revision client, Research UI, agent-team scripts: validation, proxying,
  rendering and provisioning, without durable state of the running system.
* Commands of the session fabric after a lost response: there the task ends and a later delivery
  sends a new command; the repetition of one command is the subject of `CommandLedger`.
