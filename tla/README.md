# TLA+ verification of the zgi workflow runtime

zgi is a platform for AI applications: a Go API server (`src/api`), a code sandbox
(`src/sandbox`), a plugin runner (`src/runner`), an agent runner and a web client. Its core
is the workflow runtime, which executes user-drawn graphs of nodes (model calls, HTTP
requests, branches, loops, approvals, questions), pauses them for people and resumes them
days later on another instance. This project models that runtime, the event log its users
watch it through, the approvals it waits for and the ledger that pays for its model calls. Paths below are relative
to `src/api/internal/modules/app/workflow/` unless they start with `src/`.

## Inventory

| Component | State | Operations | What is hard |
|---|---|---|---|
| Graph engine (`graph_engine/`) | node statuses and handles, flags, lease bucket, condition variable | Execute, tick, start a batch, run a node, Stop, pause | a scheduler and one goroutine per node that share flags without a common lock; lost wake-ups; a pause in the middle of a scan |
| Pause snapshot and queue loop (`workflow_stream_execute.go`, `workflow_stream_graph_engine.go`, `streamscheduler/`) | queue, completed and failed nodes, paused outputs | save a snapshot, restore it, run the rest of the graph from a queue | a second implementation of the same semantics, started from a lossy copy of the first one's state |
| Durable run protocol (`pause/`, `workflow_runtime_coordinator.go`, `workflow_execution_owner.go`, `workflow_stop_v2.go`, `approval/tasks.go`) | run row, pause rows, reasons, outbox, leases, queued tasks | create, pause, answer, dispatch, claim, renew, finish, expire, stop | many processes, crashes between transactions, retries, stale reads |
| Conversation slot (`workflow_conversation_runtime.go`) | `active_workflow_run_id` | claim, release | claimed and released on many paths |
| Approval forms (`approval/`, `nodes/approval/`) | form status, recipients, expiry | submit, time out, read, branch | submission against timeout, several forms of one pause |
| Iteration and loop subgraphs | inner engines, indices, collected outputs | run a subgraph per item, in parallel or in turn | nested engines, early exits |
| Answer output coordinator | segments, cursors | order streamed output of parallel branches | late segments, pause in a segment |
| Event dispatcher and batcher (`workflow_event_public.go`, `workflow_runtime_event_batcher.go`, `pause/event_batch.go`) | pending children, queue, batch, event rows, `next_event_sequence` | dispatch, collect, append, close | many goroutines and a background batcher, overtaken executions, failing appends, closing |
| Event cache and stream (`workflow_event_cache.go`, `workflow_events_handler.go`) | publisher queues, Redis tail, cursors | publish, read, snapshot, reconnect | cache with holes, lost signals, broken connections |
| Automation runtime | due tasks, runs, action runs | dispatch, execute, retry | dispatch twice, overlap |
| LLM billing ledger (`src/api/internal/modules/llm/gateway/billing*.go`) | attempts, wallet, quota | reserve, settle, mark, recover | crash between reservation and settlement, every transaction may fail |
| LLM routing and credential state | health windows | choose, record | concurrent failures |
| Sandbox lifecycle manager, plugin runner | pools and sessions | acquire, expire, restart | races between use and expiry |

The interaction of the first four: a handler creates the run row and the conversation claim,
then runs the graph with the engine. When a node asks for a person, the engine stops
scheduling, waits for the live nodes and returns; the snapshot of its statuses goes into the
pause row and the run gives up its execution owner. Answers complete the reasons of the
pause; the last one writes an outbox row that a scanner turns into a queue task. The handler
of the answer and the task both try to claim the pause; the one that succeeds gets the next
execution generation and runs the queue loop from the snapshot. Every write of an execution
is fenced by its id and generation, its lease is renewed in the background, a scan fails
runs whose lease has run out, and a stop request may end the run at any time.

Every execution reports what it does through a dispatcher, whose batcher appends the events to
the log of the run under that fence and shows them live after the commit; the transactions
that end or pause an execution, form handlers and scanners append to the same log. Committed
events are copied to a Redis list in the background, and the stream handler serves clients
from that list, or from the database where the list has a hole. An approval node is a form: its
submission completes a reason of the pause in the same transaction, its expiry is found by a
scan. Model calls of nodes reserve and settle money in a ledger of their own.

What makes each part correct: the engine starts a node once, after its upstreams, on the
branch they selected, within the concurrency limit, and returns; a resumed run continues
exactly where the engine left off; the rows of a run never disagree about who owns it,
nothing that ended comes back, and nothing that can continue is left behind; the log has no gap
and no stranger's events, and every client sees it whole and in order; a run goes on only on
answers, and the answer that was given first stands; wallet and quota agree with the ledger.

`PROJECT.json` lists all components, also those that are not modelled, and the hazards each
property is for.

## Modules

| Module | Models | Notes |
|---|---|---|
| `WorkflowGraph` | graph, statuses, the activation rule | operators only, used by all graph modules |
| `DagRun` | abstract: what running a graph promises | no scheduler, no leases, no goroutines |
| `WorkflowEngine` | `graph_engine/engine_*.go` | one action per stretch of the scheduler between two looks at the shared flags, and per step of a node's goroutine |
| `WorkflowResume` | snapshot and queue loop | starts with `DagRun` as the engine, which `WorkflowEngine` is shown to implement, then snapshot, resume and loop, with any number of further pauses |
| `WorkflowRun` | the durable protocol | one action per database transaction |
| `EventLog` | abstract: what the event log of a run promises | append-only, an entry with a key once, fenced |
| `EventDispatcher` | `workflow_event_public.go`, `workflow_runtime_event_batcher.go`, `pause/event_batch.go` | implements `EventLog`; one action per locked section, channel operation and transaction |
| `EventFeed` | `workflow_event_cache.go`, `workflow_events_handler.go` | reads the log of `EventLog`, which `EventDispatcher` is shown to implement |
| `ApprovalForm` | `approval/service.go`, `approval/tasks.go`, `nodes/approval/node.go` | the submit transaction between its lock and its commit, the scan between its read and its write |
| `BillingLedger` | `billing.go`, `billing_ledger_internal.go`, `billing_local_recovery.go` | one action per transaction |
| `MCWorkflowEngine`, `MCWorkflowResume`, `MCWorkflowRun`, `MCEventDispatcher`, `MCEventFeed`, `MCApprovalForm`, `MCBillingLedger` | instances for TLC | graphs, outcomes, kinds of pauses, scripts of events |
| `WorkflowEngine_proofs`, `WorkflowEngineDag_proofs`, `WorkflowResume_proofs`, `WorkflowRun_proofs`, `EventDispatcher_proofs`, `EventFeed_proofs`, `ApprovalForm_proofs`, `BillingLedger_proofs` | theorems | see Proofs |

Definitions called a faulty variant in a module are not part of its specification: each is the
body of the definition behind it with one plausible mistake, which a property of the module
is known to catch.

**Engine.** `status`, `handle`, `edges` are the fields of `NodeState`; `isRunning`,
`isStopped`, `isPaused`, `pausedNodes` and `leases` are the engine's own. `sched` is where the
scheduler goroutine is, `todo`, `cur`, `batch` and `forceTick` are the local variables of
`tick`, `proc[n]` is where the goroutine of node `n` is. The scheduler holds
`statusChange.L` in the tick and releases it in `Wait`; `signalStatusChange` takes it, `Stop`
and `markPaused` do not, and the model keeps that difference: a signal wakes the scheduler
only when it waits. `range` over the map of nodes is a choice of the next node. A node
runner is an outcome from `Outcomes`, a status and a selected handle. It runs in a goroutine of
its own, which `waitGroup` does not count: the engine waits only for the goroutine that reads its
events (`proc`), and that one leaves at the first event after `Stop`. `AbortNode` may therefore
put the node into `orphans`, the runners nobody reads any more, and `RunnerEnds` takes it out at
any time or never, also after `Execute` has returned. Runners report a terminal status
(`succeeded`, `failed`, `paused`, `skipped`), and `paused` without an error, as the only two nodes
that pause do (`nodes/approval/node.go`, `nodes/question_answer/node.go`). `executeNode` itself
would copy any status, and a paused result with an error would not pause the engine; no runner
makes use of that, and the model leaves it out.

**Resume.** The run begins with steps of `DagRun`. `SavePause` is the snapshot, with what it
forgets (skipped nodes are merely completed); `Resume` builds the queue from it; `Requeue`,
`SkipInactive`, `NotStarted`, `FailNode`, `PauseNode`, `EndNode` are the ways one turn of the loop can go. An
upstream connected by several handles is judged by the first of them in map order, which
is a choice (`MayActivate` and `MayNotActivate` may both hold). The loop activates an edge
through the handle its upstream selected, `source` if it selected none; the engine also
accepts any `source` edge of an upstream that selected another handle. `BranchesAsEngine`
compares the two where these rules mean the same (`Unambiguous`).

**Run.** `status`, `generation`, `owner` are columns of `workflow_run_logs`, `pstatus` and
`by` of the pause rows, `answer` is the completion of each reason together with the pause
the answer was given to, `tasks` counts what is left of a queued task. A claim hands out a
new execution id and the next generation together, so an execution is named by its
generation. One `lease` stands for the run row and the pause row, which are written
together: valid, expired, or overdue, past the grace of the scan. `claiming` holds handlers
between preparing a resume and claiming it, `stopping` what a stop request has read.
Messages, node logs and events of the same transactions are left out. The queue is
external: it is modelled as the code uses it, delivering a task until its handler succeeds
or its attempts are used up, one worker at a time, and refusing a second task with the same
id while the first one exists.

**Events.** `rows` and `nextSeq` are the event table and the counter in the run row, `owner` and
`gen` the fence. `disp[g]` is the dispatcher of generation `g`: the containers and rounds it has
seen and the children that wait for them. `bat[g]` is where the batcher goroutine is, with the
requests of the batch, their records in order (`Grow`, so that their number is the code's event
count), the carried request and the results of the chunk it has written. An event is published
with the sequence it came with, that of its own row, or that of the row with its key (`Stored`).
An event's `id` stands for its key: the code makes the key from kind, node or container and
round, so that equal ids are equal events (`DispatchAssumption`). An event without a key may be
stored again (`Repeatable` of `EventLog`). A container runs once in an execution, as its key
assumes, which names the execution, the container and the kind
(`workflow_event_public.go:543-565`); a container nested in another one, which runs once per round
of the outer one, is outside the model (`LifecycleAssumption`). Its node sends started, next and completed in this order
through one channel (`nodes/loop/node.go`, `nodes/iter/node.go`), and one goroutine reports what
comes out (`graph_engine/engine_events.go`): an event that confirms a start or a round follows it
in the same thread (`LifecycleAssumption`). A thread reports one event at a time
and waits for the answer of its batch, as `Dispatch` does; `main[g]` stores the finished or
paused event in its own transaction, dispatches it with the sequence it got and closes. A
request is lost with a cancelled context, an append fails at any time (`failed`). Loops stand for
loops and iterations, `workflow_finished` for all terminal kinds; sizes in bytes, messages that
are not persisted and the projections written with the events are left out. In the feed,
`commits` holds what an instance has committed and not yet offered to its publisher, `pubq` its
queue, `tail` the sorted set; signals are not modelled, since a client reads at any time anyway.

**Approval.** `tx[f]` is a submit transaction between the lock of the form and its end, `scan`
the local state of the timeout task, `late` the clock. The pause is the open pause of
`WorkflowRun` seen from its forms: `asks` its reasons, `done` the completed ones. A repeated
submission of the same answer only reads and is left out, and so is a takeover of a resumed
execution, which belongs to `WorkflowRun`.

**Billing.** `status`, `tries` and `actual` are columns of an attempt and its entries, `balance` the
channel wallet, `remain` and `used` the quota subject (key or workspace, limited). `stale` is the
age of the row (all amounts are whole credits), `req[a]` and `wrk[w]` where a request and a recovery worker are between their
transactions. Every `BillingService` starts a worker (`gateway/service.go:210`), and a process
builds the service at least twice (`container/service_container.go`, `routes/v1/gateway_routes.go`),
so there are always several `Workers`. `GoesStale` looks at the age of the row alone, as the code
does; the call may still be running, since a streamed response has no time limit
(`adapters/http_client.go:134-137`). Backoff is time, so a retry may come at once. A process that
dies and an update that fails after a claim have the same effect and are one action. A transaction
that fails changes nothing, so `SettleFails` and `RollBackFails` are the marks that follow it.

Three history variables say what the code does not record: `released[a]` counts the settle
transactions that gave the reservation of `a` back, `shared` holds the attempts that a worker
claimed while the request or another worker was still at them, `late` those that went stale under
their call. The properties are about the other attempts where the code goes wrong for these:

- `MoneyMatchesLedger`, the books: what is missing from wallet and quota is what was reserved and
  not released, or charged, for all attempts, however often one is released. Releases: exactly one
  for a finalized attempt, none for another, unless the attempt is in `shared`.
- `SuccessIsCharged`: a success is charged and stays so, unless its attempt is in `late`.

## Runs

| Run | Bounds | Shows |
|---|---|---|
| `engine` | all 32 graphs over 3 ordered nodes with two handles, 2 cyclic ones, 2 leases, stop and cancel | implements `DagRun`; a node starts once; leases add up; no undecided node is left on return, and a runner only after a stop; nil means complete |
| `engine_returns` | 4 shapes, default concurrency, cancel | `Execute` returns |
| `resume` | 32 graphs over 4 nodes | each node runs to its end once, in order, none is lost, branches as the engine, the loop ends |
| `run` | 3 executions, 2 pauses for a question, an approval or both, 1 attempt, in a conversation | owner, pauses and conversation agree; a pause resumes only when all answers are there; an ended run stays ended |
| `run_live` | 3 executions, 2 pauses for a question, 1 attempt | orphans are finalised; answered question pauses are resumed although their handler died |
| `events_dispatch` | 2 executions, 2 threads with a loop of two rounds and a child reported twice, batches of 2, queue of 1, an outside writer | implements `EventLog`; sequences dense; live order is replay order; children behind their round; nothing lost; every waiter served |
| `events_feed` | 2 instances, 1 client, log of 3, queue of 1, tail, window and reads of 2, 1 broken connection | committed before visible; every event once and in order; streams end where they should; everything is delivered |
| `approval` | 2 forms, 2 actions, 2 errors of the scan | resumed by answers only; branches justified; first result stands; forms are closed |
| `billing` | 2 attempts of 2 credits that cost 1 or 3, calls of any length, 2 workers, 2 retries, 1 crash | the books balance; one release per attempt no two actors were at; a success is charged if its call ends in time; holds are released |

Three nodes have a branch, a join, a chain and independent nodes, and with two leases the
limit is hit while one more node is ready; four nodes give the loop a diamond with a branch
on each arm, so that the queue holds duplicates and nodes whose upstreams wait. Three
executions are the first one, its successor and one that takes over from the successor,
which is enough for a stalled execution to write after two others; two pauses let a task
meet the pause after its own. A task has one attempt, so that it is delivered late and given up,
but not repeated: with a second one `run` has more than twice as many states, and what it
checks is proved for any number of attempts (Proofs). In `run_live` the one attempt makes the
properties stronger: no retry is needed for an answered pause to go on. It has one kind of
pause, since with both kinds the property does not hold (below). The only fault of a handler is its
death: errors of its transactions that use up the attempts of a task are not modelled.

With batches of two, a round marker that releases a child fills a batch, the end of a loop is a
barrier that is carried, and a request may be larger than a batch and is written in chunks; a
queue of one is full while three goroutines report. Two executions are an overtaken one and its
successor, which only has to end or pause the run to make the order of the log matter. A tail of
two is trimmed by a log of three, so a slow client finds a hole; two instances publish in either
order. Costs below and above the estimate make the settlement refund and overdraw. Two workers and
two retries let a late request or a slow worker write over what another one has settled, and the
attempt be claimed again. Two forms
make a pause that waits for two answers, one of which may time out while the other is
submitted.

`engine` does not check for deadlock: the engine really can wait for ever after `Stop`
(below). The runs of events, approvals and billing do not either: executions close, requests
and runs end and nothing is left to do. The other passing runs do.

**Fairness.** `WorkflowEngine`: the Go scheduler runs every runnable goroutine and a node's
runner returns while its events are read (nodes have their own time limits, outside this model).
`Stop`, `Cancel` and the runners nobody reads are not fair. `WorkflowResume`: the loop is one goroutine that never blocks except in a node;
nobody has to answer. `WorkflowRun`: the outbox and lease scans are periodic tasks, asynq
delivers a task that has attempts left, a worker that runs reaches its claim, time passes.
No execution has to end, renew or survive, no user has to answer or stop; a direct handler
may always die. `EventFeed`: a connected handler goes on reading, since its ticker fires
every interval; nothing is assumed of Redis, publishers or signals. `ApprovalForm`: time passes,
transactions end one way or the other, executions reach their pause or end, the scan is a periodic
task; nobody has to submit, and a scan may fail. `BillingLedger`: requests end, time passes, the
tickers of the workers fire; any transaction may fail. `EventDispatcher` states no fairness: that
nobody waits for ever is the invariant `EveryWaiterServed`, a request for every waiter and no
stopped batcher with requests. It does not say that the batcher comes back from its transaction: a
database that hangs is left out.

### Where the code and its comments or tests disagree

Each of these runs is expected to end in a violation; `PROJECT.json` quotes the lines.

| Run | What TLC shows |
|---|---|
| `run_revived` | A run that was stopped while it was a resumed execution can be claimed again when the pause lease runs out, if no conversation is there to refuse it. |
| `run_stale` | A late question task answers the next pause with an old answer. |
| `approval_expired` | A form that times out is marked, but its run cannot be resumed and no later scan tries again: the run stays paused, where the form's page announces the timeout branch. |

`run` and `run_revived` check the same `TerminalIsFinal`: the conversation slot, not the
fence, is what protects a stopped run.

Other histories the models contain, each found by TLC with other constants or a property that
is not kept as a run:

- engine, `RequestedConcurrency = 1`: a second ready node can be left for ever, since the finished
  node signals first and returns its lease afterwards, without another signal
  (`ExecuteReturns` fails; `engine_returns` uses the default concurrency);
- engine, `Requests = {"stop"}`: `Stop` signals while the scheduler is inside a tick, the started node
  sees the flag and returns without a signal, and `Execute` waits for ever;
- resume: a node skipped before the pause activates its successors after it, because the snapshot
  keeps it as completed only;
- run: a stop that races with a pause is answered with success, and the run stays paused;
- run, `Reason <- BothReasons`: a pause for an approval and a question, the approval first, is never
  resumed by the queue (`AnsweredResumes` fails);
- engine: after `Stop`, `Execute` returns `stopped` while a runner goes on (`orphans`), its node
  failed or whatever its last event said;
- billing, an attempt in `shared` refunded twice (`ReleasedOnce` over all `Attempts` fails): one
  worker is slow between the read and the write of `scheduleLocalRecoveryFailure`, the other claims
  and rolls back; the late write takes the finalized attempt back to `PARTIAL_SETTLED`, and the next
  recovery refunds it again. With one attempt, two workers and `MaxRetries = 3` this takes 12 steps,
  no crash and no call past the timeout; with the 2 retries of `billing` the write that reopens the
  attempt is that of a late request whose settlement failed;
- billing, an attempt in `late`: a call longer than ten minutes is rolled back under way and not
  charged when it succeeds (`SuccessIsCharged` over all `Attempts` fails);
- billing: a worker that dies behind its claim leaves the attempt in `SETTLE_PENDING`, which no
  scan lists; `HoldsReleased` therefore excepts `crashes > 0`;
- approval: a form submitted in time whose run is resumed after the expiry takes the expired branch,
  and a timeout scan may overwrite the status of a form submitted between its read and its
  write; the stored result stays.

## Proofs

| Proof module | States as theorems |
|---|---|
| `WorkflowEngine_proofs` | `TypeOK`, `RunsAtMostOnce`, `ReturnsQuiescent`, `NilMeansComplete`, `LeasesAccounted` |
| `WorkflowEngineDag_proofs` | the engine implements `DagRun` |
| `WorkflowResume_proofs` | `TypeOK`, `RunsToEndOnce`, `DecidesAfterUpstreams`; `BranchesAsEngine` if `NodesNeverSkip` |
| `WorkflowRun_proofs` | `TypeOK`, `PauseFollowsRun`, `OwnerIffRunning`, `ResumesAnswered`, `SlotFollowsRun`, `OneHandler`; `TerminalIsFinal` if `HasConversation` |
| `EventDispatcher_proofs` | `TypeOK`, `SequencesDense`, `NothingLost`, `EveryWaiterServed`, `LiveIsReplay`, `ChildrenFollowTheirRound`; implements `EventLog` (`WritesTheLog`) |
| `EventFeed_proofs` | `TypeOK`, `ReceivesLogInOrder`, `EndsAtTerminal` |
| `ApprovalForm_proofs` | `TypeOK`, `ResumedByAnswers`, `BranchIsJustified`, `FirstSubmissionStands` |
| `BillingLedger_proofs` | `TypeOK`, `SuccessIsCharged`, `MoneyMatchesLedger` |

All of them hold for every value of the constants that the named assumption of the module
allows. The hypotheses in the table are not conveniences: each theorem is false without its
hypothesis, and the counterexample is given below or among the runs.

`WorkflowEngine_proofs` proves, for every finite set of nodes, every set of graphs, every
requested concurrency and all outcomes (`GraphAssumption`, `EngineAssumption`):
`TypeCorrect`, `StartsOnce` (`RunsAtMostOnce`), `Quiescent` (`ReturnsQuiescent`), `Complete`
(`NilMeansComplete`), `LeasesCorrect` (`LeasesAccounted`). `WorkflowEngineDag_proofs` proves
`Refinement`: `Spec => Dag!Spec`.

The first two rest on the inductive invariant

    IInv == TypeOK /\ BeforeRun /\ PauseIsFlagged /\ StatusOfProc
            /\ LaunchesOfProc /\ OrphanIsStopped /\ CurIsPending /\ BatchIsClaimed /\ LeftLoop

None of the properties is inductive by itself. Typing already needs that `cur` is a node
whenever the scheduler is past the choice of one (`CurIsPending`), or `Claim` could put
`NoNode` into the batch. A node starts once because a goroutine exists exactly for nodes
that were launched (`LaunchesOfProc`), a batch holds only claimed nodes without one
(`BatchIsClaimed`), and a claim needs a pending node (`StatusOfProc`). What is left on return
is what the scheduler knows when it has left the loop (`LeftLoop`); an orphan needs a stop before
it (`OrphanIsStopped`), and `isStopped` is never reset while the engine runs. The lease invariant
counts claimed and live nodes, so each action is matched with how it moves one node between
these sets.

For the refinement a claimed node counts as pending until its goroutine is started, since a
pause may still drop the batch. The hard case is the batch: the upstreams were looked at
several steps before the nodes start. The proof carries `MayStart`, that every node of the
batch, and the one being visited, is still decidable and must not be skipped unless a pause
was flagged; it is stable because terminal upstreams keep their status (`KeepsEnded`), the
exception being the interrupted nodes of a stopped engine, which `DagRun` also allows. That
a paused node implies the flag is `PauseIsFlagged`; the scheduler looks at the flag just
before it starts a batch.

`WorkflowResume_proofs` is about every graph over finite sets of nodes and handles, every outcome and
any number of further pauses (`ResumeAssumption`). The invariant is

    Inv == TypeOK /\ EngineOnly /\ Partition /\ RunsToEndOnce

`Partition` is what the snapshot and the queue loop keep between them: a node is completed, with a
status its downstreams may rely on, or it has not run to its end and is still in the queue. It is
the reason that nothing is lost when `Requeue` puts a node behind the others, and that a node which
is queued twice runs once. `DecidesLate` reads the order of decisions off the same invariant, as
an action property. `SameBranches` also carries `SkipsKnown`: where the engine had skipped nothing,
the loop knows of every skipped node. It needs `NodesNeverSkip`, that no runner reports `skipped`
itself; in the code only the scheduler sets that status (`graph_engine/engine_scheduler.go:296`).

`WorkflowRun_proofs` covers any number of executions, pauses and attempts, every kind of pause, with
and without a conversation (`RunAssumption`):

    IInv == TypeOK /\ RowsFollowRun /\ OwnerIffRunning /\ ResumesAnswered /\ SlotFollowsRun
            /\ NothingBefore /\ Handling

The properties of the rows hold each other up: a pause can be resumed by one execution only
because one pause is open, and there is one because the owner of the run resumes the only pause
that is open. `NothingBefore` starts the argument before the run exists. Even typing needs more
than it seems to: the queue counts the attempts of a task down correctly only because a task is
in the hands of one handler or one execution (`Handling`, whose part `OneHandler` is a theorem of
its own, `TaskHandledOnce`). `EndedForGood` needs `HasConversation`: what stops a late claim is the
slot, which an ended run has given up; `run_revived` is the counterexample without it.

`EventDispatcher_proofs` covers any executions, threads and scripts and every size of a queue and of
a batch (`DispatchAssumption`, `LifecycleAssumption`). Executions share only the table and the run's
row, so the invariant has one part per execution and two for the table:

    IInv == Table /\ Dense /\ Executions

`Executions` says of each execution which parts of its batcher are in use in which phase, and that
a batcher is closed only after the flush (`PhaseOK`); that the chunk about to be shown is the front
of the records left (`FrontOK`); that a thread was refused nothing before a failure or the close
(`TakenOK`); that queue, carried request and batch together hold one request of every waiter and
none of anybody else (`WaitOK`); where accepted events are (`KeptOK`); and that nothing is on its
way but events of the scripts and the event this execution has settled (`SentOK`). Each action is
proved against the part of its own execution, and `StepOfOne` carries the others over. `Dense`
needs the lemmas on `Rank`: the fresh events of a chunk and the sequences allocated for it
correspond one to one, and in order.

`LiveReplay` needs a second invariant, `Replay`, about what an execution has shown together with the
committed chunk it is about to show: every row of its scripts is shown and everything shown has
its row, each entry lies behind all those before it or repeats one of them, and an execution that
has settled never owns the run again and has its event as its last row. The last part makes an
overtaken execution harmless: it can only publish the settled event, anything else has to pass
the fence. The hard case is a child that is reported twice, in one chunk or in two, since what is
published then goes back to the sequence of the first row; `OrderedChunk` deals with it. TLC has
checked `Replay` on the instance of `events_dispatch`.

`LogRefined` shows that all writers together implement `EventLog`. It needs to know who wrote what:
no row is of an execution still to come, generation 0 belongs to forms, an execution's ending row
means that it has settled, and a finished run has no owner (`Fenced`). With it, the rows that a
transaction adds to a dense table are an extension of the log by admissible entries (`LogGrows`).
An event with a key is stored once because the append looks the key up in the table and earlier
in its own chunk; one without a key may come again, which is why `EventLog` says so.

`ChildrenInOrder` needs the order of what is still on its way. `InOrder` reads an execution as
one line: its rows, what its batch has still to append, the carried request, the queue. No child
stands in it before a marker of it that is stored or on its way too. `MarksOK` says why the
dispatcher keeps it so: what it has let pass belongs to containers and rounds it knows, and it
knows these only after their markers are in the line. Taking, carrying, collecting and cutting
leave the line as it is (`HeadMoves`, `FrontMoves`); `Persist` turns its front into rows in the
same order (`ChunkOrdered`), where the case of interest is a marker that comes twice: it gets no
second row behind its children (`MarkerOnce`). `EventJoins` is the hard step. A container
becomes known by any of its events and a round also by `loop_completed`, whether their own
markers have come or not, and there `LifecycleAssumption` is needed: without it TLC shows a
child before the start of its container when two threads report the events of one container.
`Close` sends the children that still wait whatever their markers, which is harmless, since the
closed dispatcher lets nothing pass behind them; after the execution has settled an event of its
own, the fence stops everything else (`Replay`), so that `Sorted` asks for no more than the
order of the rows then. TLC has checked `InOrder` and `MarksOK` on the instance of
`events_dispatch`.

`EventFeed_proofs` covers any instances, clients, batches and limits (`FeedAssumption`):

    IInv == TypeOK /\ Committed /\ NotStarted /\ ReceivesLogInOrder /\ EndsAtTerminal

The cache is never trusted: `Committed` only says that what is queued for it and what it holds are
sequences of committed events. That a batch served from the tail has no hole is lemma `NoGap`: the
handler takes a sequence behind its cursor only together with all those before it, and such a set
is an interval, whatever was trimmed, published late or lost.

`BillingLedger_proofs` covers any finite set of attempts, any number of workers, calls of any length,
and any estimate, costs, balance, quota, retries and crashes (`BillingAssumption`), without a
hypothesis. Every step works on one attempt, so the invariant speaks of attempts one by one:

    Inv == TypeOK /\ Resting
           /\ \A a \in Attempts : Known(a) /\ (a \in shared \/ Alone(a)) /\ (a \in late \/ Paid(a))

`Known` holds always: what is reserved was never retried, and whoever is at an attempt works on one
that was made; typing (`TypeCorrect`), with a quota at or above zero and retries within their limit,
follows. `Alone` is the life of an attempt that no two actors were at: first its request has it, then
one worker at a time, which finds it in `SETTLE_PENDING` or has just marked it itself, so that nobody
reopens what is finalized, and the step that finalizes it releases it. `Paid` is the life of one
whose call ended in time: no worker is at it before its request has ended nor after it was charged
(`SuccessCharged`). That the two lives are really left only through `shared` and `late` is what the
proof shows, by each claim. `MoneyMatches` then needs no more than this and the books
(`StepBalances`): each transaction is matched with the reservations and releases it counts. Amounts
are counted as sets of single credits (`Credits`) and not summed by a fold, since nothing can be
proved about a fold without induction.

`ApprovalForm_proofs` proves, for every set of forms and actions (`ApprovalAssumption`),
`TypeCorrect`, `ResumedByAnswersAlways`, `BranchJustifiedAlways` and `FirstSubmissionAlways` from the
inductive invariant `IInv`. That a first result stands is not a matter of the status, which the
scan may overwrite: a submission needs a waiting form when it locks it (`LockedIsWaiting`), a form
with a result is never waiting again (`FilledIsClosed`), and while the row is locked the scan cannot
mark it. `OnlyLateMarked` says that the scan holds and marks only forms past their time, which is
what justifies the expired branch; `PausedUnanswered` that a new pause asks only for forms
without a result, so that its completed reasons are the answered ones.

Only model-checked: all liveness (`ExecuteReturns`, `LoopEnds`, `OrphanFinalized`,
`AnsweredResumes`, `EventuallyDelivered`, `FormsAreClosed`, `HoldsReleased`), since fairness is out
of the prover's reach. Every safety property, action property and refinement of the passing runs
is a theorem.

## Not modelled

Node implementations, variable pool, prompts and streams are data to this runtime. The
legacy protocol 1 is left out: every new run is created with protocol 2 (`BeforeCreate`). Messages, node
logs and metrics written in the same transactions are left out of `WorkflowRun`. The web
client, agent runner, payment, dataset pipelines and chat runtime are listed in
`PROJECT.json` with the reason.

The event modules leave out what does not change the order or the fate of events (see Modules);
the billing module the system-provider lane, whose ledger is a remote service, and a commit that is
reported as failed though it happened; the approval module recipients, tokens and delivery.

## Plan

1. Composition of `WorkflowRun` and `WorkflowResume`: which nodes are run again when an
   execution is taken over, and with `ApprovalForm` which branch they take then.
2. Iteration and loop executors, and the answer output coordinator, on top of `DagRun`.
3. Automation dispatch, the sandbox lifecycle manager, credential state, plugin sessions: one
   module each.
