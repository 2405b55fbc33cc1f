# verl-recipe: specifications of the asynchronous training systems

verl-recipe collects training recipes for verl. Most of them are numerical: a
loss, an advantage, a reward function, run by a synchronous trainer. Five are
concurrent systems, and these specifications are about them:

- `src/async_flow`: rollouts, reference, reward and advantage workers and the
  trainer run at the same time, exchange samples through a store with a central
  manager (the TransferQueue), are kept within a bound by a queue of tokens, and
  receive new weights while they work;
- `src/partial_rollout`: prompts that a step did not finish are carried over to
  the next, with a manager that hands them out and servers that are aborted;
- `src/reward_queue`: a rollouter that pipelines inference, scoring and delivery
  through two bounded queues;
- `src/verl_tinker`: an HTTP server whose clients schedule operations on one
  model and its shared GPUs;
- `src/gkd/megatron`: distillation with one or two batches under way and a pool
  of threads that ask a teacher.

Paths below are relative to the system's directory unless they start with `src/`.

## Inventory

### async_flow: TransferQueue manager (`utils/transfer_queue/tq_mgr.py`)

A Ray actor that runs handlers in up to 100 threads and keeps, per topic, a
`TopicMeta`.

- State: `experience_ready` (column -> indexes stored), `experience_consumed`
  (consumer -> indexes handed out), `max_cur_index`, `global_idx_to_shard`,
  `group_ids_per_shard`, `group_index_sets`, `uuid_to_group`,
  `versions_to_indexes`, `group_shared_col_written`.
- Operations: allocate indexes for the uuids of a put, route a put, status and
  version updates, allocate a fetch with or without whole groups, status queries,
  deletion in two phases around a call to the shards, marks of shared columns.
- Hard: the allocation holds one lock, the fetch another, the status update a
  third; the deletion takes none and calls the shards half way.
- Correct when nothing is delivered twice to a consumer, lost, revived after its
  deletion or put in the wrong group; indexes are never reused.

### async_flow: shards and client (`tq_data.py`, `tq_structures.py`, `tq_client.py`)

An actor per shard has an `ExperienceTable`: per column the indexes, the segment
and offset of each, the dtype and the shapes, with `put_batch`, `get_batch`,
`prune`, `clear`. The client splits a put into shared and ordinary columns,
shards and segments, sends them at the same time, marks what was written; a
fetch asks the manager, then the shards. Correct when reference counts are exact,
each row is stored under its own index and decoded as encoded, and what is called
ready is stored.

### async_flow: driver, trainer, weights (`async_flow_trainer.py`, `workers/`, `agent_loop/`, `utils/checkpoint_engine/`)

- `AsyncFlowGRPOTrainer.fit` waits for room in the flow control queue, sends
  weights if there are newer ones, hands out a batch, puts its tokens.
- `ActorTrainWorker` fetches a mini-batch, trains, deletes, gives tokens back,
  ends a version and waits for its weights to be sent; `_current_version` and
  `weight_updated` are written by its loop and by `update_weights` in a thread.
- Transfers: `hccl` pauses, broadcasts, resumes, and the driver waits.
  `flexfetch` writes to host caches of the last versions, and replicas and the
  forward worker fetch in another event loop, and nobody waits.
- Correct when what is under way and how old it is are bounded, weights are
  whole when they are used, and nobody waits for ever.

### partial_rollout (`prompt_manager.py`, `ray_trainer.py`, `agent_loop/`, `vllm_rollout/`)

- State: the manager's `pending_queue`, `ongoing_set`, `done_queue` and the events
  `_batch_ready`, `_prompts_pending`; a worker's tasks, count of trajectories and
  slot event; the servers' gate; the trainer's step and dataloader; checkpoints.
- Operations: feed, pull a batch, cancel, train, validate, save, resume; a
  worker's pull, start, end of a trajectory, push back; request, abort.
- Correct when every prompt is in one place and trained once, a step gets a whole
  batch, and no request is in the engine while weights change.

### reward_queue (`rollouter.py`, `trainer.py`)

Coroutines `_processor_worker`, `_reward_consumer_worker`, the tasks they start,
the monitor, and the trainer. State: active tasks, two events with their flags,
the reward queue, the aggregator's groups, the message queue. Correct when a
sample reaches the trainer once with all its scores or its loss is counted, and
no pause outlasts its cause.

### verl_tinker (`tinker_router.py`, `tinker_ops.py`, `backends/colocated.py`)

A gate that admits operations in order (samples together, others alone), the
identities of the weights that the actor, the rollout, saved states and samplers
have, and the roles that take turns on the GPUs under two locks. Correct when
the order is kept, a sample computes on the weights it is bound to, a role is on
the GPUs while it is used, and every request is answered.

### gkd (`megatron/ray_trainer.py`, `megatron/teacher_utils.py`, `megatron/teacher/client.py`)

Two schedulers, generators that keep one or two batches between generation,
teacher and training; the teacher's client with a queue and threads. Correct when
every step trains the next batch with the teacher's answers to it and weights of
bounded age, and training ends whatever the teacher fails to answer.

### The rest

`dynamo`, `atropos`, `specRL`, `langgraph_agent`, `nemo_gym` and the algorithm
recipes are numerical code, sequential loops or adapters to external services.
`PROJECT.json` lists every component with its status and, under `hazards`, the
lines where the concurrent code can go wrong and which property watches each.

How the parts of async_flow interact:

    driver --prompts--> agent loops --put--> TransferQueue client --> shards
       |  ^ tokens                              |  allocate/route     | status
       v  | give back                           v                     v
    flow control <-- trainer <--fetch/delete-- manager <--------------+
       driver --pause/load/resume--> rollout servers, forward worker, trainer

The systems share no code but verl's own, and have no module in common but for
the parts of verl_tinker.

## Modules

| Module | Models | Composition |
| --- | --- | --- |
| `TransferQueueManager` | the manager's state and handlers | its callers (put, shard report, fetch, write-back, delete) are reduced to what they send; implements `SampleQueue` |
| `SampleQueue` | abstract: samples are allotted to prompts, written, taken once by each consumer, deleted | |
| `ExperienceTable` | a shard's table | alone |
| `TransferQueueClient` | put and fetch end to end | client, shard handlers and the part of the manager they use, tables as functions |
| `AsyncFlowPipeline` | driver, flow control, trainer, agent loops, both back ends of the transfers | the TransferQueue is a stage of each prompt, as the modules above justify |
| `FlexFetch` | host caches, and a replica or the forward worker that reads them | driver and trainer are reduced to what they submit |
| `PartialRollout` | prompt manager, trainer, workers, servers, crash and resume | implements `PromptBatches` |
| `PromptBatches` | abstract: batches are drawn, trained once each, saved | |
| `RewardQueue` | rollouter and trainer of reward_queue | |
| `OpGate` | verl_tinker's gate and the life of a request | extended by the next two |
| `TinkerServer` | identities of weights, saves, loads, transfers, failures | |
| `ModelRoles` | roles on the GPUs and their locks | |
| `OnPolicyDistill` | gkd's schedulers, rollouts, teacher client | |
| `*_proofs` | theorems about the module they extend | `TinkerServer_proofs` has those of the gate and of `ModelRoles` as well |
| `MC*` | instances | |

### TransferQueueManager

One variable per field of `TopicMeta`. Handlers that hold one lock throughout are
one action. `AllocateGroups`, `AssignGroups`, `AllocateIndex`, `FinishAllocation`
split the allocation at the call to the shards it makes while it holds
`assign_new_index_lock`, and at each turn of the loop over the uuids; `StartPrune`
and `FinishPrune` are the halves of `_prune_topic_by_indexes` around its call.
`puts`, `writes`, `jobs` and `pruning` are calls under way, so that reports arrive
late and in any order. `issued`, `owner`, `deleted`, `deliveries` are history: no
handler reads them, except that `issued` keeps the callers to one prompt's samples
and that a bound on groups ends the run. A handler whose lookup fails raises, and
its caller's operation ends there.

`SampleQueue` is what is left of a topic without indexes in order, shards, routing,
phases and calls under way. `ImplementsQueue` maps its `written` to
`experience_ready` and its `received` to the history `deliveries`; most of the
manager's steps are then stutters (choosing groups, routing, status queries, the
second half of a deletion). A turn of the allocation's loop is an `Allot`, a report
of a shard a `Write`, a fetch a `Take`, the first half of a deletion a `Delete`. The
window of versions and the balance of the shards are not in it.

### ExperienceTable, TransferQueueClient

`put_batch` goes through the columns in the order they came, types before sizes;
`refuse_batch` is the put that raises at the column `bad`, with what was changed
before it. A value is its segment: what was put together is in one segment, so
that a wrong count, a wrong type or a split group shows. In the client a put goes
through `new`, `ask`, `send`, `mark`, `done` or `failed`; storing and reporting a
message are separate, `StoreMessage` and `ReportStatus`, in the handler's order.
The value of an ordinary column is the index its row was put for, that of a shared
column its group, and `RowsMatch` compares them with where they ended up.

### AsyncFlowPipeline

The driver's loop is `CheckHealth`, `WaitForCapacity`, `SyncWeights`,
`UpdatesSubmitted`, `GenerateSequences`, `PutTokens`; the trainer's
`FetchMiniBatch`, `ProcessBatch`, then `AwaitWeights`, `AdvanceVersion`,
`ResetIter` (three assignments another thread can see between) and
`ReleaseFlowControl`. A transfer is a record in `updates` that goes through
`pause`, `load`, `resume`; with `backend = "flexfetch"` the driver does not wait
for those of the rollouts and the forward worker. A sample has the version its
server gave (`asked`), the one that generated it (`decoded`) and the one recorded
for its group (`version`). The manager gives out the lowest indexes: with one agent
loop these are the prompts in their order (`Lowest`), with several any.

### FlexFetch

`BeginWrite` and `EndWrite` are a rank's `send_weights` before and after the copy;
the version is in the cache's list from the first. A worker's update to a version
goes through `pause`, (`lock`,) `build`, `ask`, `read`, `resume`; two updates may be
under way at once, and `overlapped` remembers it. A worker may have several processes,
of which only the first asks and reads: when its version has been dropped it raises,
and the others wait for what it does not send (`stuck`); so they may when a second
update takes new sockets while they receive the first's (`BuildProcessGroup`). The
forward worker's loop takes its lock, fetches a batch, loads what is pending,
computes; `event_loop` is the call its actor executes, since `pause()` blocks there.

### PartialRollout

One action per handler of the manager, per await of `run_continuous`, and per
phase of `fit_step` (`feed`, `prime`, `pull`, `cancel`, `abort`, `train`). Pulls
and pushes are messages of their own. The trajectories of a prompt are counted:
`waiting` at the gate, `generating` in the engine. `Restart` is a crash at any
moment: everything but the last checkpoint is lost, and the data loader goes on
where it was at that checkpoint, ahead of `global_steps`.

### RewardQueue

Coroutines run from one await to the next, so that an action is that stretch of
code. The queues are verl's `MessageQueue`, known by its use (external in
`PROJECT.json`): a put on a full queue pushes the oldest entry out. The path with
the reward queue on is modelled.

### OpGate, TinkerServer, ModelRoles

`Schedule` and `Leave` contain `_grant_ready_locked` (`LetIn`), which lets
requests in within the same step. `TinkerServer` says what an operation does to
identities (`actor_id`, `rollout_id`, `state_ids`, `sampler_paths`) and to weights
(`actor`, `rollout`, `disk`); an update allocates an identity, which also names
the weights it makes. `ModelRoles` says which role is marked awake (`awake_roles`),
where each role really is (`place`: on the GPUs, off them, partly on them or unsure),
what each task is moving (`moving`) and who holds which of the two locks. Tasks are
requests and stray generations (`Strays`), those that go on when another generation of
their sample has failed. Every sleep, wake and transfer may raise half way
(`RaiseInMove`); where the role then is, is unsure, and its mark stays. A transfer is
four steps: the actor's optimizer leaves, the rollout is loaded beside its parameters,
these leave, the marks change. `mixed` remembers the tasks that were under way
together with one of the other lock.

### OnPolicyDistill

`Turn(i)` lists the calls a scheduler makes in turn i of its loop, as its branches
read; the actions interpret the list. Generations, parts and threads run beside
the driver. `task_queue`, `serving`, `stuck` are the client's; `stuck` threads
have a REQ socket that timed out. `knowledge` is the generation whose answers the
one buffer `teacher_topk_logps_padded` holds.

## Runs

Passing runs. Each also checks its module's `TypeOK`; that of `ModelRoles` holds
on the instance of `roles` too and is not one of its listed properties.

| Run | Instance | Shows |
| --- | --- | --- |
| `manager` | 3 prompts of 2 samples, 2 shards, room for 5 groups, a stage that fetches groups and a trainer that fetches samples | `AtMostOnce`, `RoutingAgrees`, `GroupIsOnePrompt` and the refinement `ImplementsQueue` over all interleavings |
| `experience_table` | 2 groups of 2 samples, one shared and two ordinary columns, 2 types, 4 segments | `RefCountsExact`, `DecodedAsEncoded`, `OneCopyPerGroup` after any sequence of puts, refused puts, prunes and clears |
| `client` | 2 prompts whose samples come in 2 puts that share a prompt, a write-back, 2 shards, segments of two rows, up to 3 adjacent rows of a put for a shard, any answer to a fetch lost | `RowsMatch`, `ReportedIsThere`; under fairness `CompleteIsDelivered` |
| `pipeline` | 5 batches of 2 prompts, mini-batches of 1, staleness 0 and 1, `hccl` and `flexfetch`, 1 agent loop, 1 update of a worker at a time | `InFlightBounded`, `LagBounded`, `NeverTakenBack`; under fairness `Finishes` |
| `flexfetch` | 4 versions, 2 ranks, caches of 2, a replica or the forward worker, of one process or of several | `CacheKept`, `WholeUnlessOverlapped`; under fairness `ServesAgain` |
| `partial_rollout` | 2 epochs of 3 batches of 2 prompts, 2 trajectories each, 2 workers, a validation, a crash at any moment, checkpoints after steps 1 and 3 | `OwnedOnce`, `CountsAgree`, `EngineQuiet`, the refinement `TrainsBatches`; under fairness `Finishes` |
| `reward_queue` | 3 samples of 2 responses, 2 queues of 2, one failing inference | `OneFate`; under fairness `StreamEnds` |
| `tinker` | 2 requests under way, 1 saved state, 1 sampler, 3 identities, failures of everything | `BoundWeights` |
| `roles` | 2 requests and a stray generation, samples served by the rollout or the reference, every step may fail | `ReceivedOrder` at this gate, `TakesTurns`; under fairness `Answered` |
| `gkd` | both schedulers, 1 to 4 batches in 2 parts, 2 threads, any failure of the teacher | `StepsInTurn`, `LagBounded`; under fairness `Finishes` |

Runs that find what a comment or docstring says violated:

| Run | Property | What the code does |
| --- | --- | --- |
| `client_rows` | `RowsMatch` | `tq_client.py:500`: rows for a shard are taken as one slice; when they are not adjacent the shard stores other samples' rows |
| `gkd_current` | `GeneratesCurrent` | `ray_trainer.py:425`: the branch for the second turn begins with `if` instead of `elif`, so that the first turn also runs the `else`: the first batch is generated and trained twice, the last never trained, and the second batch is generated without sending weights after the actor was trained |

### Conditions under which the properties hold

Each of these is a constant to change or a conjunct to remove; TLC then finds the
property violated, by what the code does.

- `StatusQueries = {{}, {0}}` breaks `AtMostOnce` and `ImplementsQueue`: a status query that names
  indexes narrows the live consumed set (`tq_mgr.py:868`).
- `Preemptive = TRUE` breaks `ImplementsQueue` (an index is handed out twice): a lookup fails because another
  group was removed in between, and `max_cur_index` is not updated
  (`tq_mgr.py:1157`). A thread switch inside that loop, which makes no call, is
  possible but rare; the run and the proofs about groups and routing exclude it,
  the proof of `AtMostOnce` does not.
- `RoutingAgrees` says of a group only that the shard of a routed index owns it. When
  a shard is above the average the others may be dealt more groups than were asked
  for (`tq_mgr.py:973`; `test_transferqueue.py:594` expects exactly as many), and the
  ids of the surplus are dealt again later, perhaps to another shard: both then count
  the group, and the routing is that of the later deal.
- Batches of single samples break `GroupIsOnePrompt`: the comprehension at
  `tq_mgr.py:687` compares its variable with itself and forgets every uuid.
- Puts in `Expanding` (`needs_expansion`, `tq_client.py:397`) break the client's
  properties: groups are numbered from 0, whatever was allocated.
- `CompleteIsDelivered` leaves out the samples whose shard's answer to a fetch was
  lost (`tq_client.py:854`): they are marked consumed and nothing fetches them again.
- `flexfetch` with staleness 0 is left out of `LagBounded`: nobody waits for the
  rollouts, and the version filter is off (`tq_mgr.py:412`).
- `flexfetch` with staleness 1 or more may stop for good, and `Finishes` names that
  state (`Starved`). The driver goes on before the rollouts have loaded, so that
  prompts of later batches are asked for under a version that the trainer soon leaves
  behind. The filter (`tq_mgr.py:412`) then leaves them out for ever, only trained
  prompts give tokens back (`actor_train_worker.py:238`), and the driver waits for
  room that cannot come. No other wait lasts, and with `hccl` not this one either.
- `LagBounded` counts from the version recorded for a group, its first sample's
  (`agent_loop.py:368`); a sibling generated before an update may be a version
  older.
- `fit` ends when the last batch is handed out: versions finished afterwards are
  neither sent nor saved.
- Updates of one worker that overlap are left out of `WholeUnlessOverlapped`: a
  replica serves requests while it is half loaded.
- `ServesAgain` covers them, and every version that is dropped before it is read, but
  for two ways to wait for ever, which it names. `LoopWaits`: the forward worker's
  `pause()` waits for a lock whose owner waits for the update before, which needs the
  event loop that `pause()` blocks. `Stuck`: the other processes of a worker wait in
  `recv_string` (`flexfetch_checkpoint_engine.py:538`) for what the first does not
  send, since it raised (491) or sent it before they had taken their new sockets.
- `FlexFetch` with `FirstVersion` = 5, a resumed run, raises: buffers are created
  for version 0 only.
- A run of partial_rollout that resumed within an epoch may wait for a batch that
  was in flight when it died (`ray_trainer.py:253`), which `Finishes` leaves out.
- `BoundWeights` needs a directory for every name (`DirOf <- OneDir` with two names
  breaks it: `state_path_to_local` maps both to one) and saves that fail whole
  (`PartialSaves = TRUE` breaks it).
- `TakesTurns` says of every state that the marks are right, and the rest only of
  tasks that were not `mixed` with one of the other lock: the two locks exclude
  nothing of each other (`backends/colocated.py:579`), and a generation may lose the
  rollout to the reference. A role whose last move failed, or met another's, may be
  anywhere.
- `two_step_off` with a single batch raises (`teacher_future` is unbound), which
  `Finishes` leaves out; a thread whose request timed out never answers again.

### Bounds, and why they are enough

- Manager: three prompts are needed for the third to be allocated while one is
  deleted and one is under way; two samples make a group more than an index; two
  shards make the balance matter. `MaxGroups` = 5 leaves room for groups that are
  allocated and lost. Uuids are symmetric. Fetch sizes are one group and one
  sample, so that several fetches of one consumer compete. The properties are proved
  for all sizes.
- Table: two groups of two samples make at most four entries in a column, hence
  four live segments; the names of segments and dtypes are symmetric.
- Client: the two rollouts meet in the shared column of prompt 0, and the second
  covers two prompts on two shards with two adjacent rows for each. Segments hold two
  rows: these slices fill one, and the three rows of the write-back for the first
  shard are two messages that arrive in any order. Answers may be
  lost any number of times: a lost sample is never fetched again, so that there
  are at most as many losses as samples. Its safety properties are proved for all
  puts, shards and segments, under the conditions given with the theorems, which
  the instance of this run meets and that of `client_rows` does not.
- Pipeline: the driver of a run with staleness 1 waits for the tokens of trained
  prompts from the third batch on, and for those of prompts the filter leaves out only
  with more: with five batches, two can be asked for under the first version while the
  trainer reaches the third, and the next has to wait for their tokens. Two prompts per
  batch and mini-batches of one give two updates per version. The agent loop is one
  because a second only changes who asks and the order of indexes. `MaxUpdates` = 1:
  a worker's next update waits, since overlaps are the subject of `FlexFetch`. The
  theorems hold for every `MaxUpdates`, number of loops and batches.
- FlexFetch: with caches of two, the third version evicts and overwrites the
  first, and the fourth the second while a reader of it is slow. `CacheKept` is
  proved for all sizes.
- PartialRollout: two batches may be in flight and the third is drawn meanwhile;
  two epochs show the drain at the end of one. One restart, from a checkpoint in
  the middle or at the end of an epoch. All its safety properties are proved.
- RewardQueue: three samples over queues of two make each queue full with entries
  on their way; more failures than one only repeat the one. `OneFate` is proved for
  all sizes.
- Tinker: one identity beyond the updates of two requests under way; `Requests`
  are symmetric. The order and the weights are proved for all sizes.
- Roles: two requests are one that works and one that waits, for its lock or at the
  gate; two samples side by side mix the locks, and the stray generation is a third
  task that the gate knows nothing of. `TakesTurns` is proved for all sizes.
- Gkd: four batches reach every kind of turn of both schedulers. Errors are not
  bounded, and a thread times out at most once by itself.

No configuration checks deadlock where the system really stops: the callers of the
manager, the client, the pipeline and the other trainers are finite, and so are
the identities of `tinker`; a server that is shut down stops. `ExperienceTable`
never stops and is checked for deadlock.

### Fairness

- `TransferQueueClient`, `AsyncFlowPipeline`, `PartialRollout`: weak fairness of
  "some step" (`Progress`, `Next`, `Step`). Threads and actors are scheduled by the
  operating system and by Ray, which stop none for ever; polling loops are guards,
  and no step undoes another (an abort happens once for each request of a step), so
  that some step whenever one is possible leads everywhere. Callers need not start
  a put, and a crash is never required to happen or not to.
- `RewardQueue`: weak fairness of each coroutine, of inference and scoring, and of
  the monitor, which wakes every ten seconds.
- `FlexFetch`: strong fairness of an update, since the forward worker's loop gives
  its lock back again and again and sleeps without it; weak of the loop.
- `ModelRoles`: weak fairness of the progress of each task, strong of taking a
  lock that is free again and again.
- `OnPolicyDistill`: weak fairness of the driver, of the generation under way and
  of each thread; which of an answer, an error and a timeout comes is not assumed.

## Theorems

Eight modules hold theorems, for every value of the constants under the
assumptions named in the modules themselves.

- `TransferQueueManager_proofs`, in four parts.
  `DeliveredAtMostOnce`, if no status query names indexes: `AtMostOnce` is not
  inductive, since a deletion removes an index from the consumed set, and what keeps
  it from being delivered again is that it has no shard, that new groups are above
  every index ever allocated, and that a late report concerns allocated indexes
  only. `DeliveryInv` is `TypeOK`, `AllocatedOnly`, `DeletedIsUnrouted`,
  `DeliveredOnce`. It holds with `Preemptive` of either value, as does `TypeCorrect`.
  `OnePromptPerGroup` and `IndexesAreFresh`, if the samples of a prompt are put
  together (`PutWhole`, as the agent loop does) and the loop over the uuids is not
  preempted: `PromptInv` follows a prompt through an allocation. Its group is above
  all others and all its indexes are routed (`Dealt`): the shares of the shards
  together reach the number of groups asked for, although shards above the average
  take none, which is counted with injections between finite sets. In the loop the
  group holds the indexes of the samples passed so far (`Numbered`), so that a lookup
  never fails and the group is never found full.
  `RoutingAlwaysAgrees`, if moreover each stage writes a column of its own that the
  trainer waits for (`Marked`: `INPUT_COLUMNS` of `actor_train_worker.py` has one of
  the `OUTPUT_COLUMNS` of the rollout, the forward, the reference and the advantage
  worker): in `RouteInv` such a column of an index is in one place, a put, a batch, a
  write or the ready set, so that when the trainer has an index no write of it is
  under way that could come after its deletion. That a shard owns the group of what
  is routed to it needs none of these conditions (`OwnersAlwaysAgree`).
  `ImplementsSampleQueue`, under the conditions of `RoutingAlwaysAgrees`: the manager
  implements `SampleQueue`. `QueueInv` adds that what is under way or ready belongs to
  prompts, that a batch was given to its consumer and that a stage writes only what it
  was given. `Numbered` makes an allotted index new and keeps the prompt from getting
  too many, `NothingRevived` keeps reports and fetches off what was deleted, and
  `GroupIsOnePrompt` makes a group that is complete a whole prompt.
- `ExperienceTable_proofs`: `TypeCorrect`, `CountsStayExact`, `AlwaysDecodedAsEncoded`,
  `AlwaysOneCopy`. A put sets a segment's count to the number of entries that stay of
  what it stores; a shared frame's is the group size times the number of groups, which
  a bijection shows to be its entries. A column without a dtype is empty, so that
  a put refused half way leaves nothing that is decoded wrongly.
  The second half of the module is about an instance of `TransferQueueClient`.
  `ReportsAreTrue` (`TypeOK` and `ReportedIsThere`) assumes `Setting`: no two rollouts
  are given one index, which is `IndexesAreFresh` of the manager, and no put has
  `needs_expansion`. A sample that was deleted no longer has its values, so that the
  invariant `ClientInv` speaks of samples that have a column ready or are gone (`Has`),
  or have it stored or are gone (`Kept`), which stay true once they are: each mark,
  ready report and finished put is followed
  back to the messages that carried it, whole groups for a shared column. Its last part,
  `CompleteIsUsable`, is the safety part of `CompleteIsDelivered`: a sample all of whose
  columns have been put is never out of the trainer's reach, unless an answer was lost.
  What the trainer has consumed is asked for, delivered or lost (`TrainerRows`), since
  a shard never misses what it is asked for.
  `RowsAlwaysMatch` assumes `ShardsInTurn` as well: a put is of one prompt, carries
  one shared column or is a rollout of whole prompts, and the rows of a shard follow
  each other in it. The client pairs
  slices of the sorted indexes with slices of the rows, so that
  the two must be the same run of rows (`RowsFollow`, `SlicesFit`); for shared
  columns the groups that lack one must be the same for all of them
  (`SharedAlike`). `RowsInv` adds that each message under way carries its own rows.
  A rollout put carries three shared columns (`prompt`, `prompt_length`, `prompt_uuid`)
  and may bring several prompts if it brings all their samples: nobody has anything of
  these prompts until the put has asked about them, so that it finds none of the
  columns written (`FirstPuts`); `client_rows` shows what happens to puts
  of several prompts whose rows on a shard do not follow each other.
- `AsyncFlowPipeline_proofs`: `TypeCorrect`, `InFlightAlwaysBounded`,
  `LagAlwaysBounded`, `VersionNeverTakenBack`. `Tally`: the tokens in the queue are
  the batches drawn less those trained and those not yet given back. `VersionsAgree`:
  the trainer is at most one version ahead of what was sent; `Carried`: with `hccl` the
  driver goes on when all have loaded; `InStep`: at staleness 0 a batch begins when
  nothing is under way.
- `PartialRollout_proofs`: `TypeCorrect`, `OwnedAlwaysOnce`, `CountsAlwaysAgree`,
  `QuietUpdates`, `EpochsAreTrained`, and `ImplementsPromptBatches`, the refinement
  of `PromptBatches`. The invariant is `TypeOK /\ Queues /\ Held /\ Trajectories /\
  EventsAgree /\ BudgetKept /\ Gate /\ Steps`: the manager's four places share
  nothing, every ongoing prompt has one holder among the workers, the tasks of a
  worker add up to its count of trajectories, the gate and the phase of the trainer
  agree, and what is in flight and trained adds up to what was drawn. The number of
  prompts in a worker's hands is a sum, so that the proofs count with finite sets.
- `FlexFetch_proofs`: `TypeCorrect`, `CacheIsKept`, `WholeInTurn`. The cache of a rank is a run of
  consecutive versions that ends at the newest written (`CacheOrdered`), so that no
  two of them share a buffer and the one overwritten is the one dropped. While
  updates come one at a time (`InTurn`) the version sent last is in every cache, so
  that the update finds all parts of it, and no process waits for ever (`OneAtATime`).
- `RewardQueue_proofs`: `TypeCorrect`, `EverySampleHasOneFate`. `OneFate` counts
  pieces and says nothing of where they may be, so that no step follows from it.
  `IInv` speaks of sets: a response is generated, queued, being scored or in its group
  but in one place only (`OnePlace`), so is a sample from its last score to its
  training (`OneDelivery`), and a sample has responses after it was begun and before it
  is whole (`HeldBetween`). `Missing`, the samples of which a response is nowhere, gains
  at most one with each put on a full queue or failed inference, which counts it, and one
  with the end signal, which comes once (`Signalled`). That the counts of the property
  are the sizes of these sets is shown with bijections (`PiecesAreHeld`).
- `TinkerServer_proofs`, in three parts. What the gate promises to its users is stated
  of any queue, count and flag, since requests enter and leave within one step.
  `RolesKeepOrder` and `RolesTakeTurns` are about an instance of `ModelRoles` over that
  gate. `RolesInv`: `LockHeld` says from a task's step which lock it has, so that only
  generations are beside one that moves roles for the actor or the reference; `Moves`,
  `Meets` and `Places` say what each task moves and where that is meanwhile, unsure
  when two move one role; `Marked` that what nobody moves is where its mark says, as
  it is after a failed move because that leaves it unsure; `Apart` that tasks of
  both locks under way are mixed, and `Solitary` that one that is not mixed has put to
  sleep, or is about to, every role marked awake but its own. The turns rest on the
  locks; the gate is needed for a transfer only, which is exclusive and so uses the
  actor.
  `TypeCorrect`, `OrderIsKept` and, assuming `Separate` (a directory for each name,
  saves that fail whole), `WeightsAreBound` are about `TinkerServer`. The invariant
  joins the gate's with `Life` (stage, kind and operation of a request belong
  together), `Serving` (what serves a sample has its identity), `Named` and
  `Stored` (identities name the weights they were given to).
- `OnPolicyDistill_proofs`: `TypeCorrect`, `LagIsBounded`, `StepsAreInTurn`, for any
  number of batches and threads, and `OnlySecondIsStale`: the generation that
  `gkd_current` shows to be of older weights is the only one. The invariant `Plan`
  says, at each call of each kind of turn, which batches were generated, submitted
  and collected last and how many updates old they may be; `Collected` that the
  buffer holds what was collected last, `StepsLeft` that no step begins after the
  last. The first turn of `one_step_off`, with its second half, has a plan of its own.

TLC confirmed each inductive invariant on an instance before it was proved.

Every safety invariant and action property of the passing runs is proved, under the
conditions named above. Only model-checked: liveness under fairness (`Finishes`,
`StreamEnds`, `ServesAgain`, `Answered`, `CompleteIsDelivered`), which is out of the
prover's reach, and so is induction over data.

## Not modelled

The definitions map about a fifteenth of the repository's implementation lines.
Most of the rest is numerical (losses, advantages, kernels, model patches), text
(reward functions, parsers) or adapters to external programs, where there is no
control to check. In the systems that are modelled the following is left out.

- Manager: fetches by index and by the version samplers, topic administration,
  counters and metrics. The marks of shared columns are in the client's module.
- Client: retries of puts, the socket pool, encoding.
- Pipeline: ranks of a worker group, which barriers keep in step; several rollout
  servers (one stands for all); the reference, reward and advantage stages, which
  only delay a sample; crashes of actors, which end the run; resumption, except as
  the value of `LoadedStep`; metrics and profiling.
- FlexFetch: bucket layout and transport; several replicas at once, whose reads do
  not meet.
- PartialRollout: trajectories that raise (nobody looks at the worker's future any
  more: listed as a hazard), partial tokens, scores.
- RewardQueue: the path without the reward queue and the staleness counter only it
  reads, validation, checkpoints, statistics.
- verl_tinker: teachers, servers without a rollout or without offloading, sessions
  and metadata, losses, the race of initialisation and shutdown, the archive of old
  request ids.
- gkd: resumption from a checkpoint, generations that fail, several parts in one
  request (`num_microbatches`, which the trainer leaves at 1), the order of the
  broadcast's buckets, the teacher's proxy and workers.
- `dynamo`, `atropos`, `nemo_gym` and `langgraph_agent` depend on an external
  server's behaviour that the repository does not state.

## Plan

1. The client with retries of puts, and with two shared columns that different
   groups lack; the samplers by version.
2. Trajectories that raise in `PartialRollout`; the path without the reward queue
   in `RewardQueue`.
3. Theorems: `ReportedIsThere` and `RowsMatch` for puts with `needs_expansion`, under
   a condition on their callers.
