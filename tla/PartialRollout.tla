--------------------------- MODULE PartialRollout ---------------------------
(***************************************************************************)
(* The partial rollout of src/partial_rollout. The trainer feeds batches   *)
(* of prompts to the RolloutPromptManager, up to twice what a step needs,  *)
(* and takes one batch of finished prompts for each step. Agent loop       *)
(* workers pull prompts as their budget of trajectories allows, whatever   *)
(* the trainer does. Between a pull and the next step the servers admit no *)
(* request and abort those they have, which the clients send again.        *)
(*                                                                         *)
(* Prompts are numbered in the order of the data. The trajectories of one  *)
(* prompt are interchangeable and only counted; the servers are one. A run *)
(* that dies is started again and resumes from the checkpoint, the         *)
(* dataloader included.                                                    *)
(***************************************************************************)
EXTENDS Integers, FiniteSets, Sequences

CONSTANTS
    BatchSize,       \* gen_batch_size
    BatchesPerEpoch, \* len(train_dataloader)
    Epochs,          \* total_epochs
    N,               \* rollout.n
    Workers,         \* agent loop workers
    TestSteps,       \* the steps that end with a validation
    SaveSteps,       \* the steps that end with a checkpoint
    MaxRestarts      \* bound: times the run is started again

ASSUME PartialRolloutAssumption ==
    /\ BatchSize \in Nat \ {0} /\ BatchesPerEpoch \in Nat \ {0}
    /\ Epochs \in Nat \ {0} /\ N \in Nat \ {0}
    /\ Workers # {} /\ IsFiniteSet(Workers)
    /\ TestSteps \subseteq Nat /\ SaveSteps \subseteq Nat
    /\ MaxRestarts \in Nat

TotalSteps == Epochs * BatchesPerEpoch
Prompts == 1 .. TotalSteps * BatchSize
MaxInflightTraj == N * ((BatchSize + Cardinality(Workers) - 1) \div Cardinality(Workers))

VARIABLES
    fit,              \* where the trainer is in fit_step
    global_steps,
    drawn,            \* batches drawn from the dataloader, since the first epoch
    trained,          \* prompts of the batches pulled
    saved,            \* the checkpoint
    restarts,
    mid_epoch,        \* history: the run resumed within an epoch
    pending_queue, ongoing_set, done_queue,
    batch_ready,      \* _batch_ready is set
    prompts_pending,  \* _prompts_pending is set
    pull_task,        \* prompts asked for by a worker's pull; 0: not waiting for any
    blocked,          \* the workers whose pull awaits _prompts_pending
    pulled,           \* what the manager returned to a worker's pull
    pushes,           \* push_prompts on their way
    inflight_traj,
    slot_event,
    running,          \* prompts of the _run_one tasks of a worker
    waiting,          \* trajectories of a prompt whose request is at the gate
    generating,       \* trajectories of a prompt whose request is in the engine
    resume_event      \* the gate is open

runVars == <<saved, restarts, mid_epoch>>
trainerVars == <<fit, global_steps, drawn, trained, runVars>>
managerVars == <<pending_queue, ongoing_set, done_queue, batch_ready, prompts_pending>>
workerVars == <<pull_task, blocked, pulled, pushes, inflight_traj, slot_event, running>>
serverVars == <<waiting, generating>>
vars == <<trainerVars, managerVars, workerVars, serverVars, resume_event>>

RangeOf(s) == {s[i] : i \in DOMAIN s}
InFlight == Len(pending_queue) + Cardinality(ongoing_set) + Len(done_queue)
Least(a, b) == IF a < b THEN a ELSE b

Init ==
    /\ fit = "feed" /\ global_steps = 1 /\ drawn = 0 /\ trained = {}
    /\ saved = [step |-> 0, drawn |-> 0, trained |-> {}]
    /\ restarts = 0 /\ mid_epoch = FALSE
    /\ pending_queue = <<>> /\ ongoing_set = {} /\ done_queue = <<>>
    /\ batch_ready = FALSE /\ prompts_pending = FALSE
    /\ pull_task = [w \in Workers |-> MaxInflightTraj \div N]
    /\ blocked = {} /\ pulled = [w \in Workers |-> <<>>] /\ pushes = {}
    /\ inflight_traj = [w \in Workers |-> 0]
    /\ slot_event = [w \in Workers |-> FALSE]
    /\ running = [w \in Workers |-> {}]
    /\ waiting = [p \in Prompts |-> 0] /\ generating = [p \in Prompts |-> 0]
    /\ resume_event = TRUE
-----------------------------------------------------------------------------
(* The trainer *)

Epoch == (global_steps - 1) \div BatchesPerEpoch
EpochEnd == (Epoch + 1) * BatchesPerEpoch

(* One turn of the feeding loop of _fit_generate.                          *)
PushBatch ==
    /\ fit = "feed" /\ drawn < EpochEnd
    /\ pending_queue' = pending_queue \o [i \in 1 .. BatchSize |-> drawn * BatchSize + i]
    /\ prompts_pending' = TRUE
    /\ drawn' = drawn + 1
    /\ fit' = IF InFlight + BatchSize < 2 * BatchSize THEN "feed" ELSE "prime"
    /\ UNCHANGED <<global_steps, trained, runVars, ongoing_set, done_queue,
                   batch_ready, workerVars, serverVars, resume_event>>

(* The dataloader is exhausted: a dummy batch, and on with what is there.  *)
LoaderExhausted ==
    /\ fit = "feed" /\ drawn = EpochEnd
    /\ fit' = "prime"
    /\ UNCHANGED <<global_steps, drawn, trained, runVars, managerVars, workerVars,
                   serverVars, resume_event>>

(* generate_sequences: resume, pull_batch, cancel.                         *)
Resume ==
    /\ fit = "prime"
    /\ resume_event' = TRUE
    /\ fit' = "pull"
    /\ UNCHANGED <<global_steps, drawn, trained, runVars, managerVars, workerVars,
                   serverVars>>

(* Mutant: the gate is not armed again. *)
PullKeepingReady ==
    /\ fit = "pull" /\ batch_ready
    /\ LET n == Least(BatchSize, Len(done_queue)) IN
       /\ trained' = trained \cup RangeOf(SubSeq(done_queue, 1, n))
       /\ done_queue' = SubSeq(done_queue, n + 1, Len(done_queue))
    /\ fit' = "cancel"
    /\ UNCHANGED <<global_steps, drawn, runVars, pending_queue, ongoing_set,
                   batch_ready, prompts_pending, workerVars, serverVars, resume_event>>

PullBatch ==
    /\ fit = "pull" /\ batch_ready
    /\ trained' = trained \cup RangeOf(SubSeq(done_queue, 1, BatchSize))
    /\ done_queue' = SubSeq(done_queue, BatchSize + 1, Len(done_queue))
    /\ batch_ready' = (Len(done_queue') >= BatchSize)
    /\ fit' = "cancel"
    /\ UNCHANGED <<global_steps, drawn, runVars, pending_queue, ongoing_set,
                   prompts_pending, workerVars, serverVars, resume_event>>

(* Mutant: aborts what there is and leaves the gate open. *)
CancelOpen ==
    /\ fit = "cancel"
    /\ fit' = "abort"
    /\ UNCHANGED <<global_steps, drawn, trained, runVars, managerVars, workerVars,
                   serverVars, resume_event>>

Cancel ==
    /\ fit = "cancel"
    /\ resume_event' = FALSE
    /\ fit' = "abort"
    /\ UNCHANGED <<global_steps, drawn, trained, runVars, managerVars, workerVars,
                   serverVars>>

(* cancel returns once the requests it aborts have all gone.               *)
Cancelled ==
    /\ fit = "abort" /\ \A p \in Prompts : generating[p] = 0
    /\ fit' = "train"
    /\ UNCHANGED <<global_steps, drawn, trained, runVars, managerVars, workerVars,
                   serverVars, resume_event>>

(* The updates of the step, that of the rollouts' weights the last, then   *)
(* validation, which opens the gate again, and the checkpoint. The last    *)
(* step of an epoch leaves its loop, and the dataloader starts over.       *)
FinishStep ==
    /\ fit = "train"
    /\ resume_event' = (resume_event \/ global_steps \in TestSteps)
    /\ saved' = IF global_steps \in SaveSteps
                THEN [step |-> global_steps, drawn |-> drawn, trained |-> trained]
                ELSE saved
    /\ global_steps' = global_steps + 1
    /\ drawn' = IF global_steps = EpochEnd THEN EpochEnd ELSE drawn
    /\ fit' = IF global_steps = TotalSteps THEN "done" ELSE "feed"
    /\ UNCHANGED <<trained, restarts, mid_epoch, managerVars, workerVars, serverVars>>

-----------------------------------------------------------------------------
(* The workers. A worker's loop waits for its pull, for a trajectory to    *)
(* end and for its prompts, and takes whatever has happened.               *)

(* pull_prompts finds nothing and waits for the event.                     *)
AwaitPrompts(w) ==
    /\ pull_task[w] > 0 /\ w \notin blocked /\ pending_queue = <<>>
    /\ blocked' = blocked \cup {w}
    /\ UNCHANGED <<trainerVars, managerVars, pull_task, pulled, pushes, inflight_traj,
                   slot_event, running, serverVars, resume_event>>

(* Mutant: leaves the event as it is when it takes the last prompts. *)
PullLeavingEvent(w) ==
    /\ pull_task[w] > 0 /\ pending_queue # <<>>
    /\ w \in blocked => prompts_pending
    /\ LET n == Least(pull_task[w], Len(pending_queue)) IN
       /\ pulled' = [pulled EXCEPT ![w] = SubSeq(pending_queue, 1, n)]
       /\ pending_queue' = SubSeq(pending_queue, n + 1, Len(pending_queue))
       /\ ongoing_set' = ongoing_set \cup RangeOf(SubSeq(pending_queue, 1, n))
    /\ pull_task' = [pull_task EXCEPT ![w] = 0]
    /\ blocked' = blocked \ {w}
    /\ UNCHANGED <<trainerVars, done_queue, batch_ready, prompts_pending, pushes,
                   inflight_traj, slot_event, running, serverVars, resume_event>>

PullPrompts(w) ==
    /\ pull_task[w] > 0 /\ pending_queue # <<>>
    /\ w \in blocked => prompts_pending
    /\ LET n == Least(pull_task[w], Len(pending_queue)) IN
       /\ pulled' = [pulled EXCEPT ![w] = SubSeq(pending_queue, 1, n)]
       /\ pending_queue' = SubSeq(pending_queue, n + 1, Len(pending_queue))
       /\ ongoing_set' = ongoing_set \cup RangeOf(SubSeq(pending_queue, 1, n))
    /\ prompts_pending' = (pending_queue' # <<>>)
    /\ pull_task' = [pull_task EXCEPT ![w] = 0]
    /\ blocked' = blocked \ {w}
    /\ UNCHANGED <<trainerVars, done_queue, batch_ready, pushes, inflight_traj,
                   slot_event, running, serverVars, resume_event>>

Finished(w) == {p \in running[w] : waiting[p] = 0 /\ generating[p] = 0}

Slots(traj) == IF traj + N <= MaxInflightTraj THEN (MaxInflightTraj - traj) \div N ELSE 0

(* Mutant: a task that has ended is not taken out of running. *)
KeepRunning(w, done) ==
    LET arrived == RangeOf(pulled[w])
        traj == inflight_traj[w] + N * Len(pulled[w])
        idle == pull_task[w] = 0
    IN  /\ slot_event[w] \/ pulled[w] # <<>> \/ done # {}
        /\ slot_event' = [slot_event EXCEPT ![w] = FALSE]
        /\ inflight_traj' = [inflight_traj EXCEPT ![w] = traj]
        /\ running' = [running EXCEPT ![w] = @ \cup arrived]
        /\ waiting' = [p \in Prompts |-> IF p \in arrived THEN N ELSE waiting[p]]
        /\ pulled' = [pulled EXCEPT ![w] = <<>>]
        /\ pushes' = IF done = {} THEN pushes ELSE pushes \cup {done}
        /\ pull_task' = [pull_task EXCEPT ![w] = IF idle THEN Slots(traj) ELSE @]
        /\ UNCHANGED <<trainerVars, managerVars, blocked, generating, resume_event>>

(* One turn of run_continuous: done are the tasks that have ended.         *)
RunContinuous(w, done) ==
    LET arrived == RangeOf(pulled[w])
        traj == inflight_traj[w] + N * Len(pulled[w])
        idle == pull_task[w] = 0
    IN  /\ slot_event[w] \/ pulled[w] # <<>> \/ done # {}
        /\ slot_event' = [slot_event EXCEPT ![w] = FALSE]
        /\ inflight_traj' = [inflight_traj EXCEPT ![w] = traj]
        /\ running' = [running EXCEPT ![w] = (@ \cup arrived) \ done]
        /\ waiting' = [p \in Prompts |-> IF p \in arrived THEN N ELSE waiting[p]]
        /\ pulled' = [pulled EXCEPT ![w] = <<>>]
        /\ pushes' = IF done = {} THEN pushes ELSE pushes \cup {done}
        /\ pull_task' = [pull_task EXCEPT ![w] = IF idle THEN Slots(traj) ELSE @]
        /\ UNCHANGED <<trainerVars, managerVars, blocked, generating, resume_event>>

(* Mutant: wakes the trainer only when exactly a batch is there. *)
PushOnlyAtOnce(prompts) ==
    /\ \E order \in [1 .. Cardinality(prompts) -> prompts] :
        /\ RangeOf(order) = prompts
        /\ done_queue' = done_queue \o order
    /\ ongoing_set' = ongoing_set \ prompts
    /\ batch_ready' = (batch_ready \/ Len(done_queue') > BatchSize)
    /\ pushes' = pushes \ {prompts}
    /\ UNCHANGED <<trainerVars, pending_queue, prompts_pending, pull_task, blocked, pulled,
                   inflight_traj, slot_event, running, serverVars, resume_event>>

(* The order of a push is that of a Python set of tasks.                   *)
PushPrompts(prompts) ==
    /\ \E order \in [1 .. Cardinality(prompts) -> prompts] :
        /\ RangeOf(order) = prompts
        /\ done_queue' = done_queue \o order
    /\ ongoing_set' = ongoing_set \ prompts
    /\ batch_ready' = (batch_ready \/ Len(done_queue') >= BatchSize)
    /\ pushes' = pushes \ {prompts}
    /\ UNCHANGED <<trainerVars, pending_queue, prompts_pending, pull_task, blocked, pulled,
                   inflight_traj, slot_event, running, serverVars, resume_event>>

-----------------------------------------------------------------------------
(* The servers, and the clients that send an aborted request again *)

Generate(p) ==
    /\ waiting[p] > 0 /\ resume_event
    /\ waiting' = [waiting EXCEPT ![p] = @ - 1]
    /\ generating' = [generating EXCEPT ![p] = @ + 1]
    /\ UNCHANGED <<trainerVars, managerVars, workerVars, resume_event>>

(* Mutant: gives the slot back twice. *)
TrajectoryTwice(w, p) ==
    /\ p \in running[w] /\ generating[p] > 0
    /\ generating' = [generating EXCEPT ![p] = @ - 1]
    /\ inflight_traj' = [inflight_traj EXCEPT ![w] = @ - 2]
    /\ slot_event' = [slot_event EXCEPT ![w] = TRUE]
    /\ UNCHANGED <<trainerVars, managerVars, pull_task, blocked, pulled, pushes, running,
                   waiting, resume_event>>

(* A trajectory ends in a worker's generate_for_prompt.                    *)
TrajectoryDone(w, p) ==
    /\ p \in running[w] /\ generating[p] > 0
    /\ generating' = [generating EXCEPT ![p] = @ - 1]
    /\ inflight_traj' = [inflight_traj EXCEPT ![w] = @ - 1]
    /\ slot_event' = [slot_event EXCEPT ![w] = TRUE]
    /\ UNCHANGED <<trainerVars, managerVars, pull_task, blocked, pulled, pushes, running,
                   waiting, resume_event>>

Abort(p) ==
    /\ fit = "abort" /\ generating[p] > 0
    /\ generating' = [generating EXCEPT ![p] = @ - 1]
    /\ waiting' = [waiting EXCEPT ![p] = @ + 1]
    /\ UNCHANGED <<trainerVars, managerVars, workerVars, resume_event>>

-----------------------------------------------------------------------------
(* The process dies. fit() starts again from the checkpoint; a dataloader  *)
(* that had come to the end of its epoch starts over.                      *)
Restart ==
    /\ fit # "done" /\ restarts < MaxRestarts
    /\ restarts' = restarts + 1
    /\ mid_epoch' = (saved.step % BatchesPerEpoch # 0)
    /\ fit' = IF saved.step = TotalSteps THEN "done" ELSE "feed"
    /\ global_steps' = saved.step + 1 /\ drawn' = saved.drawn /\ trained' = saved.trained
    /\ pending_queue' = <<>> /\ ongoing_set' = {} /\ done_queue' = <<>>
    /\ batch_ready' = FALSE /\ prompts_pending' = FALSE
    /\ pull_task' = [w \in Workers |-> MaxInflightTraj \div N]
    /\ blocked' = {} /\ pulled' = [w \in Workers |-> <<>>] /\ pushes' = {}
    /\ inflight_traj' = [w \in Workers |-> 0]
    /\ slot_event' = [w \in Workers |-> FALSE]
    /\ running' = [w \in Workers |-> {}]
    /\ waiting' = [p \in Prompts |-> 0] /\ generating' = [p \in Prompts |-> 0]
    /\ resume_event' = TRUE
    /\ UNCHANGED saved

Trainer == \/ PushBatch \/ LoaderExhausted \/ Resume \/ PullBatch \/ Cancel \/ Cancelled
           \/ FinishStep

Worker(w) == \/ AwaitPrompts(w) \/ PullPrompts(w)
             \/ \E done \in SUBSET Finished(w) : RunContinuous(w, done)
             \/ \E p \in running[w] : TrajectoryDone(w, p)

Step == \/ Trainer
        \/ \E w \in Workers : Worker(w)
        \/ \E prompts \in pushes : PushPrompts(prompts)
        \/ \E p \in Prompts : Generate(p) \/ Abort(p)

Next == Step \/ Restart

Spec == Init /\ [][Next]_vars

(* Every process runs. No step is undone but by an abort, of which there   *)
(* is one for each request of a step, so that some step whenever one is    *)
(* possible is enough.                                                     *)
FairSpec == Spec /\ WF_vars(Step)

-----------------------------------------------------------------------------
(* Properties *)

TypeOK ==
    /\ fit \in {"feed", "prime", "pull", "cancel", "abort", "train", "done"}
    /\ global_steps \in 1 .. TotalSteps + 1 /\ drawn \in 0 .. TotalSteps
    /\ trained \subseteq Prompts
    /\ saved \in [step : 0 .. TotalSteps, drawn : 0 .. TotalSteps, trained : SUBSET Prompts]
    /\ restarts \in 0 .. MaxRestarts /\ mid_epoch \in BOOLEAN
    /\ pending_queue \in Seq(Prompts) /\ ongoing_set \subseteq Prompts
    /\ done_queue \in Seq(Prompts)
    /\ batch_ready \in BOOLEAN /\ prompts_pending \in BOOLEAN
    /\ pull_task \in [Workers -> 0 .. MaxInflightTraj] /\ blocked \subseteq Workers
    /\ pulled \in [Workers -> Seq(Prompts)] /\ pushes \subseteq SUBSET Prompts
    /\ inflight_traj \in [Workers -> 0 .. MaxInflightTraj]
    /\ slot_event \in [Workers -> BOOLEAN] /\ running \in [Workers -> SUBSET Prompts]
    /\ waiting \in [Prompts -> 0 .. N] /\ generating \in [Prompts -> 0 .. N]
    /\ resume_event \in BOOLEAN

(* Whatever the workers, the servers and the manager do in between, the    *)
(* run trains whole batches of prompts that were drawn, each prompt once,  *)
(* and goes on from its checkpoint (fit, pull_batch, push_batch).          *)
Data == INSTANCE PromptBatches WITH
            Batches <- TotalSteps, saved <- [drawn |-> saved.drawn, trained |-> saved.trained]
TrainsBatches == Data!Spec

(* A prompt that was drawn is pending, ongoing, done or trained, once, and *)
(* none is lost unless the run was started again. An ongoing prompt is     *)
(* with one worker: in the answer to its pull, in one of its tasks, or     *)
(* pushed back (push_batch, pull_prompts, push_prompts, pull_batch).       *)
Owned == RangeOf(pending_queue) \cup ongoing_set \cup RangeOf(done_queue) \cup trained
Holders(p) == Cardinality({w \in Workers : p \in RangeOf(pulled[w])})
              + Cardinality({w \in Workers : p \in running[w]})
              + Cardinality({m \in pushes : p \in m})
OwnedOnce ==
    /\ Cardinality(Owned) = InFlight + Cardinality(trained)
    /\ restarts = 0 => Owned = 1 .. drawn * BatchSize
    /\ \A p \in Prompts : Holders(p) = IF p \in ongoing_set THEN 1 ELSE 0

(* The two events say what the queues hold, so that a pull never waits for *)
(* what is already there nor takes what is not (pull_batch, pull_prompts). *)
EventsAgree ==
    /\ batch_ready <=> Len(done_queue) >= BatchSize
    /\ prompts_pending <=> pending_queue # <<>>

(* What a worker has, has been given and has asked for stays within its    *)
(* budget of trajectories (run_continuous).                                *)
BudgetKept ==
    \A w \in Workers :
        inflight_traj[w] + N * (Len(pulled[w]) + pull_task[w]) <= MaxInflightTraj

(* What the manager signals and the workers count by hand agrees with what *)
(* there is, whatever pulls and pushes are under way.                      *)
CountsAgree == EventsAgree /\ BudgetKept

(* No request is in the engine, nor may one get there, while the weights   *)
(* are trained and transferred (cancel).                                   *)
EngineQuiet ==
    fit = "train" => ~resume_event /\ \A p \in Prompts : generating[p] = 0

(* An epoch ends with every prompt drawn in it trained and nothing in      *)
(* flight (_fit_generate drains once the dataloader is exhausted).         *)
EpochTrained ==
    (~mid_epoch /\ fit \in {"feed", "done"} /\ drawn = (global_steps - 1)
        /\ (global_steps - 1) % BatchesPerEpoch = 0)
    => trained = 1 .. drawn * BatchSize /\ InFlight = 0

(* Every step gets its batch and the run ends, whatever the workers hold   *)
(* when it is cancelled, unless it resumed within an epoch.                *)
Finishes == <>(fit = "done" \/ mid_epoch)
=============================================================================
