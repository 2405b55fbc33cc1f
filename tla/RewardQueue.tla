---------------------------- MODULE RewardQueue ----------------------------
(***************************************************************************)
(* The rollouter of src/reward_queue. A processor starts the inference of  *)
(* samples and puts each of their responses on the reward queue as it      *)
(* comes; a consumer takes responses from it and has them scored; a sample *)
(* whose responses all have a score goes to the message queue, where the   *)
(* trainer takes it. The processor pauses while the reward queue is full   *)
(* and the consumer while the message queue is; the trainer's parameter    *)
(* updates and a monitor let them go on.                                   *)
(*                                                                         *)
(* The coroutines of the rollouter run one at a time, from one await to    *)
(* the next. Both queues are verl's MessageQueue, known by its use: a put  *)
(* on a full queue pushes out the oldest entry and returns False, and get  *)
(* returns None once the queue is shut down and empty. A sample is its     *)
(* number in the order of the data, and the pending queue never runs dry.  *)
(***************************************************************************)
EXTENDS Integers, FiniteSets, Sequences

CONSTANTS
    TotalSamples,   \* samples the feeder puts on the pending queue
    N,              \* rollout_n, responses of a sample
    Required,       \* required_samples of a training step
    SyncStep,       \* trigger_parameter_sync_step
    MaxRequired,    \* max_required_samples, and max_queue_size
    MaxConcurrent,  \* max_concurrent_samples
    MaxRewardQueue, \* max_reward_queue_size, in responses
    MaxFailures     \* bound: inferences that raise

ASSUME RewardQueueAssumption ==
    /\ TotalSamples \in Nat /\ N \in Nat \ {0}
    /\ Required \in Nat \ {0} /\ SyncStep \in Nat \ {0}
    /\ MaxRequired \in Nat \ {0} /\ MaxRequired >= Required * SyncStep
    /\ MaxConcurrent \in 1 .. MaxRequired
    /\ MaxRewardQueue \in Nat \ {0} /\ MaxFailures \in Nat

Samples == 1 .. TotalSamples
Responses == 1 .. N
Items == Samples \X Responses
None == 0

VARIABLES
    taken,          \* samples taken from the pending queue
    processor,      \* where _processor_worker is
    inferring,      \* responses being generated for the samples of active_tasks
    active_tasks,
    paused,
    resume_event,
    reward_queue,
    shut_down,      \* the reward queue was shut down
    consumer,       \* where _reward_consumer_worker is
    scoring,        \* active_reward_tasks before they have a score
    finalizing,     \* samples in _finalize_sample
    scoring_paused,
    scoring_resume_event,
    groups,         \* the responses the aggregator has of each sample
    dropped,        \* dropped_stale_samples
    failures,
    message_queue,
    trainer,        \* where the trainer is
    collected,      \* samples of the step being collected
    steps,          \* training steps since the last parameter update
    trained

generation == <<taken, processor, inferring, active_tasks, failures>>
pauses == <<paused, resume_event, scoring_paused, scoring_resume_event>>
rewards == <<consumer, scoring, finalizing, groups>>
training == <<trainer, collected, steps, trained>>
vars == <<generation, pauses, rewards, reward_queue, shut_down, dropped, message_queue,
          training>>

Init ==
    /\ taken = 0 /\ processor = "check"
    /\ inferring = [s \in Samples |-> {}] /\ active_tasks = {} /\ failures = 0
    /\ paused = FALSE /\ resume_event = TRUE
    /\ scoring_paused = FALSE /\ scoring_resume_event = TRUE
    /\ reward_queue = <<>> /\ shut_down = FALSE
    /\ consumer = "check" /\ scoring = {} /\ finalizing = {}
    /\ groups = [s \in Samples |-> {}] /\ dropped = 0
    /\ message_queue = <<>>
    /\ trainer = "collect" /\ collected = <<>> /\ steps = 0 /\ trained = {}

(* MessageQueue.put_sample, and what the rollouter adds to dropped.        *)
PutOn(queue, max, entry) ==
    Append(IF Len(queue) >= max THEN Tail(queue) ELSE queue, entry)
Refused(queue, max) == IF Len(queue) >= max THEN 1 ELSE 0

-----------------------------------------------------------------------------
(* _processor_worker *)

RewardQueueFull == Len(reward_queue) >= MaxRewardQueue
MessageQueueFull == Len(message_queue) >= MaxRequired

CheckGeneration ==
    /\ processor = "check"
    /\ processor' = IF paused \/ RewardQueueFull THEN "pause" ELSE "get"
    /\ UNCHANGED <<taken, inferring, active_tasks, failures, pauses, rewards, reward_queue,
                   shut_down, dropped, message_queue, training>>

(* What was seen full may have been emptied by now.                        *)
PauseGeneration ==
    /\ processor = "pause"
    /\ paused' = TRUE /\ resume_event' = FALSE
    /\ processor' = "drain"
    /\ UNCHANGED <<taken, inferring, active_tasks, failures, scoring_paused,
                   scoring_resume_event, rewards, reward_queue, shut_down, dropped,
                   message_queue, training>>

(* The drain of active tasks breaks off at the resume.                     *)
ResumeGeneration ==
    /\ processor = "drain" /\ resume_event
    /\ processor' = "check"
    /\ UNCHANGED <<taken, inferring, active_tasks, failures, pauses, rewards, reward_queue,
                   shut_down, dropped, message_queue, training>>

(* The next sample, or the end signal.                                     *)
GetPending ==
    /\ processor = "get"
    /\ IF taken < TotalSamples THEN taken' = taken + 1 /\ processor' = "submit"
       ELSE processor' = "end" /\ UNCHANGED taken
    /\ UNCHANGED <<inferring, active_tasks, failures, pauses, rewards, reward_queue,
                   shut_down, dropped, message_queue, training>>

(* Mutant: starts whatever it has. *)
SubmitUnlimited ==
    /\ processor = "submit"
    /\ active_tasks' = active_tasks \cup {taken}
    /\ inferring' = [inferring EXCEPT ![taken] = Responses]
    /\ processor' = "check"
    /\ UNCHANGED <<taken, failures, pauses, rewards, reward_queue, shut_down, dropped,
                   message_queue, training>>

SubmitSample ==
    /\ processor = "submit" /\ Cardinality(active_tasks) < MaxConcurrent
    /\ paused => resume_event
    /\ active_tasks' = active_tasks \cup {taken}
    /\ inferring' = [inferring EXCEPT ![taken] = Responses]
    /\ processor' = "check"
    /\ UNCHANGED <<taken, failures, pauses, rewards, reward_queue, shut_down, dropped,
                   message_queue, training>>

EndGeneration ==
    /\ processor = "end" /\ active_tasks = {}
    /\ shut_down' = TRUE
    /\ processor' = "ended"
    /\ UNCHANGED <<taken, inferring, active_tasks, failures, pauses, rewards, reward_queue,
                   dropped, message_queue, training>>

-----------------------------------------------------------------------------
(* _process_sample_with_reward_queue *)

Inferred(s, i) ==
    /\ i \in inferring[s]
    /\ inferring' = [inferring EXCEPT ![s] = @ \ {i}]
    /\ UNCHANGED <<taken, processor, active_tasks, pauses, rewards, shut_down, message_queue,
                   training>>

PutResponse(s, i) ==
    /\ Inferred(s, i)
    /\ reward_queue' = PutOn(reward_queue, MaxRewardQueue, <<s, i>>)
    /\ dropped' = dropped + Refused(reward_queue, MaxRewardQueue)
    /\ UNCHANGED failures

(* The other responses of the sample go on, and wait for it for ever.      *)
InferenceFails(s, i) ==
    /\ failures < MaxFailures
    /\ Inferred(s, i)
    /\ failures' = failures + 1
    /\ dropped' = dropped + 1
    /\ UNCHANGED reward_queue

TaskDone(s) ==
    /\ s \in active_tasks /\ inferring[s] = {}
    /\ active_tasks' = active_tasks \ {s}
    /\ UNCHANGED <<taken, processor, inferring, failures, pauses, rewards, reward_queue,
                   shut_down, dropped, message_queue, training>>

-----------------------------------------------------------------------------
(* _reward_consumer_worker *)

CheckScoring ==
    /\ consumer = "check"
    /\ scoring_paused => scoring_resume_event
    /\ consumer' = IF scoring_paused \/ MessageQueueFull THEN "pause" ELSE "get"
    /\ UNCHANGED <<generation, pauses, scoring, finalizing, groups, reward_queue, shut_down,
                   dropped, message_queue, training>>

PauseScoring ==
    /\ consumer = "pause"
    /\ scoring_paused' = TRUE /\ scoring_resume_event' = FALSE
    /\ consumer' = "drain"
    /\ UNCHANGED <<generation, paused, resume_event, scoring, finalizing, groups, reward_queue,
                   shut_down, dropped, message_queue, training>>

ResumeScoring ==
    /\ consumer = "drain" /\ scoring_resume_event
    /\ consumer' = "check"
    /\ UNCHANGED <<generation, pauses, scoring, finalizing, groups, reward_queue, shut_down,
                   dropped, message_queue, training>>

RewardTasks == Cardinality(scoring) + Cardinality(finalizing)

(* Waits for a free slot, then for an item.                                *)
GetResponse ==
    /\ consumer = "get" /\ RewardTasks < MaxConcurrent * N
    /\ \/ /\ reward_queue # <<>>
          /\ scoring' = scoring \cup {Head(reward_queue)}
          /\ reward_queue' = Tail(reward_queue)
          /\ consumer' = "check"
       \/ /\ reward_queue = <<>> /\ shut_down
          /\ consumer' = "end"
          /\ UNCHANGED <<scoring, reward_queue>>
    /\ UNCHANGED <<generation, pauses, finalizing, groups, shut_down, dropped, message_queue,
                   training>>

(* Mutant: leaves the group of a sample that is complete. *)
ScoreKeeping(item) ==
    LET s == item[1]
        group == groups[s] \cup {item[2]}
    IN  /\ item \in scoring
        /\ scoring' = scoring \ {item}
        /\ finalizing' = IF group = Responses THEN finalizing \cup {s} ELSE finalizing
        /\ groups' = [groups EXCEPT ![s] = group]
        /\ UNCHANGED <<generation, pauses, consumer, reward_queue, shut_down, dropped,
                       message_queue, training>>

(* The last item of a sample takes its group out and goes on with it. A    *)
(* score that fails is -1.                                                 *)
Score(item) ==
    LET s == item[1]
        group == groups[s] \cup {item[2]}
    IN  /\ item \in scoring
        /\ scoring' = scoring \ {item}
        /\ IF group = Responses
           THEN finalizing' = finalizing \cup {s} /\ groups' = [groups EXCEPT ![s] = {}]
           ELSE groups' = [groups EXCEPT ![s] = group] /\ UNCHANGED finalizing
        /\ UNCHANGED <<generation, pauses, consumer, reward_queue, shut_down, dropped,
                       message_queue, training>>

Finalize(s) ==
    /\ s \in finalizing
    /\ finalizing' = finalizing \ {s}
    /\ message_queue' = PutOn(message_queue, MaxRequired, s)
    /\ dropped' = dropped + Refused(message_queue, MaxRequired)
    /\ UNCHANGED <<generation, pauses, consumer, scoring, groups, reward_queue, shut_down,
                   training>>

(* When both workers have ended, the end signal goes to the trainer.       *)
EndScoring ==
    /\ consumer = "end" /\ RewardTasks = 0 /\ processor = "ended"
    /\ consumer' = "ended"
    /\ message_queue' = PutOn(message_queue, MaxRequired, None)
    /\ UNCHANGED <<generation, pauses, scoring, finalizing, groups, reward_queue, shut_down,
                   dropped, training>>

-----------------------------------------------------------------------------
(* _async_monitor_loop, while the rollouter runs *)

MonitorGeneration ==
    /\ consumer # "ended"
    /\ paused /\ ~RewardQueueFull
    /\ paused' = FALSE /\ resume_event' = TRUE
    /\ UNCHANGED <<generation, scoring_paused, scoring_resume_event, rewards, reward_queue,
                   shut_down, dropped, message_queue, training>>

(* Mutant: leaves it to the parameter updates. *)
MonitorNothing ==
    /\ consumer # "ended"
    /\ scoring_paused /\ ~MessageQueueFull
    /\ UNCHANGED vars

MonitorScoring ==
    /\ consumer # "ended"
    /\ scoring_paused /\ ~MessageQueueFull
    /\ scoring_paused' = FALSE /\ scoring_resume_event' = TRUE
    /\ UNCHANGED <<generation, paused, resume_event, rewards, reward_queue, shut_down,
                   dropped, message_queue, training>>

-----------------------------------------------------------------------------
(* The trainer *)

(* The end signal ends the training, with fewer samples than a step needs. *)
GetSample ==
    /\ trainer = "collect" /\ message_queue # <<>>
    /\ message_queue' = Tail(message_queue)
    /\ IF Head(message_queue) = None
       THEN trainer' = "ended" /\ UNCHANGED collected
       ELSE /\ collected' = Append(collected, Head(message_queue))
            /\ trainer' = IF Len(collected') = Required THEN "train" ELSE "collect"
    /\ UNCHANGED <<generation, pauses, rewards, reward_queue, shut_down, dropped, steps,
                   trained>>

TrainStep ==
    /\ trainer = "train"
    /\ trained' = trained \cup {collected[i] : i \in DOMAIN collected}
    /\ collected' = <<>>
    /\ steps' = IF steps + 1 = SyncStep THEN 0 ELSE steps + 1
    /\ trainer' = IF steps + 1 = SyncStep THEN "sync" ELSE "collect"
    /\ UNCHANGED <<generation, pauses, rewards, reward_queue, shut_down, dropped,
                   message_queue>>

(* The trainer updates the parameters and calls reset_staleness.           *)
ResetStaleness ==
    /\ trainer = "sync"
    /\ trainer' = "collect"
    /\ paused' = FALSE /\ scoring_paused' = FALSE
    /\ resume_event' = TRUE /\ scoring_resume_event' = TRUE
    /\ UNCHANGED <<generation, rewards, reward_queue, shut_down, dropped, message_queue,
                   collected, steps, trained>>

-----------------------------------------------------------------------------
Processor == \/ CheckGeneration \/ PauseGeneration \/ ResumeGeneration
             \/ GetPending \/ SubmitSample \/ EndGeneration

Inference == \/ \E s \in Samples : TaskDone(s) \/ \E i \in Responses : PutResponse(s, i)
             \/ \E s \in Samples, i \in Responses : InferenceFails(s, i)

Consumer == CheckScoring \/ PauseScoring \/ ResumeScoring \/ GetResponse

Scoring == \/ \E item \in scoring : Score(item)
           \/ \E s \in finalizing : Finalize(s)
           \/ EndScoring

Trainer == GetSample \/ TrainStep \/ ResetStaleness

Next == \/ Processor \/ Inference \/ Consumer \/ Scoring
        \/ MonitorGeneration \/ MonitorScoring \/ Trainer

Spec == Init /\ [][Next]_vars

(* Every coroutine runs, inferences and scores end, and the monitor looks  *)
(* every ten seconds.                                                      *)
FairSpec ==
    /\ Spec
    /\ WF_vars(Processor) /\ WF_vars(Inference) /\ WF_vars(Consumer) /\ WF_vars(Scoring)
    /\ WF_vars(MonitorGeneration) /\ WF_vars(MonitorScoring) /\ WF_vars(Trainer)

-----------------------------------------------------------------------------
(* Properties *)

TypeOK ==
    /\ taken \in 0 .. TotalSamples
    /\ processor \in {"check", "pause", "drain", "get", "submit", "end", "ended"}
    /\ inferring \in [Samples -> SUBSET Responses] /\ active_tasks \subseteq Samples
    /\ Cardinality(active_tasks) <= MaxConcurrent
    /\ failures \in 0 .. MaxFailures
    /\ paused \in BOOLEAN /\ resume_event \in BOOLEAN
    /\ scoring_paused \in BOOLEAN /\ scoring_resume_event \in BOOLEAN
    /\ reward_queue \in Seq(Items) /\ Len(reward_queue) <= MaxRewardQueue
    /\ shut_down \in BOOLEAN
    /\ consumer \in {"check", "pause", "drain", "get", "end", "ended"}
    /\ scoring \subseteq Items /\ finalizing \subseteq Samples
    /\ RewardTasks <= MaxConcurrent * N
    /\ groups \in [Samples -> SUBSET Responses] /\ dropped \in Nat
    /\ message_queue \in Seq(Samples \cup {None}) /\ Len(message_queue) <= MaxRequired
    /\ trainer \in {"collect", "train", "sync", "ended"}
    /\ collected \in Seq(Samples) /\ steps \in 0 .. SyncStep - 1
    /\ trained \subseteq Samples

EntriesOf(queue) == {queue[i] : i \in DOMAIN queue}
Delivered == finalizing \cup EntriesOf(message_queue) \cup EntriesOf(collected) \cup trained
Pieces(s) ==
    Cardinality(inferring[s]) + Cardinality(groups[s])
    + Cardinality({i \in DOMAIN reward_queue : reward_queue[i][1] = s})
    + Cardinality({item \in scoring : item[1] = s})

(* A sample goes to the trainer once, when all its responses have a score, *)
(* and leaves nothing behind (SampleAggregator, _finalize_sample).         *)
DeliveredOnce ==
    /\ Cardinality(finalizing) + Len(message_queue) + Len(collected) + Cardinality(trained)
        = Cardinality(Delivered)
    /\ \A s \in Samples \cap Delivered : Pieces(s) = 0

(* The samples that will never get to the trainer: a response of theirs    *)
(* failed or was pushed out, or they were pushed out themselves.           *)
Lost == {s \in 1 .. taken : /\ s \notin Delivered /\ Pieces(s) < N
                            /\ ~(s = taken /\ processor = "submit")}

(* Each of them was counted, but for the one the end signal may push out   *)
(* (dropped_stale_samples).                                                *)
LossCounted ==
    Cardinality(Lost) <= dropped + IF consumer = "ended" THEN 1 ELSE 0

(* Every sample has one fate, whatever fails and whatever queue is full:   *)
(* it is under way, delivered whole and once, or counted as lost.          *)
OneFate == DeliveredOnce /\ LossCounted

(* The data comes to its end and the trainer is told so, after every       *)
(* sample that was not lost: no pause outlasts its cause.                  *)
Settled == trained \cup Lost \cup EntriesOf(collected)
StreamEnds == <>[](trainer = "ended" /\ message_queue = <<>> /\ Settled = Samples)
=============================================================================
