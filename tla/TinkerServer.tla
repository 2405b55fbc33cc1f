---------------------------- MODULE TinkerServer ----------------------------
(***************************************************************************)
(* The server of src/verl_tinker and the identities of its weights. An     *)
(* update gives the actor a new identity, the rollout takes the actor's    *)
(* when it is synchronised, checkpoints and samplers are bound to one; a   *)
(* sample is served by whatever holds the weights it is bound to when it   *)
(* begins. Operations fail at any time, and may then have changed part of  *)
(* the weights.                                                            *)
(*                                                                         *)
(* This is a server with a rollout and without teachers, whose weights     *)
(* never change. What does not change weights (forward, forward_backward)  *)
(* is left out: it is an exclusive operation of ModelRoles. The identity   *)
(* that an update allocates also names the weights it makes.               *)
(***************************************************************************)
EXTENDS OpGate

CONSTANTS
    Names, Dirs,    \* names of saved states, and directories they are saved in
    DirOf(_),       \* state_path_to_local: the name's last part, cleaned
    Samplers,       \* sampling_session_seq_ids
    UseReference,   \* a reference policy is deployed
    PartialSaves,   \* a save that fails may have overwritten some of the files
    MaxActorId,     \* bound: identities
    None, Torn, Missing

ASSUME TinkerAssumption ==
    /\ \A n \in Names : DirOf(n) \in Dirs
    /\ UseReference \in BOOLEAN /\ PartialSaves \in BOOLEAN /\ MaxActorId \in Nat
    /\ None \notin Nat /\ Missing \notin Nat \cup Dirs \cup {Torn}

Weights == Nat \cup Dirs \cup {Torn}    \* those in Dirs are an earlier server's
Ops == [type : {"none", "optim_step"}]
       \cup [type : {"save_weights", "load_weights"}, name : Names]
       \cup [type : {"save_weights_for_sampler"}, sampler : Samplers \cup {None}]
       \cup [type : {"asample"}, bound : Nat, scalar : BOOLEAN]
Idle == [type |-> "none"]

VARIABLES
    op,               \* of each request
    step,             \* how far each request that was let in is
    resource,         \* what serves a sample
    actor_id, rollout_id, next_actor_id,        \* of ModelResourceManager
    state_ids,        \* _state_path_to_actor_id
    sampler_paths,    \* values of _sampler_path_to_actor_id
    samplers,         \* identity each sampler is bound to
    actor, rollout, disk,    \* weights in each, and in each directory
    weights_of        \* history: weights each identity was given to

requestVars == <<op, step, resource>>
ids == <<actor_id, rollout_id, next_actor_id, state_ids, sampler_paths, samplers>>
weights == <<actor, rollout, disk, weights_of>>
vars == <<gateVars, requestVars, ids, weights>>

Init ==
    /\ GateInit
    /\ op = [r \in Requests |-> Idle] /\ step = [r \in Requests |-> "new"]
    /\ resource = [r \in Requests |-> "actor"]
    /\ actor_id = 0 /\ rollout_id = 0 /\ next_actor_id = 1
    /\ state_ids = [n \in Names |-> None]
    /\ sampler_paths = {} /\ samplers = [s \in Samplers |-> None]
    /\ actor = 0 /\ rollout = 0
    /\ disk \in [Dirs -> Dirs \cup {Missing}]
    /\ \A d \in Dirs : disk[d] \in {d, Missing}
    /\ weights_of = [i \in 0 .. 0 |-> 0]

-----------------------------------------------------------------------------
\* Weights a new sample may be bound to: the base model's, those of a path
\* that was saved, or those of a sampler.
Bindings == ({0} \cup sampler_paths \cup {samplers[s] : s \in Samplers}) \ {None}

Allocating == {r \in Outstanding : op[r].type \in {"optim_step", "load_weights"}}

Request(r, o) ==
    /\ Schedule(r, IF o.type = "asample" THEN "sample" ELSE "exclusive")
    /\ o.type \in {"optim_step", "load_weights"} =>
           next_actor_id + Cardinality(Allocating) <= MaxActorId
    /\ op' = [op EXCEPT ![r] = o]
    /\ UNCHANGED <<step, resource, ids, weights>>

\* The operation ends; its request leaves the gate.
End(r) ==
    /\ step[r] = "done" /\ Leave(r)
    /\ op' = [op EXCEPT ![r] = Idle] /\ step' = [step EXCEPT ![r] = "new"]
    /\ resource' = [resource EXCEPT ![r] = "actor"]
    /\ UNCHANGED <<ids, weights>>

Begins(r) == stage[r] = "started" /\ step[r] = "new" /\ status = "initialized"
Goto(r, s) == step' = [step EXCEPT ![r] = s]

\* The server has been shut down meanwhile (_schedule).
Refuse(r) ==
    /\ stage[r] = "started" /\ step[r] = "new" /\ status # "initialized"
    /\ Goto(r, "done")
    /\ UNCHANGED <<gateVars, op, resource, ids, weights>>

\* resolve_resource: the rollout, the actor or the reference, in this order.
CanServe(o, ro) ==
    \/ ro = "rollout" /\ rollout_id = o.bound
    \/ ro = "actor" /\ rollout_id # o.bound /\ o.scalar /\ actor_id = o.bound
    \/ /\ ro = "ref" /\ rollout_id # o.bound /\ o.scalar /\ actor_id # o.bound
       /\ o.bound = 0 /\ UseReference

BeginSample(r) ==
    /\ Begins(r) /\ op[r].type = "asample"
    /\ \/ \E ro \in {"rollout", "actor", "ref"} :
              /\ CanServe(op[r], ro)
              /\ resource' = [resource EXCEPT ![r] = ro] /\ Goto(r, "work")
       \/ /\ \A ro \in {"rollout", "actor", "ref"} : ~CanServe(op[r], ro)
          /\ Goto(r, "done") /\ UNCHANGED resource
    /\ UNCHANGED <<gateVars, op, ids, weights>>

Sampled(r) ==
    /\ step[r] = "work" /\ op[r].type = "asample"
    /\ Goto(r, "done")
    /\ UNCHANGED <<gateVars, op, resource, ids, weights>>

\* Mutant: the identity is not used up.
NewActorSameId(w) ==
    /\ actor' = w /\ actor_id' = next_actor_id
    /\ weights_of' = [i \in 0 .. next_actor_id |-> IF i = next_actor_id THEN w ELSE weights_of[i]]
    /\ UNCHANGED next_actor_id

\* The actor's weights, perhaps partly changed, get an identity of their own.
NewActor(w) ==
    /\ actor' = w
    /\ actor_id' = next_actor_id /\ next_actor_id' = next_actor_id + 1
    /\ weights_of' = [i \in 0 .. next_actor_id |-> IF i = next_actor_id THEN w ELSE weights_of[i]]

\* A step that fails may have left the weights as they were, or changed.
OptimStep(r) ==
    /\ Begins(r) /\ op[r].type = "optim_step"
    /\ \E w \in {actor, next_actor_id} : NewActor(w)
    /\ Goto(r, "done")
    /\ UNCHANGED <<gateVars, op, resource, rollout_id, state_ids, sampler_paths, samplers,
                   rollout, disk>>

SaveState(r) ==
    /\ Begins(r) /\ op[r].type = "save_weights"
    /\ disk' = [disk EXCEPT ![DirOf(op[r].name)] = actor]
    /\ state_ids' = [state_ids EXCEPT ![op[r].name] = actor_id]
    /\ Goto(r, "done")
    /\ UNCHANGED <<gateVars, op, resource, actor_id, rollout_id, next_actor_id, sampler_paths,
                   samplers, actor, rollout, weights_of>>

FailSave(r) ==
    /\ Begins(r) /\ op[r].type = "save_weights"
    /\ IF PartialSaves THEN disk' = [disk EXCEPT ![DirOf(op[r].name)] = Torn]
                       ELSE UNCHANGED disk
    /\ Goto(r, "done")
    /\ UNCHANGED <<gateVars, op, resource, ids, actor, rollout, weights_of>>

SkipsLoad(n) == state_ids[n] # None /\ state_ids[n] = actor_id

\* There is no such state, or the actor has it already.
NoLoad(r) ==
    /\ Begins(r) /\ op[r].type = "load_weights"
    /\ disk[DirOf(op[r].name)] = Missing \/ SkipsLoad(op[r].name)
    /\ Goto(r, "done")
    /\ UNCHANGED <<gateVars, op, resource, ids, weights>>

Loads(r) ==
    /\ Begins(r) /\ op[r].type = "load_weights"
    /\ disk[DirOf(op[r].name)] # Missing /\ ~SkipsLoad(op[r].name)

\* A path that this server has not saved gets a new identity.
LoadState(r) ==
    /\ Loads(r)
    /\ LET n == op[r].name
           w == disk[DirOf(n)]
       IN  \/ /\ state_ids[n] # None
              /\ actor' = w /\ actor_id' = state_ids[n]
              /\ UNCHANGED <<next_actor_id, weights_of, state_ids>>
           \/ /\ state_ids[n] = None
              /\ NewActor(w)
              /\ state_ids' = [state_ids EXCEPT ![n] = next_actor_id]
    /\ Goto(r, "done")
    /\ UNCHANGED <<gateVars, op, resource, rollout_id, sampler_paths, samplers, rollout, disk>>

FailLoad(r) ==
    /\ Loads(r)
    /\ \E w \in {actor, next_actor_id} : NewActor(w)
    /\ Goto(r, "done")
    /\ UNCHANGED <<gateVars, op, resource, rollout_id, state_ids, sampler_paths, samplers,
                   rollout, disk>>

\* A named save makes a path; an unnamed one registers its sampler, unless
\* that is bound to other weights already.
SaveWeightsForSampler(r) ==
    /\ Begins(r) /\ op[r].type = "save_weights_for_sampler"
    /\ rollout' = actor /\ rollout_id' = actor_id
    /\ LET s == op[r].sampler
       IN  \/ s = None /\ sampler_paths' = sampler_paths \cup {actor_id} /\ UNCHANGED samplers
           \/ /\ s # None /\ UNCHANGED sampler_paths
              /\ samplers' = IF samplers[s] = None THEN [samplers EXCEPT ![s] = actor_id]
                                                   ELSE samplers
    /\ Goto(r, "done")
    /\ UNCHANGED <<gateVars, op, resource, actor_id, next_actor_id, state_ids, actor, disk,
                   weights_of>>

\* Mutant: the rollout keeps its identity.
FailSyncQuietly(r) ==
    /\ Begins(r) /\ op[r].type = "save_weights_for_sampler"
    /\ rollout' \in {rollout, Torn}
    /\ Goto(r, "done")
    /\ UNCHANGED <<gateVars, op, resource, ids, actor, disk, weights_of>>

FailSync(r) ==
    /\ Begins(r) /\ op[r].type = "save_weights_for_sampler"
    /\ rollout' \in {rollout, Torn} /\ rollout_id' = None
    /\ Goto(r, "done")
    /\ UNCHANGED <<gateVars, op, resource, actor_id, next_actor_id, state_ids, sampler_paths,
                   samplers, actor, disk, weights_of>>

-----------------------------------------------------------------------------
Clients ==
    \/ \E r \in Requests : Request(r, [type |-> "optim_step"])
    \/ \E r \in Requests, t \in {"save_weights", "load_weights"}, n \in Names :
           Request(r, [type |-> t, name |-> n])
    \/ \E r \in Requests, s \in Samplers \cup {None} :
           Request(r, [type |-> "save_weights_for_sampler", sampler |-> s])
    \/ \E r \in Requests, b \in Bindings, x \in BOOLEAN :
           Request(r, [type |-> "asample", bound |-> b, scalar |-> x])
    \/ \E r \in Requests : RetrieveFuture(r) /\ UNCHANGED <<requestVars, ids, weights>>
    \/ Shutdown /\ UNCHANGED <<requestVars, ids, weights>>

Operation(r) ==
    \/ Refuse(r) \/ BeginSample(r) \/ Sampled(r)
    \/ OptimStep(r) \/ SaveState(r) \/ FailSave(r) \/ NoLoad(r) \/ LoadState(r) \/ FailLoad(r)
    \/ SaveWeightsForSampler(r) \/ FailSync(r) \/ End(r)

Next == Clients \/ \E r \in Requests : Operation(r)
Spec == Init /\ [][Next]_vars

-----------------------------------------------------------------------------
TypeOK ==
    LET Ids == 0 .. next_actor_id - 1
    IN  /\ GateTypeOK
        /\ op \in [Requests -> Ops] /\ step \in [Requests -> {"new", "work", "done"}]
        /\ resource \in [Requests -> {"rollout", "actor", "ref"}]
        /\ next_actor_id \in Nat \ {0} /\ actor_id \in Ids
        /\ rollout_id \in Ids \cup {None}
        /\ state_ids \in [Names -> Ids \cup {None}]
        /\ sampler_paths \subseteq Ids /\ samplers \in [Samplers -> Ids \cup {None}]
        /\ actor \in Weights /\ rollout \in Weights
        /\ disk \in [Dirs -> Weights \cup {Missing}]
        /\ weights_of \in [Ids -> Weights]

Holds(ro) == CASE ro = "actor" -> actor [] ro = "rollout" -> rollout [] ro = "ref" -> weights_of[0]

(* A sample computes on the weights it was bound to when it was asked for,  *)
(* whatever was trained, loaded, synchronised or failed since; a load is    *)
(* skipped only if it would change nothing (ModelResourceManager).          *)
BoundWeights ==
    /\ \A r \in Requests : step[r] = "work" => Holds(resource[r]) = weights_of[op[r].bound]
    /\ \A n \in Names : SkipsLoad(n) => disk[DirOf(n)] = actor
=============================================================================
