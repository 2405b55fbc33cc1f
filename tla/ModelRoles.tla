----------------------------- MODULE ModelRoles -----------------------------
(***************************************************************************)
(* The colocated back end of src/verl_tinker. Actor, reference and rollout *)
(* share the GPUs: for each operation its role is woken and the others are *)
(* put to sleep. Operations of the actor and the reference run in threads  *)
(* and hold one lock throughout; generations run in the event loop and     *)
(* hold another only until the rollout is awake. A sample is a generation, *)
(* or log probabilities of the actor or the reference, as the identities   *)
(* of TinkerServer decide; here it may be either.                          *)
(*                                                                         *)
(* This is a server with enable_offload; without it all roles stay awake.  *)
(* A role that is being moved is partly on the GPUs. When the move fails,  *)
(* or meets that of another task, where the role is then is unsure, until  *)
(* it is moved again.                                                      *)
(***************************************************************************)
EXTENDS OpGate

CONSTANTS
    SampleRoles,    \* what samples may be served by
    Strays,         \* bound: generations that go on when their request has failed
    None

Roles == {"actor", "ref", "rollout"}
Locks == {"engine", "wake"}     \* _engine_lock, _replica_wake_lock
Tasks == Requests \cup Strays

ASSUME RolesAssumption ==
    SampleRoles \subseteq Roles /\ Requests \cap Strays = {} /\ None \notin Tasks

VARIABLES
    step,           \* how far each task is
    role,           \* that it needs
    to_sleep,       \* roles it found awake and has not put to sleep
    moving,         \* roles it is moving
    lock,           \* holder of each lock
    awake_roles,    \* of ModelLifecycle
    place,          \* of each role: on the GPUs, off them, partly on them, or unsure
    mixed           \* history: tasks under way together with one of the other lock

rolesVars == <<step, role, to_sleep, moving, lock, awake_roles, place, mixed>>
vars == <<gateVars, rolesVars>>

\* All roles sleep when the server has been initialised.
Init ==
    /\ GateInit
    /\ step = [t \in Tasks |-> "new"]
    /\ role = [t \in Tasks |-> IF t \in Strays THEN "rollout" ELSE "actor"]
    /\ to_sleep = [t \in Tasks |-> {}] /\ moving = [t \in Tasks |-> {}]
    /\ lock = [l \in Locks |-> None]
    /\ awake_roles = {} /\ place = [x \in Roles |-> "off"]
    /\ mixed = {}

-----------------------------------------------------------------------------
Goto(t, s) == step' = [step EXCEPT ![t] = s]
IsRollout(t) == role[t] = "rollout"
LockOf(t) == IF IsRollout(t) THEN "wake" ELSE "engine"
Unlock(t) == lock' = [l \in Locks |-> IF lock[l] = t THEN None ELSE lock[l]]
InUse == {t \in Tasks : step[t] \notin {"new", "done"}}

\* The operation begins, unless the server has been shut down. Samples may
\* also find that nothing holds their weights.
Begin(r) ==
    /\ stage[r] = "started" /\ step[r] = "new" /\ status = "initialized"
    /\ \E ro \in IF kind[r] = "sample" THEN SampleRoles ELSE {"actor"} :
           LET others == {t \in InUse : IsRollout(t) # (ro = "rollout")}
           IN  /\ role' = [role EXCEPT ![r] = ro]
               /\ mixed' = IF others = {} THEN mixed ELSE mixed \cup others \cup {r}
    /\ Goto(r, "lock")
    /\ UNCHANGED <<gateVars, to_sleep, moving, lock, awake_roles, place>>

Refuse(r) ==
    /\ stage[r] = "started" /\ step[r] = "new"
    /\ status # "initialized" \/ kind[r] = "sample"
    /\ Goto(r, "done")
    /\ UNCHANGED <<gateVars, role, to_sleep, moving, lock, awake_roles, place, mixed>>

TakeLock(t) ==
    /\ step[t] = "lock" /\ lock[LockOf(t)] = None
    /\ lock' = [lock EXCEPT ![LockOf(t)] = t]
    /\ to_sleep' = [to_sleep EXCEPT ![t] = awake_roles \ {role[t]}]
    /\ Goto(t, "prepare")
    /\ UNCHANGED <<gateVars, role, moving, awake_roles, place, mixed>>

\* A generation gives the lock back as soon as the rollout is awake.
GoToWork(t) ==
    /\ Goto(t, "work")
    /\ IF IsRollout(t) THEN Unlock(t) ELSE UNCHANGED lock

\* sleep_role and wake_role leave the role where it should be, unless another
\* task moves it meanwhile.
InMove(t, x) == IF \E q \in Tasks \ {t} : x \in moving[q] THEN "unsure" ELSE "partly"
Placed(x, where) == IF place[x] = "unsure" THEN "unsure" ELSE where

Move(t, x) ==
    /\ moving' = [moving EXCEPT ![t] = @ \cup {x}]
    /\ place' = [place EXCEPT ![x] = InMove(t, x)]

Moved(t, x, where) ==
    /\ moving' = [moving EXCEPT ![t] = {}]
    /\ place' = [place EXCEPT ![x] = Placed(x, where)]

\* Roles are put to sleep one after the other.
SleepRole(t) ==
    /\ step[t] = "prepare" /\ moving[t] = {}
    /\ \E x \in to_sleep[t] : Move(t, x) /\ to_sleep' = [to_sleep EXCEPT ![t] = @ \ {x}]
    /\ UNCHANGED <<gateVars, step, role, lock, awake_roles, mixed>>

\* Mutant: a role that was put to sleep stays marked.
MarkNothing(t) ==
    /\ step[t] = "prepare" /\ \E x \in moving[t] \ {role[t]} : Moved(t, x, "off")
    /\ UNCHANGED <<gateVars, step, role, to_sleep, lock, awake_roles, mixed>>

MarkAsleep(t) ==
    /\ step[t] = "prepare"
    /\ \E x \in moving[t] \ {role[t]} : Moved(t, x, "off") /\ awake_roles' = awake_roles \ {x}
    /\ UNCHANGED <<gateVars, step, role, to_sleep, lock, mixed>>

WakeRole(t) ==
    /\ step[t] = "prepare" /\ moving[t] = {} /\ to_sleep[t] = {} /\ role[t] \notin awake_roles
    /\ Move(t, role[t])
    /\ UNCHANGED <<gateVars, step, role, to_sleep, lock, awake_roles, mixed>>

MarkAwake(t) ==
    /\ step[t] = "prepare" /\ role[t] \in moving[t]
    /\ Moved(t, role[t], "on") /\ awake_roles' = awake_roles \cup {role[t]}
    /\ GoToWork(t)
    /\ UNCHANGED <<gateVars, role, to_sleep, mixed>>

AlreadyAwake(t) ==
    /\ step[t] = "prepare" /\ moving[t] = {} /\ to_sleep[t] = {} /\ role[t] \in awake_roles
    /\ GoToWork(t)
    /\ UNCHANGED <<gateVars, role, to_sleep, moving, awake_roles, place, mixed>>

\* A task is over. When the generation of a sample failed, the others of the
\* sample go on, for gather does not wait for them: they wait for the lock, or
\* are at work.
Fail(t) ==
    \/ Goto(t, "done") /\ UNCHANGED mixed
    \/ /\ IsRollout(t)
       /\ \E s \in Strays :
              /\ step[s] = "new"
              /\ \E at \in IF step[t] = "work" \/ t \in mixed THEN {"lock", "work"} ELSE {"lock"} :
                     step' = [step EXCEPT ![t] = "done", ![s] = at]
              /\ mixed' = IF t \in mixed THEN mixed \cup {s} ELSE mixed

\* What it was moving stays where it is, and marked as it was.
RaiseInMove(t) ==
    /\ moving[t] # {}
    /\ place' = [x \in Roles |-> IF x \in moving[t] THEN "unsure" ELSE place[x]]
    /\ moving' = [moving EXCEPT ![t] = {}] /\ to_sleep' = [to_sleep EXCEPT ![t] = {}]
    /\ Unlock(t) /\ Fail(t)
    /\ UNCHANGED <<gateVars, role, awake_roles>>

\* Mutant: an operation that fails keeps its lock.
WorkUnreleased(t) ==
    /\ step[t] = "work" /\ (Unlock(t) \/ UNCHANGED lock) /\ Fail(t)
    /\ UNCHANGED <<gateVars, role, to_sleep, moving, awake_roles, place>>

\* The operation ends, or fails.
Work(t) ==
    /\ step[t] = "work" /\ Unlock(t) /\ Fail(t)
    /\ UNCHANGED <<gateVars, role, to_sleep, moving, awake_roles, place>>

\* A transfer takes the optimizer off the GPUs, loads the rollout beside the
\* parameters of the actor, and then takes these off too. Only then it marks.
OffloadOptimizer(t) ==
    /\ step[t] = "work" /\ t \in Requests /\ kind[t] = "exclusive"
    /\ Goto(t, "offload")
    /\ moving' = [moving EXCEPT ![t] = {"actor"}]
    /\ place' = [place EXCEPT !["actor"] = Placed("actor", InMove(t, "actor"))]
    /\ UNCHANGED <<gateVars, role, to_sleep, lock, awake_roles, mixed>>

LoadRollout(t) ==
    /\ step[t] = "offload" /\ Goto(t, "load")
    /\ Move(t, "rollout")
    /\ UNCHANGED <<gateVars, role, to_sleep, lock, awake_roles, mixed>>

MoveActor(t) ==
    /\ step[t] = "load" /\ Goto(t, "leave")
    /\ place' = [place EXCEPT !["rollout"] = Placed("rollout", "on"), !["actor"] = InMove(t, "actor")]
    /\ UNCHANGED <<gateVars, role, to_sleep, moving, lock, awake_roles, mixed>>

MarkTransfer(t) ==
    /\ step[t] = "leave" /\ Goto(t, "done") /\ Unlock(t)
    /\ Moved(t, "actor", "off")
    /\ awake_roles' = (awake_roles \ {"actor"}) \cup {"rollout"}
    /\ UNCHANGED <<gateVars, role, to_sleep, mixed>>

End(t) ==
    /\ step[t] = "done" /\ Goto(t, "new") /\ mixed' = mixed \ {t}
    /\ IF t \in Requests THEN Leave(t) /\ role' = [role EXCEPT ![t] = "actor"]
                          ELSE UNCHANGED <<gateVars, role>>
    /\ UNCHANGED <<to_sleep, moving, lock, awake_roles, place>>

-----------------------------------------------------------------------------
Clients ==
    \/ \E r \in Requests : RetrieveFuture(r) \/ \E k \in ScheduledOpKind : Schedule(r, k)
    \/ Shutdown

Prepare(t) == SleepRole(t) \/ MarkAsleep(t) \/ WakeRole(t) \/ MarkAwake(t) \/ AlreadyAwake(t)
UpdateWeights(t) == OffloadOptimizer(t) \/ LoadRollout(t) \/ MoveActor(t) \/ MarkTransfer(t)
Progress(t) ==
    \/ t \in Requests /\ (Begin(t) \/ Refuse(t))
    \/ Prepare(t) \/ UpdateWeights(t) \/ Work(t) \/ RaiseInMove(t) \/ End(t)

Next ==
    \/ Clients /\ UNCHANGED rolesVars
    \/ \E t \in Tasks : TakeLock(t) \/ Progress(t)

Spec == Init /\ [][Next]_vars

\* What is called answers or fails, and no thread is kept from a lock that is
\* free again and again.
FairSpec == Spec /\ \A t \in Tasks : WF_vars(Progress(t)) /\ SF_vars(TakeLock(t))

-----------------------------------------------------------------------------
TypeOK ==
    /\ GateTypeOK
    /\ step \in [Tasks -> {"new", "lock", "prepare", "work", "offload", "load", "leave", "done"}]
    /\ role \in [Tasks -> Roles]
    /\ to_sleep \in [Tasks -> SUBSET Roles] /\ moving \in [Tasks -> SUBSET Roles]
    /\ lock \in [Locks -> Tasks \cup {None}]
    /\ awake_roles \subseteq Roles /\ place \in [Roles -> {"off", "partly", "on", "unsure"}]
    /\ mixed \subseteq Tasks

On(x) == place[x] \in {"on", "unsure"}
Off(x) == place[x] \in {"off", "unsure"}
Waking(t) == step[t] = "prepare" /\ role[t] \in moving[t]

\* A role that nobody moves is on the GPUs exactly when it is marked awake.
MarksAgree ==
    \A x \in Roles : (\A t \in Tasks : x \notin moving[t]) => IF x \in awake_roles THEN On(x) ELSE Off(x)

(* The marks are right, and what is not used together with a role of the    *)
(* other lock has the GPUs for itself: the other roles are off before its   *)
(* own comes, its own is there while it works, and only a transfer has the  *)
(* actor and the rollout there, the actor until the rollout is loaded. This *)
(* holds of roles whose last move did not fail.                             *)
TakesTurns ==
    /\ MarksAgree
    /\ \A t \in Tasks \ mixed :
          /\ step[t] = "work" => On(role[t])
          /\ step[t] = "work" \/ Waking(t) => \A x \in Roles \ {role[t]} : Off(x)
          /\ step[t] \in {"offload", "load", "leave"} => Off("ref")
          /\ step[t] \in {"offload", "load"} => place["actor"] # "off"
          /\ step[t] = "offload" => Off("rollout")
          /\ step[t] = "leave" => On("rollout")

(* Every request is answered, whatever comes after it.                      *)
Answered == \A r \in Requests : stage[r] = "queued" ~> stage[r] = "answered"
=============================================================================
