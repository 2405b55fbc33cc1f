------------------------------- MODULE OpGate -------------------------------
(***************************************************************************)
(* The gate of the server of src/verl_tinker, and the life of a request.   *)
(* Clients schedule operations on one model and fetch the results later.   *)
(* The gate lets requests in in the order they came: samples together, up  *)
(* to a limit, every other operation alone. What an operation does while   *)
(* it is in is in the modules that extend this one.                        *)
(*                                                                         *)
(* A task joins the queue as soon as it is created, for tasks start in the *)
(* order of their creation and no lock of the gate is held over an await.  *)
(* Nothing in the server cancels a task, so that the part of hold for that *)
(* case is left out. A request's slot is free again when its result has    *)
(* been fetched; that a second fetch is told so changes nothing.           *)
(***************************************************************************)
EXTENDS Integers, Sequences, FiniteSets

CONSTANTS
    Requests,       \* bound: requests whose results have not been fetched
    MaxSamples      \* max_readers

ASSUME GateAssumption == IsFiniteSet(Requests) /\ MaxSamples \in Nat \ {0}

ScheduledOpKind == {"sample", "exclusive"}

VARIABLES
    status,             \* of the server
    stage, kind,        \* of each request
    queue, active_samples, exclusive_active,
    before              \* history: pairs of requests under way, in the order received

gateVars == <<status, stage, kind, queue, active_samples, exclusive_active, before>>

GateInit ==
    /\ status = "initialized"
    /\ stage = [r \in Requests |-> "free"]
    /\ kind = [r \in Requests |-> "exclusive"]
    /\ queue = <<>> /\ active_samples = 0 /\ exclusive_active = FALSE
    /\ before = {}

Outstanding == {r \in Requests : stage[r] \in {"queued", "started"}}
Samples == {r \in Requests : kind[r] = "sample"}

\* Mutant: an exclusive operation does not wait for the samples before it.
GrantsAtOnce(q, k, n, exclusive, count) ==
    \/ exclusive /\ count = 0
    \/ ~exclusive /\ count = 1 /\ k[q[1]] = "exclusive"
    \/ /\ ~exclusive
       /\ \A i \in 1 .. count : k[q[i]] = "sample"
       /\ count = 0 \/ n + count <= MaxSamples
       /\ count < Len(q) => k[q[count + 1]] = "sample" /\ n + count >= MaxSamples

\* How many at the front of q may go in (_grant_ready_locked): an exclusive
\* operation if nothing is active, or the samples there is room for.
Grants(q, k, n, exclusive, count) ==
    \/ exclusive /\ count = 0
    \/ ~exclusive /\ n = 0 /\ count = 1 /\ k[q[1]] = "exclusive"
    \/ /\ ~exclusive
       /\ \A i \in 1 .. count : k[q[i]] = "sample"
       /\ count = 0 \/ n + count <= MaxSamples
       /\ count < Len(q) => IF k[q[count + 1]] = "sample" THEN n + count >= MaxSamples
                                                          ELSE n + count > 0

\* They are let in, s being the stages of the others.
LetIn(q, k, n, exclusive, s) ==
    \E count \in 0 .. Len(q) :
        LET first == {q[i] : i \in 1 .. count}
            one == count = 1 /\ k[q[1]] = "exclusive"
        IN  /\ Grants(q, k, n, exclusive, count)
            /\ queue' = SubSeq(q, count + 1, Len(q))
            /\ active_samples' = IF one THEN n ELSE n + count
            /\ exclusive_active' = (exclusive \/ one)
            /\ stage' = [r \in Requests |-> IF r \in first THEN "started" ELSE s[r]]

Schedule(r, k) ==
    /\ status = "initialized" /\ stage[r] = "free"
    /\ kind' = [kind EXCEPT ![r] = k]
    /\ LetIn(Append(queue, r), kind', active_samples, exclusive_active,
             [stage EXCEPT ![r] = "queued"])
    /\ before' = before \cup (Outstanding \X {r})
    /\ UNCHANGED status

\* The operation is over, and its result or its error can be fetched.
Leave(r) ==
    /\ stage[r] = "started"
    /\ LetIn(queue, kind,
             IF kind[r] = "sample" THEN active_samples - 1 ELSE active_samples,
             kind[r] = "sample" /\ exclusive_active,
             [stage EXCEPT ![r] = "answered"])
    /\ before' = {p \in before : r \notin {p[1], p[2]}}
    /\ UNCHANGED <<status, kind>>

RetrieveFuture(r) ==
    /\ status = "initialized" /\ stage[r] = "answered"
    /\ stage' = [stage EXCEPT ![r] = "free"]
    /\ kind' = [kind EXCEPT ![r] = "exclusive"]
    /\ UNCHANGED <<status, queue, active_samples, exclusive_active, before>>

Shutdown ==
    /\ status = "initialized" /\ status' = "shutdown_complete"
    /\ UNCHANGED <<stage, kind, queue, active_samples, exclusive_active, before>>

-----------------------------------------------------------------------------
GateTypeOK ==
    /\ status \in {"initialized", "shutdown_complete"}
    /\ stage \in [Requests -> {"free", "queued", "started", "answered"}]
    /\ kind \in [Requests -> ScheduledOpKind]
    /\ queue \in Seq(Requests) /\ active_samples \in Nat /\ exclusive_active \in BOOLEAN
    /\ before \subseteq Requests \X Requests

Started == {r \in Requests : stage[r] = "started"}

(* An operation that is not a sample runs alone, after all that came before *)
(* it and before all that came after it; no more samples run than the limit *)
(* says (FifoReadWriteGate).                                                *)
ReceivedOrder ==
    /\ \A p \in before : p[2] \in Started => p[1] \in Started /\ {p[1], p[2]} \subseteq Samples
    /\ Cardinality(Started \cap Samples) <= MaxSamples
=============================================================================
