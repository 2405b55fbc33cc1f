------------------------- MODULE TinkerServer_proofs -------------------------
(***************************************************************************)
(* Proofs about TinkerServer, for any number of requests, saved states and *)
(* samplers. That a sample computes on the weights it was bound to rests   *)
(* on two components: the resource manager compares identities when the    *)
(* sample begins, and the gate keeps everything that changes weights out   *)
(* until the sample ends. The inductive invariant joins the two: what the  *)
(* identities name, and that nobody works beside an exclusive operation.   *)
(*                                                                         *)
(* ModelRoles is the other half of the same server, over the same gate:    *)
(* what is proved of the gate serves both.                                 *)
(***************************************************************************)
EXTENDS TinkerServer, FiniteSetTheorems, TLAPS

-----------------------------------------------------------------------------
(* The gate *)

(***************************************************************************)
(* What the gate promises to those who extend it. Requests enter and leave *)
(* the queue in the middle of a step, so that the invariant is stated of a *)
(* queue, kinds, a count, a flag, stages and an order, whatever they are   *)
(* the values of: the same holds before and after requests are let in.     *)
(***************************************************************************)

USE GateAssumption

In(s) == {r \in Requests : s[r] = "started"}
SamplesIn(k, s) == {r \in Requests : s[r] = "started" /\ k[r] = "sample"}

Typed(q, k, n, x, s, b) ==
    /\ q \in Seq(Requests) /\ k \in [Requests -> ScheduledOpKind]
    /\ n \in Nat /\ x \in BOOLEAN
    /\ s \in [Requests -> {"free", "queued", "started", "answered"}]
    /\ b \subseteq Requests \X Requests

(* The queue holds what is queued, once, in the order received.            *)
Queued(q, s, b) ==
    /\ \A r \in Requests : s[r] = "queued" <=> \E i \in 1 .. Len(q) : q[i] = r
    /\ \A i, j \in 1 .. Len(q) : q[i] = q[j] => i = j
    /\ \A i, j \in 1 .. Len(q) : <<q[i], q[j]>> \in b => i < j

(* The count and the flag say who is in.                                   *)
Counted(k, n, x, s) ==
    /\ n = Cardinality(SamplesIn(k, s)) /\ n <= MaxSamples
    /\ x <=> \E r \in In(s) : k[r] = "exclusive"
    /\ \A r, o \in In(s) : k[r] = "exclusive" => o = r

(* Who is in did not pass anybody, but for samples that passed samples.    *)
Ordered(k, s, b) ==
    \A r, o \in Requests : <<r, o>> \in b =>
        /\ s[r] \in {"queued", "started"} /\ s[o] \in {"queued", "started"}
        /\ s[o] = "started" => s[r] = "started" /\ k[r] = "sample" /\ k[o] = "sample"

GateKept(q, k, n, x, s, b) ==
    Typed(q, k, n, x, s, b) /\ Queued(q, s, b) /\ Counted(k, n, x, s) /\ Ordered(k, s, b)

GateInv ==
    /\ status \in {"initialized", "shutdown_complete"}
    /\ GateKept(queue, kind, active_samples, exclusive_active, stage, before)

GateNext ==
    \/ \E r \in Requests : Leave(r) \/ RetrieveFuture(r) \/ \E k \in ScheduledOpKind : Schedule(r, k)
    \/ Shutdown

-----------------------------------------------------------------------------
LEMMA GateInit_ == GateInit => GateInv
<1> SUFFICES ASSUME GateInit PROVE GateInv
    OBVIOUS
<1>1. <<>> \in Seq(Requests)
    OBVIOUS
<1>2. Typed(queue, kind, active_samples, exclusive_active, stage, before)
    BY <1>1 DEF GateInit, Typed, ScheduledOpKind
<1>3. SamplesIn(kind, stage) = {} /\ In(stage) = {}
    BY DEF GateInit, SamplesIn, In
<1>4. Counted(kind, active_samples, exclusive_active, stage)
    BY <1>3, FS_EmptySet DEF GateInit, Counted
<1> QED
    BY <1>2, <1>4 DEF GateInit, GateInv, GateKept, Queued, Ordered

(* Different members of a sequence are as many as their positions.         *)
LEMMA CountOfFront ==
    ASSUME NEW q \in Seq(Requests), \A i, j \in 1 .. Len(q) : q[i] = q[j] => i = j,
           NEW count \in 0 .. Len(q)
    PROVE  LET front == {q[i] : i \in 1 .. count}
           IN  IsFiniteSet(front) /\ Cardinality(front) = count
<1> DEFINE front == {q[i] : i \in 1 .. count}
           f == [i \in 1 .. count |-> q[i]]
<1>1. \A i \in 1 .. count : i \in 1 .. Len(q)
    OBVIOUS
<1>2. f \in Bijection(1 .. count, front)
    BY <1>1 DEF Bijection, Injection, Surjection, IsInjective
<1>3. ExistsBijection(1 .. count, front)
    BY <1>2 DEF ExistsBijection
<1>4. IsFiniteSet(1 .. count) /\ Cardinality(1 .. count) = count
    <2>1. 0 \in Int /\ 1 \in Int /\ count \in Nat
        OBVIOUS
    <2> QED
        BY <2>1, FS_Interval
<1>5. IsFiniteSet(front) /\ Cardinality(front) = Cardinality(1 .. count)
    BY <1>3, <1>4, FS_Bijection
<1> QED
    BY <1>4, <1>5

(* Letting requests in keeps what held before they were.                   *)
LEMMA LetInKeeps ==
    ASSUME NEW q, NEW k, NEW n, NEW x, NEW s, NEW b,
           GateKept(q, k, n, x, s, b), LetIn(q, k, n, x, s)
    PROVE  GateKept(queue', k, active_samples', exclusive_active', stage', b)
<1>1. PICK count \in 0 .. Len(q) :
        /\ Grants(q, k, n, x, count)
        /\ queue' = SubSeq(q, count + 1, Len(q))
        /\ active_samples' = IF count = 1 /\ k[q[1]] = "exclusive" THEN n ELSE n + count
        /\ exclusive_active' = (x \/ (count = 1 /\ k[q[1]] = "exclusive"))
        /\ stage' = [r \in Requests |->
                        IF r \in {q[i] : i \in 1 .. count} THEN "started" ELSE s[r]]
    BY DEF LetIn
<1> DEFINE first == {q[i] : i \in 1 .. count}
<1>2. Typed(q, k, n, x, s, b) /\ Queued(q, s, b) /\ Counted(k, n, x, s) /\ Ordered(k, s, b)
    BY DEF GateKept
<1>3. /\ q \in Seq(Requests) /\ count \in Nat /\ Len(q) \in Nat /\ count <= Len(q)
      /\ n \in Nat /\ x \in BOOLEAN
      /\ \A i \in 1 .. Len(q) : q[i] \in Requests /\ s[q[i]] = "queued"
    <2>1. q \in Seq(Requests) /\ n \in Nat /\ x \in BOOLEAN
        BY <1>2 DEF Typed
    <2>2. \A i \in 1 .. Len(q) : q[i] \in Requests
        BY <2>1
    <2> QED
        BY <1>2, <2>1, <2>2 DEF Queued
<1>4. /\ queue' \in Seq(Requests) /\ Len(queue') = Len(q) - count
      /\ \A i \in 1 .. Len(queue') : queue'[i] = q[i + count]
    BY <1>1, <1>3
<1>5. first \subseteq Requests /\ \A r \in first : s[r] = "queued"
    BY <1>3
<1>6. \/ count = 0
      \/ ~x /\ n = 0 /\ count = 1 /\ k[q[1]] = "exclusive" /\ first = {q[1]}
      \/ ~x /\ (\A r \in first : k[r] = "sample") /\ n + count <= MaxSamples /\ count >= 1
    <2>1. CASE count = 0
        BY <2>1
    <2>2. CASE count # 0 /\ k[q[1]] = "exclusive"
        <3>1. ~x /\ 1 \in 1 .. count
            BY <1>1, <1>3, <2>2 DEF Grants
        <3>2. ~(\A i \in 1 .. count : k[q[i]] = "sample")
            BY <3>1, <2>2
        <3>3. n = 0 /\ count = 1
            BY <1>1, <1>3, <2>2, <3>1, <3>2 DEF Grants
        <3> QED
            BY <3>1, <3>3, <2>2
    <2>3. CASE count # 0 /\ k[q[1]] # "exclusive"
        <3>1. ~x /\ (\A i \in 1 .. count : k[q[i]] = "sample") /\ n + count <= MaxSamples
            BY <1>1, <1>3, <2>3 DEF Grants
        <3> QED
            BY <3>1, <1>3, <2>3
    <2> QED
        BY <2>1, <2>2, <2>3
<1>7. \A r \in Requests : stage'[r] = IF r \in first THEN "started" ELSE s[r]
    BY <1>1
<1>8. Typed(queue', k, active_samples', exclusive_active', stage', b)
    BY <1>1, <1>2, <1>3, <1>4 DEF Typed
<1>9. Queued(queue', stage', b)
    <2>1. ASSUME NEW r \in Requests
          PROVE  stage'[r] = "queued" <=> \E i \in 1 .. Len(queue') : queue'[i] = r
        <3>1. CASE stage'[r] = "queued"
            <4>1. r \notin first /\ s[r] = "queued"
                BY <3>1, <1>7
            <4>2. PICK i \in 1 .. Len(q) : q[i] = r
                BY <4>1, <1>2 DEF Queued
            <4>3. i > count
                BY <4>1, <4>2, <1>3
            <4>4. i - count \in 1 .. Len(queue') /\ queue'[i - count] = r
                BY <4>2, <4>3, <1>3, <1>4
            <4> QED
                BY <3>1, <4>4
        <3>2. ASSUME NEW i \in 1 .. Len(queue'), queue'[i] = r
              PROVE  stage'[r] = "queued"
            <4>1. i + count \in 1 .. Len(q) /\ q[i + count] = r
                BY <3>2, <1>3, <1>4
            <4>2. r \notin first
                <5>1. SUFFICES ASSUME NEW j \in 1 .. count, q[j] = r PROVE FALSE
                    OBVIOUS
                <5>2. j \in 1 .. Len(q) /\ j # i + count
                    BY <1>3, <1>4
                <5> QED
                    BY <4>1, <5>1, <5>2, <1>2 DEF Queued
            <4> QED
                BY <4>1, <4>2, <1>3, <1>7
        <3> QED
            BY <3>1, <3>2
    <2>2. \A i \in 1 .. Len(queue') : i + count \in 1 .. Len(q) /\ queue'[i] = q[i + count]
        BY <1>3, <1>4
    <2>3. \A i, j \in 1 .. Len(queue') : queue'[i] = queue'[j] => i = j
        <3> SUFFICES ASSUME NEW i \in 1 .. Len(queue'), NEW j \in 1 .. Len(queue'),
                            queue'[i] = queue'[j]
                     PROVE  i = j
            OBVIOUS
        <3>1. i + count = j + count
            BY <2>2, <1>2 DEF Queued
        <3> QED
            BY <3>1, <1>3, <1>4
    <2>4. \A i, j \in 1 .. Len(queue') : <<queue'[i], queue'[j]>> \in b => i < j
        <3> SUFFICES ASSUME NEW i \in 1 .. Len(queue'), NEW j \in 1 .. Len(queue'),
                            <<queue'[i], queue'[j]>> \in b
                     PROVE  i < j
            OBVIOUS
        <3>1. i + count < j + count
            BY <2>2, <1>2 DEF Queued
        <3> QED
            BY <3>1, <1>3, <1>4
    <2> QED
        BY <2>1, <2>3, <2>4 DEF Queued
<1>10. Counted(k, active_samples', exclusive_active', stage')
    <2>1. IsFiniteSet(SamplesIn(k, s)) /\ IsFiniteSet(first) /\ Cardinality(first) = count
        <3>1. SamplesIn(k, s) \in SUBSET Requests
            BY DEF SamplesIn
        <3>2. IsFiniteSet(SamplesIn(k, s))
            BY <3>1, FS_Subset
        <3>3. \A i, j \in 1 .. Len(q) : q[i] = q[j] => i = j
            BY <1>2 DEF Queued
        <3>4. IsFiniteSet(first) /\ Cardinality(first) = count
            BY <3>3, <1>3, CountOfFront
        <3> QED
            BY <3>2, <3>4
    <2>2. CASE count = 0
        <3>1. first = {} /\ stage' = [r \in Requests |-> s[r]]
            BY <2>2, <1>1
        <3>2. SamplesIn(k, stage') = SamplesIn(k, s) /\ In(stage') = In(s)
            BY <3>1, <1>7 DEF SamplesIn, In
        <3> QED
            BY <3>2, <2>2, <1>1, <1>2, <1>3 DEF Counted
    <2>3. CASE ~x /\ n = 0 /\ count = 1 /\ k[q[1]] = "exclusive" /\ first = {q[1]}
        <3>1. SamplesIn(k, s) = {}
            BY <2>1, <2>3, <1>2, FS_EmptySet DEF Counted
        <3>2. In(s) = {}
            BY <3>1, <2>3, <1>2 DEF Counted, In, SamplesIn, Typed, ScheduledOpKind
        <3>3. In(stage') = {q[1]} /\ SamplesIn(k, stage') = {}
            BY <3>2, <2>3, <1>5, <1>7 DEF In, SamplesIn
        <3>4. active_samples' = 0 /\ exclusive_active' = TRUE
            BY <2>3, <1>1
        <3> QED
            BY <3>3, <3>4, <2>3, FS_EmptySet DEF Counted
    <2>4. CASE ~x /\ (\A r \in first : k[r] = "sample") /\ n + count <= MaxSamples /\ count >= 1
        <3>1. SamplesIn(k, stage') = SamplesIn(k, s) \cup first
            BY <2>4, <1>5, <1>7 DEF SamplesIn
        <3>2. SamplesIn(k, s) \cap first = {}
            BY <1>5 DEF SamplesIn
        <3>3. Cardinality(SamplesIn(k, stage')) = n + count
            BY <3>1, <3>2, <2>1, <1>2, <1>3, FS_Union, FS_EmptySet DEF Counted
        <3>4. 1 \in 1 .. count /\ q[1] \in first
            BY <2>4, <1>3
        <3>5. active_samples' = n + count /\ exclusive_active' = FALSE
            BY <2>4, <3>4, <1>1
        <3>6. \A r \in In(stage') : k[r] # "exclusive"
            BY <2>4, <1>2, <1>7 DEF Counted, In
        <3> QED
            BY <3>3, <3>5, <3>6, <2>4 DEF Counted
    <2> QED
        BY <1>6, <2>2, <2>3, <2>4
<1>11. Ordered(k, stage', b)
    <2> SUFFICES ASSUME NEW r \in Requests, NEW o \in Requests, <<r, o>> \in b
                 PROVE  /\ stage'[r] \in {"queued", "started"}
                        /\ stage'[o] \in {"queued", "started"}
                        /\ stage'[o] = "started" =>
                             stage'[r] = "started" /\ k[r] = "sample" /\ k[o] = "sample"
        BY DEF Ordered
    <2>1. /\ s[r] \in {"queued", "started"} /\ s[o] \in {"queued", "started"}
          /\ s[o] = "started" => s[r] = "started" /\ k[r] = "sample" /\ k[o] = "sample"
        BY <1>2 DEF Ordered
    <2>2. CASE o \notin first
        BY <2>1, <2>2, <1>7
    <2>3. CASE o \in first
        <3>1. PICK j \in 1 .. count : q[j] = o
            BY <2>3
        <3>2. CASE s[r] = "queued"
            <4>1. PICK i \in 1 .. Len(q) : q[i] = r
                BY <3>2, <1>2 DEF Queued
            <4>2. j \in 1 .. Len(q)
                BY <1>3
            <4>3. i < j
                BY <3>1, <4>1, <4>2, <1>2 DEF Queued
            <4>4. i \in 1 .. count /\ r \in first /\ count > 1
                BY <4>1, <4>3, <1>3
            <4>5. k[r] = "sample" /\ k[o] = "sample"
                BY <4>4, <2>3, <1>6
            <4> QED
                BY <4>4, <4>5, <2>3, <1>7
        <3>3. CASE s[r] = "started"
            <4>1. ~x /\ r \in In(s)
                BY <3>3, <3>1, <1>3, <1>6 DEF In
            <4>2. k[r] = "sample"
                BY <4>1, <1>2 DEF Counted, Typed, ScheduledOpKind
            <4>3. r \in SamplesIn(k, s) /\ IsFiniteSet(SamplesIn(k, s))
                <5>1. SamplesIn(k, s) \in SUBSET Requests
                    BY DEF SamplesIn
                <5> QED
                    BY <5>1, <3>3, <4>2, FS_Subset DEF SamplesIn
            <4>4. n # 0
                BY <4>3, <1>2, FS_EmptySet DEF Counted
            <4>5. k[o] = "sample"
                BY <4>4, <3>1, <2>3, <1>3, <1>6
            <4> QED
                BY <3>3, <4>2, <4>5, <2>3, <1>7
        <3> QED
            BY <2>1, <3>2, <3>3
    <2> QED
        BY <2>2, <2>3
<1> QED
    BY <1>8, <1>9, <1>10, <1>11 DEF GateKept

-----------------------------------------------------------------------------
(* The steps of the gate *)

LEMMA ScheduleKeeps ==
    ASSUME GateInv, NEW r \in Requests, NEW k \in ScheduledOpKind, Schedule(r, k)
    PROVE  GateInv'
<1> DEFINE q == Append(queue, r)
           s == [stage EXCEPT ![r] = "queued"]
<1>1. GateKept(queue, kind, active_samples, exclusive_active, stage, before)
    BY DEF GateInv
<1>2. Typed(queue, kind, active_samples, exclusive_active, stage, before)
    BY <1>1 DEF GateKept
<1>3. /\ stage[r] = "free" /\ kind' = [kind EXCEPT ![r] = k]
      /\ LetIn(q, kind', active_samples, exclusive_active, s)
      /\ before' = before \cup (Outstanding \X {r}) /\ status' = status
    BY DEF Schedule
<1>4. /\ q \in Seq(Requests) /\ Len(q) = Len(queue) + 1 /\ Len(queue) \in Nat /\ q[Len(q)] = r
      /\ \A i \in 1 .. Len(queue) : q[i] = queue[i] /\ queue[i] \in Requests
    BY <1>2 DEF Typed
<1>5. /\ \A o \in Requests : o # r => s[o] = stage[o] /\ kind'[o] = kind[o]
      /\ s[r] = "queued" /\ kind'[r] = k
    BY <1>2, <1>3 DEF Typed
<1>6. \A i \in 1 .. Len(queue) : queue[i] # r
    BY <1>1, <1>3 DEF GateKept, Queued
<1>7. Typed(q, kind', active_samples, exclusive_active, s, before')
    BY <1>2, <1>3, <1>4 DEF Typed, Outstanding
<1>8. \A i \in 1 .. Len(q) : i = Len(q) \/ i \in 1 .. Len(queue)
    BY <1>4
<1>9. Queued(q, s, before')
    <2>1. ASSUME NEW o \in Requests
          PROVE  s[o] = "queued" <=> \E i \in 1 .. Len(q) : q[i] = o
        <3>1. CASE o = r
            <4>1. Len(q) \in 1 .. Len(q)
                BY <1>4
            <4> QED
                BY <3>1, <4>1, <1>4, <1>5
        <3>2. CASE o # r
            <4>1. s[o] = "queued" <=> \E i \in 1 .. Len(queue) : queue[i] = o
                BY <3>2, <1>1, <1>5 DEF GateKept, Queued
            <4>2. 1 .. Len(queue) \subseteq 1 .. Len(q)
                BY <1>4
            <4> QED
                BY <3>2, <4>1, <4>2, <1>4, <1>8
        <3> QED
            BY <3>1, <3>2
    <2>2. ASSUME NEW i \in 1 .. Len(q), NEW j \in 1 .. Len(q), q[i] = q[j]
          PROVE  i = j
        BY <2>2, <1>1, <1>4, <1>6, <1>8 DEF GateKept, Queued
    <2>3. ASSUME NEW i \in 1 .. Len(q), NEW j \in 1 .. Len(q), <<q[i], q[j]>> \in before'
          PROVE  i < j
        <3>1. CASE j = Len(q)
            <4>1. i # Len(q)
                <5>1. r \notin Outstanding
                    BY <1>3 DEF Outstanding
                <5>2. \A o \in Requests : <<r, o>> \notin before
                    BY <1>1, <1>3 DEF GateKept, Ordered
                <5> QED
                    BY <5>1, <5>2, <2>3, <1>3, <1>4, <3>1
            <4> QED
                BY <3>1, <4>1, <1>4
        <3>2. CASE j # Len(q)
            <4>1. j \in 1 .. Len(queue) /\ q[j] = queue[j] /\ queue[j] # r
                BY <3>2, <1>4, <1>6, <1>8
            <4>2. <<q[i], q[j]>> \in before
                BY <4>1, <2>3, <1>3
            <4>3. i # Len(q)
                BY <4>1, <4>2, <1>1, <1>3, <1>4 DEF GateKept, Ordered
            <4>4. i \in 1 .. Len(queue) /\ q[i] = queue[i]
                BY <4>3, <1>4, <1>8
            <4> QED
                BY <4>1, <4>2, <4>4, <1>1 DEF GateKept, Queued
        <3> QED
            BY <3>1, <3>2
    <2> QED
        BY <2>1, <2>2, <2>3 DEF Queued
<1>10. Counted(kind', active_samples, exclusive_active, s)
    <2>1. In(s) = In(stage) /\ \A o \in In(stage) : kind'[o] = kind[o]
        BY <1>3, <1>5 DEF In
    <2>2. SamplesIn(kind', s) = SamplesIn(kind, stage)
        BY <1>3, <1>5 DEF SamplesIn
    <2> QED
        BY <2>1, <2>2, <1>1 DEF GateKept, Counted
<1>11. Ordered(kind', s, before')
    <2> SUFFICES ASSUME NEW o \in Requests, NEW p \in Requests, <<o, p>> \in before'
                 PROVE  /\ s[o] \in {"queued", "started"} /\ s[p] \in {"queued", "started"}
                        /\ s[p] = "started" =>
                             s[o] = "started" /\ kind'[o] = "sample" /\ kind'[p] = "sample"
        BY DEF Ordered
    <2>1. CASE <<o, p>> \in before
        <3>1. o # r /\ p # r
            BY <2>1, <1>1, <1>3 DEF GateKept, Ordered
        <3> QED
            BY <2>1, <3>1, <1>1, <1>5 DEF GateKept, Ordered
    <2>2. CASE o \in Outstanding /\ p = r
        BY <2>2, <1>3, <1>5 DEF Outstanding
    <2> QED
        BY <2>1, <2>2, <1>3
<1>12. GateKept(q, kind', active_samples, exclusive_active, s, before')
    BY <1>7, <1>9, <1>10, <1>11 DEF GateKept
<1>13. GateKept(queue', kind', active_samples', exclusive_active', stage', before')
    BY <1>3, <1>12, LetInKeeps
<1> QED
    BY <1>3, <1>13 DEF GateInv

LEMMA LeaveKeeps ==
    ASSUME GateInv, NEW r \in Requests, Leave(r)
    PROVE  GateInv'
<1> DEFINE n == IF kind[r] = "sample" THEN active_samples - 1 ELSE active_samples
           x == kind[r] = "sample" /\ exclusive_active
           s == [stage EXCEPT ![r] = "answered"]
<1>1. GateKept(queue, kind, active_samples, exclusive_active, stage, before)
    BY DEF GateInv
<1>2. Typed(queue, kind, active_samples, exclusive_active, stage, before)
    BY <1>1 DEF GateKept
<1>3. /\ stage[r] = "started" /\ LetIn(queue, kind, n, x, s)
      /\ before' = {p \in before : r \notin {p[1], p[2]}}
      /\ status' = status /\ kind' = kind
    BY DEF Leave
<1>4. s[r] = "answered" /\ \A o \in Requests : o # r => s[o] = stage[o]
    BY <1>2 DEF Typed
<1>5. Counted(kind, n, x, s) /\ n \in Nat /\ x \in BOOLEAN
    <2>1. kind[r] \in {"sample", "exclusive"}
        BY <1>2 DEF Typed, ScheduledOpKind
    <2>2. In(s) = In(stage) \ {r} /\ SamplesIn(kind, s) = SamplesIn(kind, stage) \ {r}
        BY <1>4 DEF In, SamplesIn
    <2>3. IsFiniteSet(SamplesIn(kind, stage)) /\ r \in In(stage)
        <3>1. SamplesIn(kind, stage) \in SUBSET Requests
            BY DEF SamplesIn
        <3> QED
            BY <3>1, <1>3, FS_Subset DEF In
    <2>4. /\ active_samples = Cardinality(SamplesIn(kind, stage)) /\ active_samples \in Nat
          /\ active_samples <= MaxSamples
          /\ exclusive_active <=> \E o \in In(stage) : kind[o] = "exclusive"
          /\ \A o, p \in In(stage) : kind[o] = "exclusive" => p = o
        BY <1>1, <1>2 DEF GateKept, Counted, Typed
    <2>5. CASE kind[r] = "sample"
        <3>1. r \in SamplesIn(kind, stage)
            BY <2>5, <1>3 DEF SamplesIn
        <3>2. Cardinality(SamplesIn(kind, s)) = active_samples - 1
            BY <3>1, <2>2, <2>3, <2>4, FS_RemoveElement
        <3>3. active_samples # 0
            BY <3>1, <2>3, <2>4, FS_EmptySet
        <3>4. n = active_samples - 1 /\ x = exclusive_active
            BY <2>5, <1>2 DEF Typed
        <3>5. n \in Nat /\ n <= MaxSamples
            BY <3>3, <3>4, <2>4
        <3>6. x <=> \E o \in In(s) : kind[o] = "exclusive"
            BY <3>4, <2>2, <2>4, <2>5
        <3> HIDE DEF n, x, s
        <3> QED
            BY <3>2, <3>4, <3>5, <3>6, <2>2, <2>4, <1>2 DEF Counted, Typed
    <2>6. CASE kind[r] = "exclusive"
        <3>1. In(s) = {} /\ SamplesIn(kind, s) = SamplesIn(kind, stage)
            BY <2>2, <2>3, <2>4, <2>6 DEF SamplesIn
        <3>2. n = active_samples /\ x = FALSE
            BY <2>6
        <3> QED
            BY <3>1, <3>2, <2>4 DEF Counted
    <2> QED
        BY <2>1, <2>5, <2>6
<1>6. Typed(queue, kind, n, x, s, before')
    BY <1>2, <1>3, <1>5 DEF Typed
<1>7. Queued(queue, s, before')
    <2>1. \A i \in 1 .. Len(queue) : queue[i] # r
        BY <1>1, <1>3 DEF GateKept, Queued
    <2>2. before' \subseteq before
        BY <1>3
    <2> QED
        BY <2>1, <2>2, <1>1, <1>4 DEF GateKept, Queued
<1>8. Ordered(kind, s, before')
    <2>1. \A o, p \in Requests : <<o, p>> \in before' => <<o, p>> \in before /\ o # r /\ p # r
        BY <1>3
    <2> QED
        BY <2>1, <1>1, <1>4 DEF GateKept, Ordered
<1>9. GateKept(queue, kind, n, x, s, before')
    BY <1>5, <1>6, <1>7, <1>8 DEF GateKept
<1>10. GateKept(queue', kind, active_samples', exclusive_active', stage', before')
    <2> HIDE DEF n, x, s
    <2> QED
        BY <1>3, <1>9, LetInKeeps
<1> QED
    BY <1>3, <1>10 DEF GateInv

LEMMA RetrieveKeeps ==
    ASSUME GateInv, NEW r \in Requests, RetrieveFuture(r)
    PROVE  GateInv'
<1>1. GateKept(queue, kind, active_samples, exclusive_active, stage, before)
    BY DEF GateInv
<1>2. Typed(queue, kind, active_samples, exclusive_active, stage, before)
    BY <1>1 DEF GateKept
<1>3. /\ stage[r] = "answered" /\ stage'[r] = "free"
      /\ \A o \in Requests : o # r => stage'[o] = stage[o] /\ kind'[o] = kind[o]
      /\ queue' = queue /\ active_samples' = active_samples /\ before' = before
      /\ exclusive_active' = exclusive_active /\ status' = status
    BY <1>2 DEF RetrieveFuture, Typed
<1>4. Typed(queue', kind', active_samples', exclusive_active', stage', before')
    BY <1>2 DEF RetrieveFuture, Typed, ScheduledOpKind
<1>5. Queued(queue', stage', before')
    BY <1>1, <1>3 DEF GateKept, Queued
<1>6. Counted(kind', active_samples', exclusive_active', stage')
    <2>1. In(stage') = In(stage) /\ SamplesIn(kind', stage') = SamplesIn(kind, stage)
        BY <1>3 DEF In, SamplesIn
    <2>2. \A o \in In(stage) : kind'[o] = kind[o]
        BY <1>3 DEF In
    <2> QED
        BY <2>1, <2>2, <1>1, <1>3 DEF GateKept, Counted
<1>7. Ordered(kind', stage', before')
    <2>1. \A o, p \in Requests : <<o, p>> \in before => o # r /\ p # r
        BY <1>1, <1>3 DEF GateKept, Ordered
    <2> QED
        BY <2>1, <1>1, <1>3 DEF GateKept, Ordered
<1> QED
    BY <1>3, <1>4, <1>5, <1>6, <1>7 DEF GateInv, GateKept

(* Whatever the gate does keeps its invariant.                             *)
LEMMA GateStep == GateInv /\ (GateNext \/ UNCHANGED gateVars) => GateInv'
<1> SUFFICES ASSUME GateInv, GateNext \/ UNCHANGED gateVars PROVE GateInv'
    OBVIOUS
<1>1. CASE UNCHANGED gateVars
    BY <1>1 DEF gateVars, GateInv, GateKept, Typed, Queued, Counted, Ordered, In, SamplesIn
<1>2. CASE Shutdown
    BY <1>2 DEF Shutdown, GateInv, GateKept, Typed, Queued, Counted, Ordered, In, SamplesIn
<1>3. CASE \E r \in Requests : Leave(r)
    BY <1>3, LeaveKeeps
<1>4. CASE \E r \in Requests : RetrieveFuture(r)
    BY <1>4, RetrieveKeeps
<1>5. CASE \E r \in Requests, k \in ScheduledOpKind : Schedule(r, k)
    BY <1>5, ScheduleKeeps
<1> QED
    BY <1>1, <1>2, <1>3, <1>4, <1>5 DEF GateNext

(* An operation that is let in alone is alone.                             *)
LEMMA Alone ==
    ASSUME GateInv, NEW r \in Started, NEW o \in Started, kind[r] = "exclusive"
    PROVE  o = r
BY DEF GateInv, GateKept, Counted, Started, In

LEMMA GateInvImplies == GateInv => GateTypeOK /\ ReceivedOrder
<1> SUFFICES ASSUME GateInv PROVE GateTypeOK /\ ReceivedOrder
    OBVIOUS
<1>1. GateKept(queue, kind, active_samples, exclusive_active, stage, before)
    BY DEF GateInv
<1>2. GateTypeOK
    BY <1>1 DEF GateInv, GateKept, Typed, GateTypeOK
<1>3. Started \cap Samples = SamplesIn(kind, stage)
    BY DEF Started, Samples, SamplesIn
<1>4. Cardinality(Started \cap Samples) <= MaxSamples
    BY <1>1, <1>3 DEF GateKept, Counted
<1>5. ASSUME NEW p \in before, p[2] \in Started
      PROVE  p[1] \in Started /\ {p[1], p[2]} \subseteq Samples
    <2>1. p[1] \in Requests /\ p[2] \in Requests /\ p = <<p[1], p[2]>>
        BY <1>1 DEF GateKept, Typed
    <2> QED
        BY <2>1, <1>1, <1>5 DEF GateKept, Ordered, Started, Samples
<1> QED
    BY <1>2, <1>4, <1>5 DEF ReceivedOrder

(* Who is let in was queued, and nobody else's stage changes.              *)
LEMMA ScheduleStages ==
    ASSUME GateInv, NEW r \in Requests, NEW k \in ScheduledOpKind, Schedule(r, k)
    PROVE  /\ stage[r] = "free" /\ stage'[r] \in {"queued", "started"} /\ kind'[r] = k
           /\ \A o \in Requests \ {r} :
                /\ kind'[o] = kind[o]
                /\ stage'[o] = stage[o] \/ (stage[o] = "queued" /\ stage'[o] = "started")
<1>1. /\ Typed(queue, kind, active_samples, exclusive_active, stage, before)
      /\ Queued(queue, stage, before)
    BY DEF GateInv, GateKept
<1> DEFINE q == Append(queue, r)
           s == [stage EXCEPT ![r] = "queued"]
<1>2. stage[r] = "free" /\ kind' = [kind EXCEPT ![r] = k]
      /\ LetIn(q, kind', active_samples, exclusive_active, s)
    BY DEF Schedule
<1>3. PICK count \in 0 .. Len(q) :
        stage' = [o \in Requests |-> IF o \in {q[i] : i \in 1 .. count} THEN "started" ELSE s[o]]
    BY <1>2 DEF LetIn
<1>4. \A i \in 1 .. Len(q) : q[i] = r \/ stage[q[i]] = "queued"
    BY <1>1 DEF Typed, Queued
<1>5. \A i \in 1 .. count : i \in 1 .. Len(q)
    BY <1>1 DEF Typed
<1> QED
    BY <1>1, <1>2, <1>3, <1>4, <1>5 DEF Typed

LEMMA LeaveStages ==
    ASSUME GateInv, NEW r \in Requests, Leave(r)
    PROVE  /\ stage[r] = "started" /\ stage'[r] = "answered" /\ kind' = kind
           /\ \A o \in Requests \ {r} :
                stage'[o] = stage[o] \/ (stage[o] = "queued" /\ stage'[o] = "started")
<1>1. /\ Typed(queue, kind, active_samples, exclusive_active, stage, before)
      /\ Queued(queue, stage, before)
    BY DEF GateInv, GateKept
<1> DEFINE s == [stage EXCEPT ![r] = "answered"]
<1>2. /\ stage[r] = "started" /\ kind' = kind
      /\ \E count \in 0 .. Len(queue) :
            stage' = [o \in Requests |->
                        IF o \in {queue[i] : i \in 1 .. count} THEN "started" ELSE s[o]]
    BY DEF Leave, LetIn
<1>3. PICK count \in 0 .. Len(queue) :
        stage' = [o \in Requests |-> IF o \in {queue[i] : i \in 1 .. count} THEN "started" ELSE s[o]]
    BY <1>2
<1>4. \A i \in 1 .. Len(queue) : stage[queue[i]] = "queued"
    BY <1>1 DEF Typed, Queued
<1>5. \A i \in 1 .. count : i \in 1 .. Len(queue)
    BY <1>1 DEF Typed
<1> QED
    BY <1>1, <1>2, <1>3, <1>4, <1>5 DEF Typed

-----------------------------------------------------------------------------
(* The roles *)

(***************************************************************************)
(* The other half of the server, over the same gate. What counts of the    *)
(* gate is that who was let in stays in. Each lock is held by the one that *)
(* its step says, so that no two tasks of one sort move roles at once; and *)
(* while a task is not mixed with one of the other sort, nobody but itself *)
(* moves a role once it has its lock. What is marked awake is then what it *)
(* found and has not yet put to sleep, and at last its own role alone. The *)
(* marks tell the place of every role that nobody moves: a move that meets *)
(* another's, or fails, leaves the role unsure.                            *)
(***************************************************************************)

CONSTANTS SampleRoles, Strays
VARIABLES role, to_sleep, moving, lock, awake_roles, place, mixed

Turns == INSTANCE ModelRoles

Tasks == Requests \cup Strays
Transfer == {"offload", "load", "leave"}
Inside == {"prepare", "work"} \cup Transfer

LockHeld ==
    \A t \in Tasks :
        /\ step[t] \in Inside /\ role[t] # "rollout" => lock["engine"] = t
        /\ step[t] = "prepare" /\ role[t] = "rollout" => lock["wake"] = t

(* Requests in use have been let in; the exclusive ones use the actor, and *)
(* stray generations the rollout.                                          *)
LetInOnly ==
    /\ \A r \in Requests : /\ stage[r] # "started" => step[r] = "new"
                           /\ (step[r] = "new" \/ kind[r] = "exclusive") => role[r] = "actor"
    /\ \A t \in Tasks : /\ t \in Strays => role[t] = "rollout"
                        /\ step[t] \in Transfer => role[t] = "actor"

(* What each task moves, by its step.                                      *)
Moves ==
    \A t \in Tasks :
        /\ step[t] = "prepare" => /\ role[t] \notin to_sleep[t] /\ \A x, y \in moving[t] : x = y
                                  /\ role[t] \in moving[t] => to_sleep[t] = {}
        /\ step[t] = "offload" => moving[t] = {"actor"}
        /\ step[t] \in {"load", "leave"} => moving[t] = {"actor", "rollout"}
        /\ step[t] \notin {"prepare"} \cup Transfer => moving[t] = {}
        /\ step[t] # "prepare" => to_sleep[t] = {}

Meets ==
    \A t, q \in Tasks : t # q => \A x \in moving[t] \cap moving[q] : place[x] = "unsure"

Places ==
    \A t \in Tasks : \A x \in moving[t] :
        \/ place[x] = "unsure"
        \/ place[x] = IF step[t] = "leave" /\ x = "rollout" THEN "on" ELSE "partly"

Marked ==
    \A x \in Turns!Roles : (\A t \in Tasks : x \notin moving[t]) =>
        /\ x \in awake_roles => place[x] \in {"on", "unsure"}
        /\ x \notin awake_roles => place[x] \in {"off", "unsure"}

Outside == {"new", "done"}

Apart ==
    \A t, q \in Tasks :
        step[t] \notin Outside /\ step[q] \notin Outside /\ role[t] = "rollout" /\ role[q] # "rollout" =>
            t \in mixed /\ q \in mixed

Solitary ==
    \A t \in Tasks \ mixed :
        /\ step[t] = "prepare" => awake_roles \subseteq to_sleep[t] \cup moving[t] \cup {role[t]}
        /\ step[t] \in Inside \ {"prepare"} =>
              /\ awake_roles = {role[t]}
              /\ role[t] = "rollout" =>
                    \A q \in Tasks : step[q] = "prepare" => to_sleep[q] = {} /\ moving[q] = {}

RolesInv ==
    /\ Turns!TypeOK /\ LockHeld /\ LetInOnly /\ Moves /\ Meets /\ Places /\ Marked /\ Apart /\ Solitary

TurnsInv == GateInv /\ RolesInv

(* Both halves of the server extend one gate.                              *)
LEMMA SameCount == \A S : Turns!Cardinality(S) = Cardinality(S)
BY DEF Turns!Cardinality, Cardinality

LEMMA SameGate ==
    /\ Turns!GateInit <=> GateInit
    /\ Turns!gateVars = gateVars
    /\ Turns!Shutdown <=> Shutdown
    /\ \A r : Turns!RetrieveFuture(r) <=> RetrieveFuture(r)
    /\ \A r : Turns!Leave(r) <=> Leave(r)
    /\ \A r, k : Turns!Schedule(r, k) <=> Schedule(r, k)
    /\ Turns!ScheduledOpKind = ScheduledOpKind
    /\ Turns!GateTypeOK <=> GateTypeOK
    /\ Turns!ReceivedOrder <=> ReceivedOrder
<1>1. \A q, k, n, x, c : Turns!Grants(q, k, n, x, c) <=> Grants(q, k, n, x, c)
    BY DEF Turns!Grants, Grants
<1>2. ASSUME NEW q, NEW k, NEW n, NEW x, NEW s
      PROVE  Turns!LetIn(q, k, n, x, s) <=> LetIn(q, k, n, x, s)
    BY <1>1 DEF Turns!LetIn, LetIn
<1>3. ASSUME NEW r PROVE Turns!Leave(r) <=> Leave(r)
    BY <1>2 DEF Turns!Leave, Leave
<1>4. ASSUME NEW r, NEW k PROVE Turns!Schedule(r, k) <=> Schedule(r, k)
    BY <1>2 DEF Turns!Schedule, Schedule, Turns!Outstanding, Outstanding
<1>5. ASSUME NEW r PROVE Turns!RetrieveFuture(r) <=> RetrieveFuture(r)
    BY DEF Turns!RetrieveFuture, RetrieveFuture
<1>6. Turns!ScheduledOpKind = ScheduledOpKind
    BY DEF Turns!ScheduledOpKind, ScheduledOpKind
<1>7. Turns!GateTypeOK <=> GateTypeOK
    BY <1>6 DEF Turns!GateTypeOK, GateTypeOK
<1>8. Turns!ReceivedOrder <=> ReceivedOrder
    BY SameCount DEF Turns!ReceivedOrder, ReceivedOrder, Turns!Started, Started, Turns!Samples, Samples
<1>9. /\ Turns!GateInit <=> GateInit
      /\ Turns!gateVars = gateVars
      /\ Turns!Shutdown <=> Shutdown
    BY DEF Turns!GateInit, GateInit, Turns!gateVars, gateVars, Turns!Shutdown, Shutdown
<1> QED
    BY <1>3, <1>4, <1>5, <1>6, <1>7, <1>8, <1>9

(* Nobody else moves a role while a task that is not mixed has its lock.   *)
LEMMA Quiet ==
    ASSUME LockHeld, LetInOnly, Moves, Apart, Solitary, NEW t \in Tasks \ mixed, step[t] \in Inside,
           NEW q \in Tasks, moving[q] # {}
    PROVE  q = t
<1>1. step[q] \in Inside \ {"work"}
    BY DEF Moves, Inside, Transfer
<1>2. role[t] = "rollout" <=> role[q] = "rollout"
    BY <1>1 DEF Apart, Outside, Inside, Transfer
<1>3. CASE role[t] # "rollout"
    BY <1>1, <1>2, <1>3 DEF LockHeld
<1>4. CASE role[t] = "rollout"
    <2>1. step[q] = "prepare"
        BY <1>1, <1>2, <1>4 DEF LetInOnly, Inside
    <2>2. step[t] = "prepare"
        BY <1>4, <2>1 DEF Solitary, Inside
    <2> QED
        BY <1>2, <1>4, <2>1, <2>2 DEF LockHeld
<1> QED
    BY <1>3, <1>4

(* The marks are right, and a task that is not mixed has the GPUs for      *)
(* itself.                                                                 *)
LEMMA InvariantTakesTurns == RolesInv => Turns!TakesTurns
<1> SUFFICES ASSUME RolesInv PROVE Turns!TakesTurns
    OBVIOUS
<1>1. /\ Turns!TypeOK /\ LockHeld /\ LetInOnly /\ Moves /\ Places /\ Marked /\ Apart /\ Solitary
      /\ Turns!Tasks = Tasks
    BY DEF RolesInv, Turns!Tasks, Tasks
<1>2. Turns!MarksAgree
    BY <1>1 DEF Marked, Turns!MarksAgree, Turns!On, Turns!Off
<1>3. ASSUME NEW t \in Tasks \ mixed, step[t] \in Inside
      PROVE  \A x \in Turns!Roles \ moving[t] :
                /\ x \in awake_roles => Turns!On(x)
                /\ x \notin awake_roles => Turns!Off(x)
    <2>1. \A q \in Tasks : moving[q] # {} => q = t
        BY <1>1, <1>3, Quiet
    <2> QED
        BY <2>1, <1>1 DEF Marked, Turns!On, Turns!Off
<1>4. ASSUME NEW t \in Tasks \ mixed
      PROVE  /\ step[t] = "work" => Turns!On(role[t])
             /\ step[t] = "work" \/ Turns!Waking(t) =>
                    \A x \in Turns!Roles \ {role[t]} : Turns!Off(x)
             /\ step[t] \in {"offload", "load", "leave"} => Turns!Off("ref")
             /\ step[t] \in {"offload", "load"} => place["actor"] # "off"
             /\ step[t] = "offload" => Turns!Off("rollout")
             /\ step[t] = "leave" => Turns!On("rollout")
    <2>1. CASE step[t] = "work"
        <3>1. moving[t] = {} /\ awake_roles = {role[t]} /\ role[t] \in Turns!Roles
            BY <1>1, <2>1 DEF Moves, Solitary, Inside, Transfer, Turns!TypeOK
        <3> QED
            BY <1>3, <2>1, <3>1 DEF Inside
    <2>2. CASE Turns!Waking(t)
        <3>1. /\ step[t] = "prepare" /\ \A x \in moving[t] : x = role[t]
              /\ \A x \in awake_roles : x = role[t]
            BY <1>1, <2>2 DEF Turns!Waking, Moves, Solitary
        <3>2. \A x \in Turns!Roles \ {role[t]} : Turns!Off(x)
            BY <1>3, <3>1 DEF Inside
        <3> QED
            BY <3>1, <3>2
    <2>3. CASE step[t] \in Transfer
        <3>1. /\ awake_roles = {"actor"}
              /\ step[t] = "offload" => moving[t] = {"actor"}
              /\ step[t] # "offload" => moving[t] = {"actor", "rollout"}
            BY <1>1, <2>3 DEF Solitary, LetInOnly, Inside, Transfer, Moves
        <3>2. Turns!Off("ref") /\ (step[t] = "offload" => Turns!Off("rollout"))
            BY <1>3, <2>3, <3>1 DEF Inside, Turns!Roles
        <3>3. /\ step[t] \in {"offload", "load"} => place["actor"] # "off"
              /\ step[t] = "leave" => Turns!On("rollout")
            BY <1>1, <2>3, <3>1 DEF Places, Turns!On, Transfer
        <3> QED
            BY <2>3, <3>2, <3>3 DEF Transfer, Turns!Waking
    <2> QED
        BY <2>1, <2>2, <2>3 DEF Transfer
<1> QED
    BY <1>1, <1>2, <1>4 DEF Turns!TakesTurns

LEMMA TurnsInit == Turns!RolesAssumption /\ Turns!Init => TurnsInv
<1> SUFFICES ASSUME Turns!RolesAssumption, Turns!Init PROVE TurnsInv
    OBVIOUS
<1>1. GateInv /\ Turns!GateTypeOK
    BY SameGate, GateInit_, GateInvImplies DEF Turns!Init
<1>2. Turns!TypeOK
    BY <1>1 DEF Turns!Init, Turns!TypeOK, Turns!Roles, Turns!Locks, Turns!Tasks
<1>3. /\ \A t \in Tasks : /\ step[t] = "new" /\ moving[t] = {} /\ to_sleep[t] = {}
                          /\ t \in Strays => role[t] = "rollout"
                          /\ t \notin Strays => role[t] = "actor"
      /\ awake_roles = {} /\ \A x \in Turns!Roles : place[x] = "off"
    BY DEF Turns!Init, Turns!Tasks, Tasks
<1>4. LockHeld /\ Moves /\ Meets /\ Places /\ Marked /\ Apart /\ Solitary
    BY <1>3 DEF LockHeld, Moves, Meets, Places, Marked, Apart, Solitary, Inside, Transfer, Outside
<1>5. LetInOnly
    BY <1>3 DEF LetInOnly, Transfer, Tasks, Turns!RolesAssumption
<1> QED
    BY <1>1, <1>2, <1>4, <1>5 DEF TurnsInv, RolesInv

(* What the gate leaves to a request that is in, or was never let in.      *)
GateMoves ==
    /\ GateInv'
    /\ \A o \in Requests : \/ step[o] = "new"
                           \/ stage'[o] = "started" /\ kind'[o] = kind[o]

LEMMA ClientsMove ==
    ASSUME GateInv, LetInOnly, Turns!Clients
    PROVE  GateMoves
<1>1. CASE Turns!Shutdown
    <2>1. Shutdown
        BY <1>1, SameGate
    <2>2. GateInv' /\ stage' = stage /\ kind' = kind
        BY <2>1, GateStep DEF GateNext, Shutdown
    <2> QED
        BY <2>2 DEF GateMoves, LetInOnly
<1>2. ASSUME NEW r \in Requests, Turns!RetrieveFuture(r) PROVE GateMoves
    <2>1. RetrieveFuture(r)
        BY <1>2, SameGate
    <2>2. GateInv'
        BY <2>1, RetrieveKeeps
    <2>3. /\ stage[r] = "answered" /\ stage' = [stage EXCEPT ![r] = "free"]
          /\ kind' = [kind EXCEPT ![r] = "exclusive"]
        BY <2>1 DEF RetrieveFuture
    <2>4. \A o \in Requests \ {r} : stage'[o] = stage[o] /\ kind'[o] = kind[o]
        BY <2>3 DEF GateInv, GateKept, Typed
    <2> QED
        BY <2>2, <2>3, <2>4 DEF GateMoves, LetInOnly
<1>3. ASSUME NEW r \in Requests, NEW k \in Turns!ScheduledOpKind, Turns!Schedule(r, k)
      PROVE  GateMoves
    <2>1. k \in ScheduledOpKind /\ Schedule(r, k)
        BY <1>3, SameGate
    <2>2. GateInv'
        BY <2>1, ScheduleKeeps
    <2>3. /\ stage[r] = "free"
          /\ \A o \in Requests \ {r} :
                /\ kind'[o] = kind[o]
                /\ stage'[o] = stage[o] \/ (stage[o] = "queued" /\ stage'[o] = "started")
        BY <2>1, ScheduleStages
    <2> QED
        BY <2>2, <2>3 DEF GateMoves, LetInOnly
<1> QED
    BY <1>1, <1>2, <1>3 DEF Turns!Clients

LEMMA TurnsGateTypes == GateInv' => Turns!GateTypeOK'
<1>1. GateInv => Turns!GateTypeOK
    BY SameGate, GateInvImplies
<1> QED
    BY <1>1, PTL

(* Steps of the gate, while the roles stay as they are.                    *)
LEMMA RolesStay ==
    ASSUME RolesInv, Turns!GateTypeOK', UNCHANGED Turns!rolesVars,
           \A o \in Requests : \/ step[o] = "new"
                               \/ stage'[o] = "started" /\ kind'[o] = kind[o]
    PROVE  RolesInv'
<1>1. UNCHANGED <<step, role, to_sleep, moving, lock, awake_roles, place, mixed>>
    BY DEF Turns!rolesVars
<1>2. Turns!TypeOK' /\ LockHeld' /\ Moves' /\ Meets' /\ Places' /\ Marked' /\ Apart' /\ Solitary'
    BY <1>1 DEF RolesInv, Turns!TypeOK, LockHeld, Moves, Meets, Places, Marked, Apart, Solitary,
         Turns!Tasks, Turns!Roles, Turns!Locks, Inside, Transfer, Outside
<1>3. LetInOnly'
    BY <1>1 DEF RolesInv, LetInOnly, Transfer
<1> QED
    BY <1>2, <1>3 DEF RolesInv

LEMMA ClientsKeepTurns ==
    ASSUME TurnsInv, Turns!Clients, UNCHANGED Turns!rolesVars
    PROVE  TurnsInv'
<1>1. GateInv /\ LetInOnly /\ RolesInv
    BY DEF TurnsInv, RolesInv
<1>2. GateMoves
    BY <1>1, ClientsMove
<1>3. Turns!GateTypeOK'
    BY <1>2, TurnsGateTypes DEF GateMoves
<1> QED
    BY <1>1, <1>2, <1>3, RolesStay DEF TurnsInv, GateMoves

(* Steps of a task that is in, while the gate stays as it is.              *)
LEMMA GateStays ==
    ASSUME TurnsInv, UNCHANGED Turns!gateVars
    PROVE  GateInv' /\ Turns!GateTypeOK' /\ UNCHANGED <<stage, kind>>
<1>1. UNCHANGED gateVars
    BY SameGate DEF Turns!gateVars, gateVars
<1>2. GateInv'
    BY <1>1, GateStep DEF TurnsInv
<1> QED
    BY <1>1, <1>2, TurnsGateTypes DEF gateVars

LEMMA StutterKeepsTurns ==
    ASSUME TurnsInv, UNCHANGED Turns!vars
    PROVE  TurnsInv'
<1>1. UNCHANGED Turns!gateVars /\ UNCHANGED Turns!rolesVars
    BY DEF Turns!vars
<1>2. GateInv' /\ Turns!GateTypeOK' /\ UNCHANGED <<stage, kind>>
    BY <1>1, GateStays
<1>3. \A o \in Requests : step[o] = "new" \/ (stage'[o] = "started" /\ kind'[o] = kind[o])
    BY <1>2 DEF TurnsInv, RolesInv, LetInOnly
<1> QED
    BY <1>1, <1>2, <1>3, RolesStay DEF TurnsInv

(* The task is at work; a generation has given its lock back.              *)
LEMMA ToWork ==
    ASSUME Turns!RolesAssumption, Turns!TypeOK, NEW t \in Tasks, Turns!GoToWork(t)
    PROVE  /\ step' = [step EXCEPT ![t] = "work"] /\ step'[t] = "work"
           /\ \A q \in Tasks \ {t} : step'[q] = step[q]
           /\ lock' \in [Turns!Locks -> Tasks \cup {None}]
           /\ role[t] # "rollout" => lock' = lock
           /\ \A q \in Tasks \ {t}, l \in Turns!Locks : lock[l] = q => lock'[l] = q
BY DEF Turns!GoToWork, Turns!Goto, Turns!Unlock, Turns!TypeOK, Turns!IsRollout, Turns!Tasks, Tasks

(* A task is over, and with a generation that fails a stray may go on.     *)
LEMMA FailMoves ==
    ASSUME Turns!RolesAssumption, Turns!TypeOK, NEW t \in Tasks, step[t] # "new", Turns!Fail(t)
    PROVE  /\ step' \in [Tasks -> {"new", "lock", "prepare", "work", "offload", "load", "leave", "done"}]
           /\ step'[t] = "done"
           /\ \A q \in Tasks \ {t} :
                \/ step'[q] = step[q]
                \/ /\ q \in Strays /\ step[q] = "new" /\ step'[q] \in {"lock", "work"}
                   /\ role[t] = "rollout" /\ (t \in mixed => q \in mixed')
                   /\ step'[q] = "work" => step[t] = "work" \/ t \in mixed
           /\ mixed \subseteq mixed' /\ mixed' \subseteq Tasks
<1>1. /\ step \in [Tasks -> {"new", "lock", "prepare", "work", "offload", "load", "leave", "done"}]
      /\ mixed \subseteq Tasks
    BY DEF Turns!TypeOK, Turns!Tasks, Tasks
<1>2. CASE Turns!Goto(t, "done") /\ UNCHANGED mixed
    BY <1>1, <1>2 DEF Turns!Goto
<1>3. CASE ~ (Turns!Goto(t, "done") /\ UNCHANGED mixed)
    <2> PICK s \in Strays :
            /\ role[t] = "rollout" /\ step[s] = "new"
            /\ \E at \in IF step[t] = "work" \/ t \in mixed THEN {"lock", "work"} ELSE {"lock"} :
                    step' = [step EXCEPT ![t] = "done", ![s] = at]
            /\ mixed' = IF t \in mixed THEN mixed \cup {s} ELSE mixed
        BY <1>3 DEF Turns!Fail, Turns!IsRollout
    <2> PICK at \in IF step[t] = "work" \/ t \in mixed THEN {"lock", "work"} ELSE {"lock"} :
            step' = [step EXCEPT ![t] = "done", ![s] = at]
        OBVIOUS
    <2>1. s \in Tasks /\ s # t
        BY DEF Tasks
    <2>2. /\ at \in {"lock", "work"} /\ (at = "work" => step[t] = "work" \/ t \in mixed)
        OBVIOUS
    <2>3. step'[t] = "done" /\ step'[s] = at /\ \A q \in Tasks \ {t, s} : step'[q] = step[q]
        BY <1>1, <2>1
    <2> QED
        BY <1>1, <2>1, <2>2, <2>3
<1> QED
    BY <1>2, <1>3

LEMMA UnlockMoves ==
    ASSUME Turns!TypeOK, NEW t \in Tasks, Turns!Unlock(t)
    PROVE  /\ lock' \in [Turns!Locks -> Tasks \cup {None}]
           /\ \A q \in Tasks \ {t}, l \in Turns!Locks : lock[l] = q => lock'[l] = q
BY DEF Turns!Unlock, Turns!TypeOK, Turns!Tasks, Tasks

(* A request begins, or is refused.                                        *)
LEMMA BeginKeepsTurns ==
    ASSUME Turns!RolesAssumption, TurnsInv, NEW t \in Requests, Turns!Begin(t)
    PROVE  TurnsInv'
<1>1. /\ Turns!TypeOK /\ LockHeld /\ LetInOnly /\ Moves /\ Meets /\ Places /\ Marked
      /\ Apart /\ Solitary
      /\ \A q \in Tasks : moving[q] \subseteq Turns!Roles
    BY DEF TurnsInv, RolesInv, Turns!TypeOK, Turns!Tasks, Tasks
<1>2. GateInv' /\ Turns!GateTypeOK' /\ UNCHANGED <<stage, kind>>
    BY GateStays DEF Turns!Begin
<1> PICK ro \in IF kind[t] = "sample" THEN SampleRoles ELSE {"actor"} :
        LET others == {q \in Turns!InUse : Turns!IsRollout(q) # (ro = "rollout")}
        IN  /\ role' = [role EXCEPT ![t] = ro]
            /\ mixed' = IF others = {} THEN mixed ELSE mixed \cup others \cup {t}
    BY DEF Turns!Begin
<1>3. /\ t \in Tasks /\ t \notin Strays /\ stage[t] = "started" /\ step[t] = "new"
      /\ ro \in Turns!Roles /\ (kind[t] = "exclusive" => ro = "actor")
      /\ step' = [step EXCEPT ![t] = "lock"]
      /\ UNCHANGED <<to_sleep, moving, lock, awake_roles, place>>
    BY DEF Turns!Begin, Turns!Goto, Turns!RolesAssumption, Turns!Roles, Tasks
<1>4. /\ step'[t] = "lock" /\ role'[t] = ro
      /\ \A q \in Tasks \ {t} : step'[q] = step[q] /\ role'[q] = role[q]
      /\ mixed \subseteq mixed' /\ mixed' \subseteq Tasks
      /\ \A q \in Tasks : step[q] \notin Outside /\ (role[q] = "rollout") # (ro = "rollout") =>
            q \in mixed' /\ t \in mixed'
    BY <1>1, <1>3 DEF Turns!TypeOK, Turns!Tasks, Tasks, Turns!InUse, Turns!IsRollout, Outside
<1>5. Turns!TypeOK'
    BY <1>1, <1>2, <1>3, <1>4 DEF Turns!TypeOK, Turns!Tasks, Tasks, Turns!Roles, Turns!Locks
<1>6. LockHeld'
    BY <1>1, <1>2, <1>3, <1>4 DEF LockHeld, Inside, Transfer
<1>7. LetInOnly'
    BY <1>1, <1>2, <1>3, <1>4 DEF LetInOnly, Inside, Transfer, Tasks, Turns!RolesAssumption
<1>8. Moves'
    BY <1>1, <1>2, <1>3, <1>4 DEF Moves, Transfer
<1>9. Meets'
    BY <1>1, <1>2, <1>3, <1>4 DEF Meets
<1>10. Places'
    BY <1>1, <1>2, <1>3, <1>4 DEF Places, Meets
<1>11. Marked'
    BY <1>1, <1>2, <1>3, <1>4 DEF Marked
<1>12. Apart'
    BY <1>1, <1>2, <1>3, <1>4 DEF Apart, Outside
<1>13. Solitary'
    BY <1>1, <1>2, <1>3, <1>4 DEF Solitary, Apart, Outside, Inside, Transfer
<1> QED
    BY <1>2, <1>5, <1>6, <1>7, <1>8, <1>9, <1>10, <1>11, <1>12, <1>13 DEF TurnsInv, RolesInv

LEMMA RefuseKeepsTurns ==
    ASSUME Turns!RolesAssumption, TurnsInv, NEW t \in Requests, Turns!Refuse(t)
    PROVE  TurnsInv'
<1>1. /\ Turns!TypeOK /\ LockHeld /\ LetInOnly /\ Moves /\ Meets /\ Places /\ Marked
      /\ Apart /\ Solitary
      /\ \A q \in Tasks : moving[q] \subseteq Turns!Roles
    BY DEF TurnsInv, RolesInv, Turns!TypeOK, Turns!Tasks, Tasks
<1>2. GateInv' /\ Turns!GateTypeOK' /\ UNCHANGED <<stage, kind>>
    BY GateStays DEF Turns!Refuse
<1>3. /\ t \in Tasks /\ stage[t] = "started" /\ step[t] = "new"
      /\ step' = [step EXCEPT ![t] = "done"]
      /\ UNCHANGED <<role, to_sleep, moving, lock, awake_roles, place, mixed>>
    BY DEF Turns!Refuse, Turns!Goto, Tasks
<1>4. step'[t] = "done" /\ \A q \in Tasks \ {t} : step'[q] = step[q]
    BY <1>1, <1>3 DEF Turns!TypeOK, Turns!Tasks, Tasks
<1>5. Turns!TypeOK'
    BY <1>1, <1>2, <1>3, <1>4 DEF Turns!TypeOK, Turns!Tasks, Tasks, Turns!Roles, Turns!Locks
<1>6. LockHeld'
    BY <1>1, <1>2, <1>3, <1>4 DEF LockHeld, Inside, Transfer
<1>7. LetInOnly'
    BY <1>1, <1>2, <1>3, <1>4 DEF LetInOnly, Inside, Transfer, Tasks, Turns!RolesAssumption
<1>8. Moves'
    BY <1>1, <1>2, <1>3, <1>4 DEF Moves, Transfer
<1>9. Meets'
    BY <1>1, <1>2, <1>3, <1>4 DEF Meets
<1>10. Places'
    BY <1>1, <1>2, <1>3, <1>4 DEF Places, Meets
<1>11. Marked'
    BY <1>1, <1>2, <1>3, <1>4 DEF Marked
<1>12. Apart'
    BY <1>1, <1>2, <1>3, <1>4 DEF Apart, Outside
<1>13. Solitary'
    BY <1>1, <1>2, <1>3, <1>4 DEF Solitary, Apart, Outside, Inside, Transfer
<1> QED
    BY <1>2, <1>5, <1>6, <1>7, <1>8, <1>9, <1>10, <1>11, <1>12, <1>13 DEF TurnsInv, RolesInv

LEMMA TakeLockKeepsTurns ==
    ASSUME Turns!RolesAssumption, TurnsInv, NEW t \in Tasks, Turns!TakeLock(t)
    PROVE  TurnsInv'
<1>1. /\ Turns!TypeOK /\ LockHeld /\ LetInOnly /\ Moves /\ Meets /\ Places /\ Marked
      /\ Apart /\ Solitary
      /\ \A q \in Tasks : moving[q] \subseteq Turns!Roles
    BY DEF TurnsInv, RolesInv, Turns!TypeOK, Turns!Tasks, Tasks
<1>2. GateInv' /\ Turns!GateTypeOK' /\ UNCHANGED <<stage, kind>>
    BY GateStays DEF Turns!TakeLock
<1>3. /\ t \in Tasks /\ None \notin Tasks
      /\ step[t] = "lock" /\ lock[Turns!LockOf(t)] = None
      /\ lock' = [lock EXCEPT ![Turns!LockOf(t)] = t]
      /\ to_sleep' = [to_sleep EXCEPT ![t] = awake_roles \ {role[t]}]
      /\ step' = [step EXCEPT ![t] = "prepare"]
      /\ UNCHANGED <<role, moving, awake_roles, place, mixed>>
    BY DEF Turns!TakeLock, Turns!Goto, Turns!RolesAssumption, Turns!Tasks, Tasks
<1>4. /\ step'[t] = "prepare" /\ to_sleep'[t] = awake_roles \ {role[t]}
      /\ \A q \in Tasks \ {t} : step'[q] = step[q] /\ to_sleep'[q] = to_sleep[q]
      /\ moving[t] = {}
      /\ role[t] = "rollout" => /\ lock["wake"] = None /\ lock'["wake"] = t
                                /\ lock'["engine"] = lock["engine"]
      /\ role[t] # "rollout" => /\ lock["engine"] = None /\ lock'["engine"] = t
                                /\ lock'["wake"] = lock["wake"]
    BY <1>1, <1>3 DEF Turns!TypeOK, Turns!Tasks, Tasks, Turns!LockOf, Turns!IsRollout, Turns!Locks,
         Moves, Transfer
<1>5. Turns!TypeOK'
    BY <1>1, <1>2, <1>3, <1>4 DEF Turns!TypeOK, Turns!Tasks, Tasks, Turns!Roles, Turns!Locks, Turns!LockOf
<1>6. LockHeld'
    BY <1>1, <1>2, <1>3, <1>4 DEF LockHeld, Inside, Transfer
<1>7. LetInOnly'
    BY <1>1, <1>2, <1>3, <1>4 DEF LetInOnly, Inside, Transfer, Tasks, Turns!RolesAssumption
<1>8. Moves'
    BY <1>1, <1>2, <1>3, <1>4 DEF Moves, Transfer
<1>9. Meets'
    BY <1>1, <1>2, <1>3, <1>4 DEF Meets
<1>10. Places'
    BY <1>1, <1>2, <1>3, <1>4 DEF Places, Meets
<1>11. Marked'
    BY <1>1, <1>2, <1>3, <1>4 DEF Marked
<1>12. Apart'
    BY <1>1, <1>2, <1>3, <1>4 DEF Apart, Outside
<1>13. Solitary'
    <2>1. \A q \in Tasks \ (mixed \cup {t}) :
            step[q] \in Inside \ {"prepare"} /\ role[q] = "rollout" => to_sleep'[t] = {}
        BY <1>1, <1>3, <1>4 DEF Solitary, Apart, Outside, Inside, Transfer
    <2> QED
        BY <1>1, <1>3, <1>4, <2>1 DEF Solitary, Inside, Transfer
<1> QED
    BY <1>2, <1>5, <1>6, <1>7, <1>8, <1>9, <1>10, <1>11, <1>12, <1>13 DEF TurnsInv, RolesInv

(* A role begins to be put to sleep.                                      *)
LEMMA SleepKeepsTurns ==
    ASSUME Turns!RolesAssumption, TurnsInv, NEW t \in Tasks, Turns!SleepRole(t)
    PROVE  TurnsInv'
<1>1. /\ Turns!TypeOK /\ LockHeld /\ LetInOnly /\ Moves /\ Meets /\ Places /\ Marked
      /\ Apart /\ Solitary
      /\ \A q \in Tasks : moving[q] \subseteq Turns!Roles
    BY DEF TurnsInv, RolesInv, Turns!TypeOK, Turns!Tasks, Tasks
<1>2. GateInv' /\ Turns!GateTypeOK' /\ UNCHANGED <<stage, kind>>
    BY GateStays DEF Turns!SleepRole
<1> PICK x \in to_sleep[t] : Turns!Move(t, x) /\ to_sleep' = [to_sleep EXCEPT ![t] = @ \ {x}]
    BY DEF Turns!SleepRole
<1>3. /\ t \in Tasks /\ step[t] = "prepare" /\ moving[t] = {}
      /\ moving' = [moving EXCEPT ![t] = @ \cup {x}]
      /\ place' = [place EXCEPT ![x] = Turns!InMove(t, x)]
      /\ UNCHANGED <<step, role, lock, awake_roles, mixed>>
    BY DEF Turns!SleepRole, Turns!Move
<1>4. /\ x \in Turns!Roles /\ moving'[t] = {x} /\ to_sleep'[t] = to_sleep[t] \ {x}
      /\ \A q \in Tasks \ {t} : moving'[q] = moving[q] /\ to_sleep'[q] = to_sleep[q]
      /\ place'[x] = IF \E q \in Tasks \ {t} : x \in moving[q] THEN "unsure" ELSE "partly"
      /\ \A y \in Turns!Roles \ {x} : place'[y] = place[y]
    BY <1>1, <1>3 DEF Turns!TypeOK, Turns!Tasks, Tasks, Turns!InMove
<1>5. Turns!TypeOK'
    BY <1>1, <1>2, <1>3, <1>4 DEF Turns!TypeOK, Turns!Tasks, Tasks, Turns!Roles, Turns!Locks
<1>6. LockHeld'
    BY <1>1, <1>2, <1>3, <1>4 DEF LockHeld, Inside, Transfer
<1>7. LetInOnly'
    BY <1>1, <1>2, <1>3, <1>4 DEF LetInOnly, Inside, Transfer, Tasks, Turns!RolesAssumption
<1>8. Moves'
    BY <1>1, <1>2, <1>3, <1>4 DEF Moves, Transfer
<1>9. Meets'
    BY <1>1, <1>2, <1>3, <1>4 DEF Meets
<1>10. Places'
    BY <1>1, <1>2, <1>3, <1>4 DEF Places, Meets
<1>11. Marked'
    BY <1>1, <1>2, <1>3, <1>4 DEF Marked
<1>12. Apart'
    BY <1>1, <1>2, <1>3, <1>4 DEF Apart, Outside
<1>13. Solitary'
    BY <1>1, <1>2, <1>3, <1>4 DEF Solitary, Apart, Outside, Inside, Transfer
<1> QED
    BY <1>2, <1>5, <1>6, <1>7, <1>8, <1>9, <1>10, <1>11, <1>12, <1>13 DEF TurnsInv, RolesInv

LEMMA WakeKeepsTurns ==
    ASSUME Turns!RolesAssumption, TurnsInv, NEW t \in Tasks, Turns!WakeRole(t)
    PROVE  TurnsInv'
<1>1. /\ Turns!TypeOK /\ LockHeld /\ LetInOnly /\ Moves /\ Meets /\ Places /\ Marked
      /\ Apart /\ Solitary
      /\ \A q \in Tasks : moving[q] \subseteq Turns!Roles
    BY DEF TurnsInv, RolesInv, Turns!TypeOK, Turns!Tasks, Tasks
<1>2. GateInv' /\ Turns!GateTypeOK' /\ UNCHANGED <<stage, kind>>
    BY GateStays DEF Turns!WakeRole
<1>3. /\ t \in Tasks /\ step[t] = "prepare" /\ moving[t] = {} /\ to_sleep[t] = {}
      /\ role[t] \notin awake_roles
      /\ moving' = [moving EXCEPT ![t] = @ \cup {role[t]}]
      /\ place' = [place EXCEPT ![role[t]] = Turns!InMove(t, role[t])]
      /\ UNCHANGED <<step, role, to_sleep, lock, awake_roles, mixed>>
    BY DEF Turns!WakeRole, Turns!Move
<1>4. /\ role[t] \in Turns!Roles /\ moving'[t] = {role[t]}
      /\ \A q \in Tasks \ {t} : moving'[q] = moving[q]
      /\ place'[role[t]] = IF \E q \in Tasks \ {t} : role[t] \in moving[q]
                            THEN "unsure" ELSE "partly"
      /\ \A y \in Turns!Roles \ {role[t]} : place'[y] = place[y]
    BY <1>1, <1>3 DEF Turns!TypeOK, Turns!Tasks, Tasks, Turns!InMove
<1>5. Turns!TypeOK'
    BY <1>1, <1>2, <1>3, <1>4 DEF Turns!TypeOK, Turns!Tasks, Tasks, Turns!Roles, Turns!Locks
<1>6. LockHeld'
    BY <1>1, <1>2, <1>3, <1>4 DEF LockHeld, Inside, Transfer
<1>7. LetInOnly'
    BY <1>1, <1>2, <1>3, <1>4 DEF LetInOnly, Inside, Transfer, Tasks, Turns!RolesAssumption
<1>8. Moves'
    BY <1>1, <1>2, <1>3, <1>4 DEF Moves, Transfer
<1>9. Meets'
    BY <1>1, <1>2, <1>3, <1>4 DEF Meets
<1>10. Places'
    BY <1>1, <1>2, <1>3, <1>4 DEF Places, Meets
<1>11. Marked'
    BY <1>1, <1>2, <1>3, <1>4 DEF Marked
<1>12. Apart'
    BY <1>1, <1>2, <1>3, <1>4 DEF Apart, Outside
<1>13. Solitary'
    BY <1>1, <1>2, <1>3, <1>4 DEF Solitary, Apart, Outside, Inside, Transfer
<1> QED
    BY <1>2, <1>5, <1>6, <1>7, <1>8, <1>9, <1>10, <1>11, <1>12, <1>13 DEF TurnsInv, RolesInv

LEMMA MarkAsleepKeepsTurns ==
    ASSUME Turns!RolesAssumption, TurnsInv, NEW t \in Tasks, Turns!MarkAsleep(t)
    PROVE  TurnsInv'
<1>1. /\ Turns!TypeOK /\ LockHeld /\ LetInOnly /\ Moves /\ Meets /\ Places /\ Marked
      /\ Apart /\ Solitary
      /\ \A q \in Tasks : moving[q] \subseteq Turns!Roles
    BY DEF TurnsInv, RolesInv, Turns!TypeOK, Turns!Tasks, Tasks
<1>2. GateInv' /\ Turns!GateTypeOK' /\ UNCHANGED <<stage, kind>>
    BY GateStays DEF Turns!MarkAsleep
<1> PICK x \in moving[t] \ {role[t]} : Turns!Moved(t, x, "off") /\ awake_roles' = awake_roles \ {x}
    BY DEF Turns!MarkAsleep
<1>3. /\ t \in Tasks /\ step[t] = "prepare" /\ x \in moving[t] /\ x # role[t]
      /\ moving' = [moving EXCEPT ![t] = {}]
      /\ place' = [place EXCEPT ![x] = Turns!Placed(x, "off")]
      /\ awake_roles' = awake_roles \ {x}
      /\ UNCHANGED <<step, role, to_sleep, lock, mixed>>
    BY DEF Turns!MarkAsleep, Turns!Moved
<1>4. /\ x \in Turns!Roles /\ moving'[t] = {}
      /\ \A q \in Tasks \ {t} : moving'[q] = moving[q]
      /\ place'[x] = IF place[x] = "unsure" THEN "unsure" ELSE "off"
      /\ \A y \in Turns!Roles \ {x} : place'[y] = place[y]
      /\ \A y \in moving[t] : y = x
    BY <1>1, <1>3 DEF Turns!TypeOK, Turns!Tasks, Tasks, Turns!Placed, Moves
<1>5. Turns!TypeOK'
    BY <1>1, <1>2, <1>3, <1>4 DEF Turns!TypeOK, Turns!Tasks, Tasks, Turns!Roles, Turns!Locks
<1>6. LockHeld'
    BY <1>1, <1>2, <1>3, <1>4 DEF LockHeld, Inside, Transfer
<1>7. LetInOnly'
    BY <1>1, <1>2, <1>3, <1>4 DEF LetInOnly, Inside, Transfer, Tasks, Turns!RolesAssumption
<1>8. Moves'
    BY <1>1, <1>2, <1>3, <1>4 DEF Moves, Transfer
<1>9. Meets'
    BY <1>1, <1>2, <1>3, <1>4 DEF Meets
<1>10. Places'
    BY <1>1, <1>2, <1>3, <1>4 DEF Places, Meets
<1>11. Marked'
    BY <1>1, <1>2, <1>3, <1>4 DEF Marked
<1>12. Apart'
    BY <1>1, <1>2, <1>3, <1>4 DEF Apart, Outside
<1>13. Solitary'
    <2>1. moving[t] # {}
        BY <1>3
    <2>2. \A q \in Tasks \ mixed : step[q] \in Inside => q = t
        BY <1>1, <1>3, <2>1, Quiet
    <2> QED
        BY <1>1, <1>3, <1>4, <2>2 DEF Moves, Solitary, Inside, Transfer
<1> QED
    BY <1>2, <1>5, <1>6, <1>7, <1>8, <1>9, <1>10, <1>11, <1>12, <1>13 DEF TurnsInv, RolesInv

LEMMA MarkAwakeKeepsTurns ==
    ASSUME Turns!RolesAssumption, TurnsInv, NEW t \in Tasks, Turns!MarkAwake(t)
    PROVE  TurnsInv'
<1>1. /\ Turns!TypeOK /\ LockHeld /\ LetInOnly /\ Moves /\ Meets /\ Places /\ Marked
      /\ Apart /\ Solitary
      /\ \A q \in Tasks : moving[q] \subseteq Turns!Roles
    BY DEF TurnsInv, RolesInv, Turns!TypeOK, Turns!Tasks, Tasks
<1>2. GateInv' /\ Turns!GateTypeOK' /\ UNCHANGED <<stage, kind>>
    BY GateStays DEF Turns!MarkAwake
<1>3. /\ t \in Tasks /\ step[t] = "prepare" /\ role[t] \in moving[t] /\ Turns!GoToWork(t)
      /\ moving' = [moving EXCEPT ![t] = {}]
      /\ place' = [place EXCEPT ![role[t]] = Turns!Placed(role[t], "on")]
      /\ awake_roles' = awake_roles \cup {role[t]}
      /\ UNCHANGED <<role, to_sleep, mixed>>
    BY DEF Turns!MarkAwake, Turns!Moved
<1>4. /\ role[t] \in Turns!Roles /\ moving'[t] = {}
      /\ \A q \in Tasks \ {t} : moving'[q] = moving[q]
      /\ place'[role[t]] = IF place[role[t]] = "unsure" THEN "unsure" ELSE "on"
      /\ \A y \in Turns!Roles \ {role[t]} : place'[y] = place[y]
      /\ to_sleep[t] = {} /\ \A y \in moving[t] : y = role[t]
      /\ step' = [step EXCEPT ![t] = "work"] /\ step'[t] = "work"
      /\ \A q \in Tasks \ {t} : step'[q] = step[q]
      /\ lock' \in [Turns!Locks -> Tasks \cup {None}]
      /\ role[t] # "rollout" => lock' = lock
      /\ \A q \in Tasks \ {t}, l \in Turns!Locks : lock[l] = q => lock'[l] = q
    <2>1. /\ step' = [step EXCEPT ![t] = "work"] /\ step'[t] = "work"
          /\ \A q \in Tasks \ {t} : step'[q] = step[q]
          /\ lock' \in [Turns!Locks -> Tasks \cup {None}]
          /\ role[t] # "rollout" => lock' = lock
          /\ \A q \in Tasks \ {t}, l \in Turns!Locks : lock[l] = q => lock'[l] = q
        BY <1>1, <1>3, ToWork
    <2> QED
        BY <1>1, <1>3, <2>1 DEF Turns!TypeOK, Turns!Tasks, Tasks, Turns!Placed, Moves
<1>5. Turns!TypeOK'
    BY <1>1, <1>2, <1>3, <1>4 DEF Turns!TypeOK, Turns!Tasks, Tasks, Turns!Roles, Turns!Locks
<1>6. LockHeld'
    BY <1>1, <1>3, <1>4 DEF LockHeld, Inside, Transfer, Turns!Locks
<1>7. LetInOnly'
    BY <1>1, <1>2, <1>3, <1>4 DEF LetInOnly, Inside, Transfer, Tasks, Turns!RolesAssumption
<1>8. Moves'
    BY <1>1, <1>2, <1>3, <1>4 DEF Moves, Transfer
<1>9. Meets'
    BY <1>1, <1>2, <1>3, <1>4 DEF Meets
<1>10. Places'
    BY <1>1, <1>2, <1>3, <1>4 DEF Places, Meets
<1>11. Marked'
    BY <1>1, <1>2, <1>3, <1>4 DEF Marked
<1>12. Apart'
    BY <1>1, <1>2, <1>3, <1>4 DEF Apart, Outside
<1>13. Solitary'
    <2>1. moving[t] # {}
        BY <1>3
    <2>2. \A q \in Tasks \ mixed : step[q] \in Inside => q = t
        BY <1>1, <1>3, <2>1, Quiet
    <2>3. \A q \in Tasks \ {t} : step[q] = "prepare" /\ role[t] = "rollout" /\ t \notin mixed => FALSE
        BY <1>1, <1>3 DEF LockHeld, Apart, Outside, Inside
    <2> QED
        BY <1>1, <1>3, <1>4, <2>2, <2>3 DEF Moves, Solitary, Inside, Transfer
<1> QED
    BY <1>2, <1>5, <1>6, <1>7, <1>8, <1>9, <1>10, <1>11, <1>12, <1>13 DEF TurnsInv, RolesInv

LEMMA AwakeKeepsTurns ==
    ASSUME Turns!RolesAssumption, TurnsInv, NEW t \in Tasks, Turns!AlreadyAwake(t)
    PROVE  TurnsInv'
<1>1. /\ Turns!TypeOK /\ LockHeld /\ LetInOnly /\ Moves /\ Meets /\ Places /\ Marked
      /\ Apart /\ Solitary
      /\ \A q \in Tasks : moving[q] \subseteq Turns!Roles
    BY DEF TurnsInv, RolesInv, Turns!TypeOK, Turns!Tasks, Tasks
<1>2. GateInv' /\ Turns!GateTypeOK' /\ UNCHANGED <<stage, kind>>
    BY GateStays DEF Turns!AlreadyAwake
<1>3. /\ t \in Tasks /\ step[t] = "prepare" /\ moving[t] = {} /\ to_sleep[t] = {}
      /\ role[t] \in awake_roles /\ Turns!GoToWork(t)
      /\ UNCHANGED <<role, to_sleep, moving, awake_roles, place, mixed>>
    BY DEF Turns!AlreadyAwake
<1>4. /\ step' = [step EXCEPT ![t] = "work"] /\ step'[t] = "work"
      /\ \A q \in Tasks \ {t} : step'[q] = step[q]
      /\ lock' \in [Turns!Locks -> Tasks \cup {None}]
      /\ role[t] # "rollout" => lock' = lock
      /\ \A q \in Tasks \ {t}, l \in Turns!Locks : lock[l] = q => lock'[l] = q
    BY <1>1, <1>3, ToWork
<1>5. Turns!TypeOK'
    BY <1>1, <1>2, <1>3, <1>4 DEF Turns!TypeOK, Turns!Tasks, Tasks, Turns!Roles, Turns!Locks
<1>6. LockHeld'
    BY <1>1, <1>3, <1>4 DEF LockHeld, Inside, Transfer, Turns!Locks
<1>7. LetInOnly'
    BY <1>1, <1>2, <1>3, <1>4 DEF LetInOnly, Inside, Transfer, Tasks, Turns!RolesAssumption
<1>8. Moves'
    BY <1>1, <1>2, <1>3, <1>4 DEF Moves, Transfer
<1>9. Meets'
    BY <1>1, <1>2, <1>3, <1>4 DEF Meets
<1>10. Places'
    BY <1>1, <1>2, <1>3, <1>4 DEF Places, Meets
<1>11. Marked'
    BY <1>1, <1>2, <1>3, <1>4 DEF Marked
<1>12. Apart'
    BY <1>1, <1>2, <1>3, <1>4 DEF Apart, Outside
<1>13. Solitary'
    <2>1. \A q \in Tasks \ {t} : step[q] = "prepare" /\ role[t] = "rollout" /\ t \notin mixed => FALSE
        BY <1>1, <1>3 DEF LockHeld, Apart, Outside, Inside
    <2> QED
        BY <1>1, <1>3, <1>4, <2>1 DEF Solitary, Inside, Transfer
<1> QED
    BY <1>2, <1>5, <1>6, <1>7, <1>8, <1>9, <1>10, <1>11, <1>12, <1>13 DEF TurnsInv, RolesInv

(* The operation ends, or fails.                                           *)
LEMMA WorkKeepsTurns ==
    ASSUME Turns!RolesAssumption, TurnsInv, NEW t \in Tasks, Turns!Work(t)
    PROVE  TurnsInv'
<1>1. /\ Turns!TypeOK /\ LockHeld /\ LetInOnly /\ Moves /\ Meets /\ Places /\ Marked
      /\ Apart /\ Solitary
      /\ \A q \in Tasks : moving[q] \subseteq Turns!Roles
    BY DEF TurnsInv, RolesInv, Turns!TypeOK, Turns!Tasks, Tasks
<1>2. GateInv' /\ Turns!GateTypeOK' /\ UNCHANGED <<stage, kind>>
    BY GateStays DEF Turns!Work
<1>3. /\ t \in Tasks /\ step[t] = "work" /\ Turns!Unlock(t) /\ Turns!Fail(t)
      /\ UNCHANGED <<role, to_sleep, moving, awake_roles, place>>
    BY DEF Turns!Work
<1>4. /\ step' \in [Tasks -> {"new", "lock", "prepare", "work", "offload", "load", "leave", "done"}]
      /\ step'[t] = "done"
      /\ \A q \in Tasks \ {t} :
            \/ step'[q] = step[q]
            \/ /\ q \in Strays /\ step[q] = "new" /\ step'[q] \in {"lock", "work"}
               /\ role[t] = "rollout" /\ (t \in mixed => q \in mixed')
               /\ step'[q] = "work" => step[t] = "work" \/ t \in mixed
      /\ mixed \subseteq mixed' /\ mixed' \subseteq Tasks
      /\ lock' \in [Turns!Locks -> Tasks \cup {None}]
      /\ \A q \in Tasks \ {t}, l \in Turns!Locks : lock[l] = q => lock'[l] = q
    BY <1>1, <1>3, FailMoves, UnlockMoves
<1>5. Turns!TypeOK'
    BY <1>1, <1>2, <1>3, <1>4 DEF Turns!TypeOK, Turns!Tasks, Tasks, Turns!Roles, Turns!Locks
<1>6. LockHeld'
    BY <1>1, <1>3, <1>4 DEF LockHeld, LetInOnly, Inside, Transfer, Turns!Locks
<1>7. LetInOnly'
    BY <1>1, <1>2, <1>3, <1>4 DEF LetInOnly, Inside, Transfer, Tasks, Turns!RolesAssumption
<1>8. Moves'
    BY <1>1, <1>2, <1>3, <1>4 DEF Moves, Transfer
<1>9. Meets'
    BY <1>1, <1>2, <1>3, <1>4 DEF Meets
<1>10. Places'
    BY <1>1, <1>2, <1>3, <1>4 DEF Places, Meets
<1>11. Marked'
    BY <1>1, <1>2, <1>3, <1>4 DEF Marked
<1>12. Apart'
    BY <1>1, <1>3, <1>4 DEF Apart, Outside, LetInOnly
<1>13. Solitary'
    BY <1>1, <1>3, <1>4 DEF Solitary, Inside, Transfer, LetInOnly
<1> QED
    BY <1>2, <1>5, <1>6, <1>7, <1>8, <1>9, <1>10, <1>11, <1>12, <1>13 DEF TurnsInv, RolesInv

LEMMA RaiseKeepsTurns ==
    ASSUME Turns!RolesAssumption, TurnsInv, NEW t \in Tasks, Turns!RaiseInMove(t)
    PROVE  TurnsInv'
<1>1. /\ Turns!TypeOK /\ LockHeld /\ LetInOnly /\ Moves /\ Meets /\ Places /\ Marked
      /\ Apart /\ Solitary
      /\ \A q \in Tasks : moving[q] \subseteq Turns!Roles
    BY DEF TurnsInv, RolesInv, Turns!TypeOK, Turns!Tasks, Tasks
<1>2. GateInv' /\ Turns!GateTypeOK' /\ UNCHANGED <<stage, kind>>
    BY GateStays DEF Turns!RaiseInMove
<1>3. /\ t \in Tasks /\ moving[t] # {} /\ step[t] \in Inside \ {"work"}
      /\ Turns!Unlock(t) /\ Turns!Fail(t)
      /\ place' = [x \in Turns!Roles |-> IF x \in moving[t] THEN "unsure" ELSE place[x]]
      /\ moving' = [moving EXCEPT ![t] = {}] /\ to_sleep' = [to_sleep EXCEPT ![t] = {}]
      /\ UNCHANGED <<role, awake_roles>>
    BY <1>1 DEF Turns!RaiseInMove, Moves, Inside, Transfer
<1>4. /\ moving'[t] = {} /\ to_sleep'[t] = {}
      /\ \A q \in Tasks \ {t} : moving'[q] = moving[q] /\ to_sleep'[q] = to_sleep[q]
      /\ \A x \in Turns!Roles : place'[x] = IF x \in moving[t] THEN "unsure" ELSE place[x]
      /\ step' \in [Tasks -> {"new", "lock", "prepare", "work", "offload", "load", "leave", "done"}]
      /\ step'[t] = "done"
      /\ \A q \in Tasks \ {t} :
            \/ step'[q] = step[q]
            \/ /\ q \in Strays /\ step[q] = "new" /\ step'[q] \in {"lock", "work"}
               /\ role[t] = "rollout" /\ (t \in mixed => q \in mixed')
               /\ step'[q] = "work" => step[t] = "work" \/ t \in mixed
      /\ mixed \subseteq mixed' /\ mixed' \subseteq Tasks
      /\ lock' \in [Turns!Locks -> Tasks \cup {None}]
      /\ \A q \in Tasks \ {t}, l \in Turns!Locks : lock[l] = q => lock'[l] = q
    <2>1. step[t] # "new"
        BY <1>3 DEF Inside, Transfer
    <2>2. /\ moving'[t] = {} /\ to_sleep'[t] = {}
          /\ \A q \in Tasks \ {t} : moving'[q] = moving[q] /\ to_sleep'[q] = to_sleep[q]
          /\ \A x \in Turns!Roles : place'[x] = IF x \in moving[t] THEN "unsure" ELSE place[x]
        BY <1>1, <1>3 DEF Turns!TypeOK, Turns!Tasks, Tasks
    <2> QED
        BY <1>1, <1>3, <2>1, <2>2, FailMoves, UnlockMoves
<1>5. Turns!TypeOK'
    BY <1>1, <1>2, <1>3, <1>4 DEF Turns!TypeOK, Turns!Tasks, Tasks, Turns!Roles, Turns!Locks
<1>6. LockHeld'
    BY <1>1, <1>3, <1>4 DEF LockHeld, LetInOnly, Inside, Transfer, Turns!Locks
<1>7. LetInOnly'
    BY <1>1, <1>2, <1>3, <1>4 DEF LetInOnly, Inside, Transfer, Tasks, Turns!RolesAssumption
<1>8. Moves'
    BY <1>1, <1>2, <1>3, <1>4 DEF Moves, Transfer
<1>9. Meets'
    BY <1>1, <1>2, <1>3, <1>4 DEF Meets
<1>10. Places'
    BY <1>1, <1>2, <1>3, <1>4 DEF Places, Meets
<1>11. Marked'
    BY <1>1, <1>2, <1>3, <1>4 DEF Marked
<1>12. Apart'
    BY <1>1, <1>3, <1>4 DEF Apart, Outside, LetInOnly, Inside, Transfer
<1>13. Solitary'
    <2>1. \A q \in Tasks \ mixed : step[q] \in Inside => q = t
        BY <1>1, <1>3, Quiet
    <2> QED
        BY <1>1, <1>3, <1>4, <2>1 DEF Solitary, Inside, Transfer
<1> QED
    BY <1>2, <1>5, <1>6, <1>7, <1>8, <1>9, <1>10, <1>11, <1>12, <1>13 DEF TurnsInv, RolesInv

(* A transfer.                                                             *)
LEMMA OffloadKeepsTurns ==
    ASSUME Turns!RolesAssumption, TurnsInv, NEW t \in Tasks, Turns!OffloadOptimizer(t)
    PROVE  TurnsInv'
<1>1. /\ Turns!TypeOK /\ LockHeld /\ LetInOnly /\ Moves /\ Meets /\ Places /\ Marked
      /\ Apart /\ Solitary
      /\ \A q \in Tasks : moving[q] \subseteq Turns!Roles
    BY DEF TurnsInv, RolesInv, Turns!TypeOK, Turns!Tasks, Tasks
<1>2. GateInv' /\ Turns!GateTypeOK' /\ UNCHANGED <<stage, kind>>
    BY GateStays DEF Turns!OffloadOptimizer
<1>3. /\ t \in Tasks /\ step[t] = "work" /\ role[t] = "actor" /\ "actor" \in Turns!Roles
      /\ step' = [step EXCEPT ![t] = "offload"]
      /\ moving' = [moving EXCEPT ![t] = {"actor"}]
      /\ place' = [place EXCEPT !["actor"] = Turns!Placed("actor", Turns!InMove(t, "actor"))]
      /\ UNCHANGED <<role, to_sleep, lock, awake_roles, mixed>>
    BY <1>1 DEF Turns!OffloadOptimizer, Turns!Goto, LetInOnly, Turns!Roles
<1>4. /\ step'[t] = "offload" /\ moving'[t] = {"actor"} /\ moving[t] = {}
      /\ \A q \in Tasks \ {t} : step'[q] = step[q] /\ moving'[q] = moving[q]
      /\ place'["actor"] = IF place["actor"] = "unsure" \/ \E q \in Tasks \ {t} : "actor" \in moving[q]
                           THEN "unsure" ELSE "partly"
      /\ \A y \in Turns!Roles \ {"actor"} : place'[y] = place[y]
    BY <1>1, <1>3 DEF Turns!TypeOK, Turns!Tasks, Tasks, Turns!InMove, Turns!Placed, Moves, Transfer
<1>5. Turns!TypeOK'
    BY <1>1, <1>2, <1>3, <1>4 DEF Turns!TypeOK, Turns!Tasks, Tasks, Turns!Roles, Turns!Locks
<1>6. LockHeld'
    BY <1>1, <1>2, <1>3, <1>4 DEF LockHeld, Inside, Transfer
<1>7. LetInOnly'
    BY <1>1, <1>2, <1>3, <1>4 DEF LetInOnly, Inside, Transfer, Tasks, Turns!RolesAssumption
<1>8. Moves'
    BY <1>1, <1>2, <1>3, <1>4 DEF Moves, Transfer
<1>9. Meets'
    BY <1>1, <1>2, <1>3, <1>4 DEF Meets
<1>10. Places'
    BY <1>1, <1>2, <1>3, <1>4 DEF Places, Meets
<1>11. Marked'
    BY <1>1, <1>2, <1>3, <1>4 DEF Marked
<1>12. Apart'
    BY <1>1, <1>2, <1>3, <1>4 DEF Apart, Outside
<1>13. Solitary'
    BY <1>1, <1>2, <1>3, <1>4 DEF Solitary, Apart, Outside, Inside, Transfer
<1> QED
    BY <1>2, <1>5, <1>6, <1>7, <1>8, <1>9, <1>10, <1>11, <1>12, <1>13 DEF TurnsInv, RolesInv

LEMMA LoadKeepsTurns ==
    ASSUME Turns!RolesAssumption, TurnsInv, NEW t \in Tasks, Turns!LoadRollout(t)
    PROVE  TurnsInv'
<1>1. /\ Turns!TypeOK /\ LockHeld /\ LetInOnly /\ Moves /\ Meets /\ Places /\ Marked
      /\ Apart /\ Solitary
      /\ \A q \in Tasks : moving[q] \subseteq Turns!Roles
    BY DEF TurnsInv, RolesInv, Turns!TypeOK, Turns!Tasks, Tasks
<1>2. GateInv' /\ Turns!GateTypeOK' /\ UNCHANGED <<stage, kind>>
    BY GateStays DEF Turns!LoadRollout
<1>3. /\ t \in Tasks /\ step[t] = "offload" /\ "rollout" \in Turns!Roles
      /\ step' = [step EXCEPT ![t] = "load"]
      /\ moving' = [moving EXCEPT ![t] = @ \cup {"rollout"}]
      /\ place' = [place EXCEPT !["rollout"] = Turns!InMove(t, "rollout")]
      /\ UNCHANGED <<role, to_sleep, lock, awake_roles, mixed>>
    BY <1>1 DEF Turns!LoadRollout, Turns!Move, Turns!Goto, Turns!Roles
<1>4. /\ step'[t] = "load" /\ moving'[t] = {"actor", "rollout"} /\ moving[t] = {"actor"}
      /\ \A q \in Tasks \ {t} : step'[q] = step[q] /\ moving'[q] = moving[q]
      /\ place'["rollout"] = IF \E q \in Tasks \ {t} : "rollout" \in moving[q] THEN "unsure" ELSE "partly"
      /\ \A y \in Turns!Roles \ {"rollout"} : place'[y] = place[y]
    BY <1>1, <1>3 DEF Turns!TypeOK, Turns!Tasks, Tasks, Turns!InMove, Moves
<1>5. Turns!TypeOK'
    BY <1>1, <1>2, <1>3, <1>4 DEF Turns!TypeOK, Turns!Tasks, Tasks, Turns!Roles, Turns!Locks
<1>6. LockHeld'
    BY <1>1, <1>2, <1>3, <1>4 DEF LockHeld, Inside, Transfer
<1>7. LetInOnly'
    BY <1>1, <1>2, <1>3, <1>4 DEF LetInOnly, Inside, Transfer, Tasks, Turns!RolesAssumption
<1>8. Moves'
    BY <1>1, <1>2, <1>3, <1>4 DEF Moves, Transfer
<1>9. Meets'
    BY <1>1, <1>2, <1>3, <1>4 DEF Meets
<1>10. Places'
    BY <1>1, <1>2, <1>3, <1>4 DEF Places, Meets
<1>11. Marked'
    BY <1>1, <1>2, <1>3, <1>4 DEF Marked
<1>12. Apart'
    BY <1>1, <1>2, <1>3, <1>4 DEF Apart, Outside
<1>13. Solitary'
    BY <1>1, <1>2, <1>3, <1>4 DEF Solitary, Apart, Outside, Inside, Transfer
<1> QED
    BY <1>2, <1>5, <1>6, <1>7, <1>8, <1>9, <1>10, <1>11, <1>12, <1>13 DEF TurnsInv, RolesInv

LEMMA MoveActorKeepsTurns ==
    ASSUME Turns!RolesAssumption, TurnsInv, NEW t \in Tasks, Turns!MoveActor(t)
    PROVE  TurnsInv'
<1>1. /\ Turns!TypeOK /\ LockHeld /\ LetInOnly /\ Moves /\ Meets /\ Places /\ Marked
      /\ Apart /\ Solitary
      /\ \A q \in Tasks : moving[q] \subseteq Turns!Roles
    BY DEF TurnsInv, RolesInv, Turns!TypeOK, Turns!Tasks, Tasks
<1>2. GateInv' /\ Turns!GateTypeOK' /\ UNCHANGED <<stage, kind>>
    BY GateStays DEF Turns!MoveActor
<1>3. /\ t \in Tasks /\ step[t] = "load" /\ {"actor", "rollout"} \subseteq Turns!Roles
      /\ step' = [step EXCEPT ![t] = "leave"]
      /\ place' = [place EXCEPT !["rollout"] = Turns!Placed("rollout", "on"),
                                !["actor"] = Turns!InMove(t, "actor")]
      /\ UNCHANGED <<role, to_sleep, moving, lock, awake_roles, mixed>>
    BY <1>1 DEF Turns!MoveActor, Turns!Goto, Turns!Roles
<1>4. /\ step'[t] = "leave" /\ moving[t] = {"actor", "rollout"}
      /\ \A q \in Tasks \ {t} : step'[q] = step[q]
      /\ place'["actor"] = IF \E q \in Tasks \ {t} : "actor" \in moving[q] THEN "unsure" ELSE "partly"
      /\ place'["rollout"] = IF place["rollout"] = "unsure" THEN "unsure" ELSE "on"
      /\ place'["ref"] = place["ref"]
      /\ \A y \in Turns!Roles \ {"actor", "rollout"} : place'[y] = place[y]
    BY <1>1, <1>3 DEF Turns!TypeOK, Turns!Tasks, Tasks, Turns!InMove, Turns!Placed, Moves, Turns!Roles
<1>5. Turns!TypeOK'
    BY <1>1, <1>2, <1>3, <1>4 DEF Turns!TypeOK, Turns!Tasks, Tasks, Turns!Roles, Turns!Locks
<1>6. LockHeld'
    BY <1>1, <1>2, <1>3, <1>4 DEF LockHeld, Inside, Transfer
<1>7. LetInOnly'
    BY <1>1, <1>2, <1>3, <1>4 DEF LetInOnly, Inside, Transfer, Tasks, Turns!RolesAssumption
<1>8. Moves'
    BY <1>1, <1>2, <1>3, <1>4 DEF Moves, Transfer
<1>9. Meets'
    <2> SUFFICES ASSUME NEW p \in Tasks, NEW q \in Tasks \ {p}, NEW x \in moving[p] \cap moving[q]
                 PROVE  place'[x] = "unsure"
        BY <1>3 DEF Meets
    <2>1. place[x] = "unsure" /\ x \in Turns!Roles
        BY <1>1 DEF Meets
    <2>2. CASE x = "actor"
        <3>1. \E o \in Tasks \ {t} : x \in moving[o]
            OBVIOUS
        <3> QED
            BY <1>4, <2>2, <3>1
    <2> QED
        BY <1>4, <2>1, <2>2
<1>10. Places'
    <2> SUFFICES ASSUME NEW q \in Tasks, NEW x \in moving[q]
                 PROVE  \/ place'[x] = "unsure"
                        \/ place'[x] = IF step'[q] = "leave" /\ x = "rollout" THEN "on" ELSE "partly"
        BY <1>3 DEF Places
    <2>1. CASE q = t
        <3>1. x \in {"actor", "rollout"} /\ (place[x] = "unsure" \/ place[x] = "partly")
            BY <1>1, <1>3, <1>4, <2>1 DEF Places
        <3> QED
            BY <1>4, <2>1, <3>1
    <2>2. CASE q # t /\ x \in moving[t]
        <3>1. place'[x] = "unsure"
            BY <1>1, <1>4, <2>2 DEF Meets
        <3> QED
            BY <3>1
    <2>3. CASE q # t /\ x \notin moving[t]
        <3>1. place'[x] = place[x] /\ step'[q] = step[q]
            BY <1>1, <1>4, <2>3
        <3> QED
            BY <1>1, <3>1 DEF Places
    <2> QED
        BY <2>1, <2>2, <2>3
<1>11. Marked'
    BY <1>1, <1>2, <1>3, <1>4 DEF Marked
<1>12. Apart'
    BY <1>1, <1>2, <1>3, <1>4 DEF Apart, Outside
<1>13. Solitary'
    BY <1>1, <1>2, <1>3, <1>4 DEF Solitary, Apart, Outside, Inside, Transfer
<1> QED
    BY <1>2, <1>5, <1>6, <1>7, <1>8, <1>9, <1>10, <1>11, <1>12, <1>13 DEF TurnsInv, RolesInv

LEMMA TransferKeepsTurns ==
    ASSUME Turns!RolesAssumption, TurnsInv, NEW t \in Tasks, Turns!MarkTransfer(t)
    PROVE  TurnsInv'
<1>1. /\ Turns!TypeOK /\ LockHeld /\ LetInOnly /\ Moves /\ Meets /\ Places /\ Marked
      /\ Apart /\ Solitary
      /\ \A q \in Tasks : moving[q] \subseteq Turns!Roles
    BY DEF TurnsInv, RolesInv, Turns!TypeOK, Turns!Tasks, Tasks
<1>2. GateInv' /\ Turns!GateTypeOK' /\ UNCHANGED <<stage, kind>>
    BY GateStays DEF Turns!MarkTransfer
<1>3. /\ t \in Tasks /\ step[t] = "leave" /\ {"actor", "rollout"} \subseteq Turns!Roles
      /\ step' = [step EXCEPT ![t] = "done"] /\ Turns!Unlock(t)
      /\ moving' = [moving EXCEPT ![t] = {}]
      /\ place' = [place EXCEPT !["actor"] = Turns!Placed("actor", "off")]
      /\ awake_roles' = (awake_roles \ {"actor"}) \cup {"rollout"}
      /\ UNCHANGED <<role, to_sleep, mixed>>
    BY <1>1 DEF Turns!MarkTransfer, Turns!Moved, Turns!Goto, Turns!Roles
<1>4. /\ step'[t] = "done" /\ moving'[t] = {} /\ moving[t] = {"actor", "rollout"}
      /\ \A q \in Tasks \ {t} : step'[q] = step[q] /\ moving'[q] = moving[q]
      /\ place'["actor"] = IF place["actor"] = "unsure" THEN "unsure" ELSE "off"
      /\ \A y \in Turns!Roles \ {"actor"} : place'[y] = place[y]
      /\ lock' \in [Turns!Locks -> Tasks \cup {None}]
      /\ \A q \in Tasks \ {t}, l \in Turns!Locks : lock[l] = q => lock'[l] = q
    BY <1>1, <1>3, UnlockMoves DEF Turns!TypeOK, Turns!Tasks, Tasks, Turns!Placed, Moves
<1>5. Turns!TypeOK'
    BY <1>1, <1>2, <1>3, <1>4 DEF Turns!TypeOK, Turns!Tasks, Tasks, Turns!Roles, Turns!Locks
<1>6. LockHeld'
    BY <1>1, <1>3, <1>4 DEF LockHeld, Inside, Transfer, Turns!Locks
<1>7. LetInOnly'
    BY <1>1, <1>2, <1>3, <1>4 DEF LetInOnly, Inside, Transfer, Tasks, Turns!RolesAssumption
<1>8. Moves'
    BY <1>1, <1>2, <1>3, <1>4 DEF Moves, Transfer
<1>9. Meets'
    BY <1>1, <1>2, <1>3, <1>4 DEF Meets
<1>10. Places'
    BY <1>1, <1>2, <1>3, <1>4 DEF Places, Meets
<1>11. Marked'
    BY <1>1, <1>3, <1>4 DEF Marked, Places
<1>12. Apart'
    BY <1>1, <1>2, <1>3, <1>4 DEF Apart, Outside
<1>13. Solitary'
    <2>1. \A q \in Tasks \ mixed : step[q] \in Inside => q = t
        BY <1>1, <1>4, Quiet
    <2> QED
        BY <1>1, <1>3, <1>4, <2>1 DEF Solitary, Inside, Transfer
<1> QED
    BY <1>2, <1>5, <1>6, <1>7, <1>8, <1>9, <1>10, <1>11, <1>12, <1>13 DEF TurnsInv, RolesInv

(* The task leaves; a request leaves the gate as well.                     *)
LEMMA EndKeepsTurns ==
    ASSUME Turns!RolesAssumption, TurnsInv, NEW t \in Tasks, Turns!End(t)
    PROVE  TurnsInv'
<1>1. /\ Turns!TypeOK /\ LockHeld /\ LetInOnly /\ Moves /\ Meets /\ Places /\ Marked
      /\ Apart /\ Solitary
      /\ \A q \in Tasks : moving[q] \subseteq Turns!Roles
    BY DEF TurnsInv, RolesInv, Turns!TypeOK, Turns!Tasks, Tasks
<1>2. /\ step[t] = "done" /\ step' = [step EXCEPT ![t] = "new"] /\ mixed' = mixed \ {t}
      /\ UNCHANGED <<to_sleep, moving, lock, awake_roles, place>>
      /\ GateInv' /\ Turns!GateTypeOK'
      /\ \A o \in Requests \ {t} : step[o] = "new" \/ (stage'[o] = "started" /\ kind'[o] = kind[o])
      /\ role' = IF t \in Requests THEN [role EXCEPT ![t] = "actor"] ELSE role
    <2>1. CASE t \in Requests
        <3>1. GateInv /\ Leave(t)
            BY <2>1, SameGate DEF TurnsInv, Turns!End
        <3>2. kind' = kind /\ \A o \in Requests \ {t} :
                stage'[o] = stage[o] \/ (stage[o] = "queued" /\ stage'[o] = "started")
            BY <2>1, <3>1, LeaveStages
        <3>3. GateInv' /\ Turns!GateTypeOK'
            BY <2>1, <3>1, LeaveKeeps, TurnsGateTypes
        <3> QED
            BY <1>1, <2>1, <3>2, <3>3 DEF Turns!End, Turns!Goto, LetInOnly
    <2>2. CASE t \notin Requests
        <3>1. UNCHANGED Turns!gateVars
            BY <2>2 DEF Turns!End
        <3> QED
            BY <1>1, <2>2, <3>1, GateStays DEF Turns!End, Turns!Goto, LetInOnly
    <2> QED
        BY <2>1, <2>2
<1>3. /\ step'[t] = "new" /\ \A q \in Tasks \ {t} : step'[q] = step[q] /\ role'[q] = role[q]
      /\ role'[t] = IF t \in Requests THEN "actor" ELSE role[t]
    BY <1>1, <1>2 DEF Turns!TypeOK, Turns!Tasks, Tasks
<1>4. t \in Strays => t \notin Requests
    BY DEF Turns!RolesAssumption
<1>5. Turns!TypeOK'
    BY <1>1, <1>2, <1>3, <1>4 DEF Turns!TypeOK, Turns!Tasks, Tasks, Turns!Roles, Turns!Locks
<1>6. LockHeld'
    BY <1>1, <1>2, <1>3, <1>4 DEF LockHeld, Inside, Transfer
<1>7. LetInOnly'
    BY <1>1, <1>2, <1>3, <1>4 DEF LetInOnly, Inside, Transfer, Tasks, Turns!RolesAssumption
<1>8. Moves'
    BY <1>1, <1>2, <1>3, <1>4 DEF Moves, Transfer
<1>9. Meets'
    BY <1>1, <1>2, <1>3, <1>4 DEF Meets
<1>10. Places'
    BY <1>1, <1>2, <1>3, <1>4 DEF Places, Meets
<1>11. Marked'
    BY <1>1, <1>2, <1>3, <1>4 DEF Marked
<1>12. Apart'
    BY <1>1, <1>2, <1>3, <1>4 DEF Apart, Outside
<1>13. Solitary'
    BY <1>1, <1>2, <1>3, <1>4 DEF Solitary, Apart, Outside, Inside, Transfer
<1> QED
    BY <1>2, <1>5, <1>6, <1>7, <1>8, <1>9, <1>10, <1>11, <1>12, <1>13 DEF TurnsInv, RolesInv

LEMMA TurnsStep == Turns!RolesAssumption /\ TurnsInv /\ [Turns!Next]_Turns!vars => TurnsInv'
<1> SUFFICES ASSUME Turns!RolesAssumption, TurnsInv, [Turns!Next]_Turns!vars PROVE TurnsInv'
    OBVIOUS
<1>1. CASE UNCHANGED Turns!vars
    BY <1>1, StutterKeepsTurns
<1>2. CASE Turns!Clients /\ UNCHANGED Turns!rolesVars
    BY <1>2, ClientsKeepTurns
<1>3. ASSUME NEW t \in Tasks, Turns!TakeLock(t) PROVE TurnsInv'
    BY <1>3, TakeLockKeepsTurns
<1>4. ASSUME NEW t \in Tasks, Turns!Progress(t) PROVE TurnsInv'
    <2>1. CASE t \in Requests /\ (Turns!Begin(t) \/ Turns!Refuse(t))
        BY <2>1, BeginKeepsTurns, RefuseKeepsTurns
    <2>2. CASE Turns!Prepare(t)
        BY <2>2, SleepKeepsTurns, MarkAsleepKeepsTurns, WakeKeepsTurns, MarkAwakeKeepsTurns,
           AwakeKeepsTurns DEF Turns!Prepare
    <2>3. CASE Turns!UpdateWeights(t)
        BY <2>3, OffloadKeepsTurns, LoadKeepsTurns, MoveActorKeepsTurns, TransferKeepsTurns
           DEF Turns!UpdateWeights
    <2>4. CASE Turns!Work(t) \/ Turns!RaiseInMove(t) \/ Turns!End(t)
        BY <2>4, WorkKeepsTurns, RaiseKeepsTurns, EndKeepsTurns
    <2> QED
        BY <1>4, <2>1, <2>2, <2>3, <2>4 DEF Turns!Progress
<1> QED
    BY <1>1, <1>2, <1>3, <1>4 DEF Turns!Next, Turns!Tasks, Tasks

LEMMA TurnsInductive ==
    ASSUME Turns!RolesAssumption
    PROVE  Turns!Spec => []TurnsInv
<1>1. Turns!Init => TurnsInv
    BY TurnsInit
<1>2. TurnsInv /\ [Turns!Next]_Turns!vars => TurnsInv'
    BY TurnsStep
<1> QED
    BY <1>1, <1>2, PTL DEF Turns!Spec

(* Requests of the roles keep their order at the gate too, and the state   *)
(* its types (FifoReadWriteGate).                                          *)
THEOREM RolesKeepOrder ==
    ASSUME Turns!RolesAssumption
    PROVE  Turns!Spec => [](Turns!TypeOK /\ Turns!ReceivedOrder)
<1>1. TurnsInv => Turns!TypeOK /\ Turns!ReceivedOrder
    BY GateInvImplies, SameGate DEF TurnsInv, RolesInv
<1> QED
    BY <1>1, TurnsInductive, PTL

(* The marks of the roles are right, and a task that no task of the other  *)
(* lock was mixed with has the GPUs for itself; in a transfer the actor    *)
(* stays until the rollout is loaded. What a failed move leaves is unsure  *)
(* (_prepare_model_roles, update_weights, _engine_lock,                    *)
(* _ensure_replicas_awake_for_generation, _replica_wake_lock).             *)
THEOREM RolesTakeTurns ==
    ASSUME Turns!RolesAssumption
    PROVE  Turns!Spec => []Turns!TakesTurns
<1>1. TurnsInv => Turns!TakesTurns
    BY InvariantTakesTurns DEF TurnsInv
<1> QED
    BY <1>1, TurnsInductive, PTL


-----------------------------------------------------------------------------
(* The weights *)

USE TinkerAssumption

Ids == 0 .. next_actor_id - 1

(* The stage of a request, its kind and its operation belong together.     *)
Life ==
    \A r \in Requests :
        /\ step[r] # "new" => stage[r] = "started"
        /\ stage[r] \in {"queued", "started"} => (kind[r] = "sample" <=> op[r].type = "asample")
        /\ op[r].type = "asample" => op[r].bound \in Ids
        /\ step[r] = "work" => op[r].type = "asample"

(* What serves a sample has the identity the sample is bound to.           *)
Serving ==
    \A r \in Requests : step[r] = "work" =>
        /\ resource[r] = "rollout" => rollout_id = op[r].bound
        /\ resource[r] = "actor" => actor_id = op[r].bound
        /\ resource[r] = "ref" => op[r].bound = 0

(* Identities in use name the weights they were given to.                  *)
Named ==
    /\ weights_of[actor_id] = actor
    /\ rollout_id # None => weights_of[rollout_id] = rollout

Stored == \A n \in Names : state_ids[n] # None => disk[DirOf(n)] = weights_of[state_ids[n]]

(* States saved under different names do not share a directory, and a save *)
(* that fails leaves the one before it alone.                              *)
Separate == ~PartialSaves /\ \A m, n \in Names : DirOf(m) = DirOf(n) => m = n

IInv == GateInv /\ TypeOK /\ Life /\ Serving
Bound == Named /\ Stored

-----------------------------------------------------------------------------
LEMMA TypeParts ==
    TypeOK <=> /\ GateTypeOK
               /\ op \in [Requests -> Ops] /\ step \in [Requests -> {"new", "work", "done"}]
               /\ resource \in [Requests -> {"rollout", "actor", "ref"}]
               /\ next_actor_id \in Nat \ {0} /\ actor_id \in Ids
               /\ rollout_id \in Ids \cup {None}
               /\ state_ids \in [Names -> Ids \cup {None}]
               /\ sampler_paths \subseteq Ids /\ samplers \in [Samplers -> Ids \cup {None}]
               /\ actor \in Weights /\ rollout \in Weights
               /\ disk \in [Dirs -> Weights \cup {Missing}]
               /\ weights_of \in [Ids -> Weights]
BY DEF TypeOK, Ids

LEMMA Starts == Init => IInv /\ Bound
<1> SUFFICES ASSUME Init PROVE IInv /\ Bound
    OBVIOUS
<1>1. GateInv /\ GateTypeOK
    BY GateInit_, GateInvImplies DEF Init
<1>2. Ids = 0 .. 0 /\ 0 \in Ids /\ next_actor_id = 1
    BY DEF Init, Ids
<1>3. TypeOK
    <2>1. op \in [Requests -> Ops]
        BY DEF Init, Ops, Idle
    <2>2. disk \in [Dirs -> Weights \cup {Missing}]
        BY DEF Init, Weights
    <2>3. actor \in Weights /\ rollout \in Weights /\ weights_of \in [Ids -> Weights]
        BY <1>2 DEF Init, Weights
    <2> QED
        BY <1>1, <1>2, <2>1, <2>2, <2>3, TypeParts DEF Init
<1>4. Life /\ Serving
    BY DEF Init, Life, Serving, Idle, GateInit
<1>5. Named /\ Stored
    BY DEF Init, Named, Stored
<1> QED
    BY <1>1, <1>3, <1>4, <1>5 DEF IInv, Bound

(* An operation that is not a sample finds no sample at work.              *)
LEMMA NobodyWorks ==
    ASSUME IInv, NEW r \in Requests, Begins(r), op[r].type # "asample"
    PROVE  \A o \in Requests : step[o] # "work"
<1> SUFFICES ASSUME NEW o \in Requests, step[o] = "work" PROVE FALSE
    OBVIOUS
<1>1. r \in Started /\ o \in Started
    BY DEF IInv, Life, Begins, Started
<1>2. kind[r] \in {"sample", "exclusive"} /\ kind[r] # "sample"
    <2>1. GateTypeOK
        BY GateInvImplies DEF IInv
    <2> QED
        BY <2>1 DEF GateTypeOK, ScheduledOpKind, IInv, Life, Begins
<1>3. o = r
    BY <1>1, <1>2, Alone DEF IInv
<1> QED
    BY <1>3 DEF Begins

LEMMA GateTypes == GateInv' => GateTypeOK'
<1>1. GateInv => GateTypeOK
    BY GateInvImplies
<1> QED
    BY <1>1, PTL

-----------------------------------------------------------------------------
(* The steps of clients and of requests that change no weights *)

LEMMA RequestKeeps ==
    ASSUME IInv, NEW r \in Requests, NEW o \in Ops,
           o.type = "asample" => o.bound \in Bindings, Request(r, o)
    PROVE  IInv' /\ (Bound => Bound')
<1> DEFINE k == IF o.type = "asample" THEN "sample" ELSE "exclusive"
<1>1. /\ Schedule(r, k) /\ k \in ScheduledOpKind
      /\ op' = [op EXCEPT ![r] = o] /\ UNCHANGED <<step, resource, ids, weights>>
    BY DEF Request, ScheduledOpKind
<1>2. GateInv'
    BY <1>1, ScheduleKeeps DEF IInv
<1>3. TypeOK'
    BY <1>1, <1>2, GateTypes, TypeParts DEF IInv, TypeOK, ids, weights
<1>4. Bindings \subseteq Ids
    BY TypeParts DEF IInv, Bindings, Ids
<1>5. op'[r] = o /\ \A q \in Requests \ {r} : op'[q] = op[q]
    BY <1>1, TypeParts DEF IInv
<1>6. /\ stage[r] = "free" /\ kind'[r] = k
      /\ \A q \in Requests \ {r} :
            /\ kind'[q] = kind[q]
            /\ stage'[q] = stage[q] \/ (stage[q] = "queued" /\ stage'[q] = "started")
    BY <1>1, ScheduleStages DEF IInv
<1>7. step[r] = "new" /\ step' = step /\ next_actor_id' = next_actor_id
    BY <1>1, <1>6, TypeParts DEF IInv, Life, ids
<1>8. Life'
    <2> SUFFICES ASSUME NEW q \in Requests
                 PROVE  /\ step'[q] # "new" => stage'[q] = "started"
                        /\ stage'[q] \in {"queued", "started"} =>
                               (kind'[q] = "sample" <=> op'[q].type = "asample")
                        /\ op'[q].type = "asample" => op'[q].bound \in Ids'
                        /\ step'[q] = "work" => op'[q].type = "asample"
        BY DEF Life
    <2>1. CASE q = r
        BY <2>1, <1>4, <1>5, <1>6, <1>7 DEF Ids
    <2>2. CASE q # r
        BY <2>2, <1>5, <1>6, <1>7 DEF IInv, Life, Ids
    <2> QED
        BY <2>1, <2>2
<1>9. Serving' /\ (Bound => Bound')
    BY <1>1, <1>5, <1>7 DEF IInv, Serving, Bound, Named, Stored, ids, weights
<1> QED
    BY <1>2, <1>3, <1>8, <1>9 DEF IInv

LEMMA EndKeeps ==
    ASSUME IInv, NEW r \in Requests, End(r)
    PROVE  IInv' /\ (Bound => Bound')
<1>1. /\ Leave(r) /\ UNCHANGED <<ids, weights>>
      /\ op' = [op EXCEPT ![r] = Idle] /\ step' = [step EXCEPT ![r] = "new"]
      /\ resource' = [resource EXCEPT ![r] = "actor"]
    BY DEF End
<1>2. GateInv'
    BY <1>1, LeaveKeeps DEF IInv
<1>3. Idle \in Ops
    BY DEF Idle, Ops
<1>4. TypeOK'
    BY <1>1, <1>2, <1>3, GateTypes, TypeParts DEF IInv, TypeOK, ids, weights
<1>5. /\ op'[r] = Idle /\ step'[r] = "new"
      /\ \A q \in Requests \ {r} : op'[q] = op[q] /\ step'[q] = step[q] /\ resource'[q] = resource[q]
    BY <1>1, TypeParts DEF IInv
<1>6. /\ stage'[r] = "answered" /\ kind' = kind
      /\ \A q \in Requests \ {r} :
            stage'[q] = stage[q] \/ (stage[q] = "queued" /\ stage'[q] = "started")
    BY <1>1, LeaveStages DEF IInv
<1>7. next_actor_id' = next_actor_id
    BY <1>1 DEF ids
<1>8. Life'
    BY <1>5, <1>6, <1>7 DEF IInv, Life, Ids, Idle
<1>9. Serving' /\ (Bound => Bound')
    BY <1>1, <1>5 DEF IInv, Serving, Bound, Named, Stored, ids, weights
<1> QED
    BY <1>2, <1>4, <1>8, <1>9 DEF IInv

LEMMA RetrieveFutureKeeps ==
    ASSUME IInv, NEW r \in Requests, RetrieveFuture(r), UNCHANGED <<requestVars, ids, weights>>
    PROVE  IInv' /\ (Bound => Bound')
<1>1. GateInv'
    BY RetrieveKeeps DEF IInv
<1>2. TypeOK'
    BY <1>1, GateTypes, TypeParts DEF IInv, TypeOK, requestVars, ids, weights
<1>3. /\ stage[r] = "answered" /\ stage'[r] = "free"
      /\ \A q \in Requests \ {r} : stage'[q] = stage[q] /\ kind'[q] = kind[q]
    BY TypeParts DEF IInv, GateTypeOK, RetrieveFuture
<1>4. Life'
    BY <1>3 DEF IInv, Life, Ids, requestVars, ids
<1>5. Serving' /\ (Bound => Bound')
    BY DEF IInv, Serving, Bound, Named, Stored, requestVars, ids, weights
<1> QED
    BY <1>1, <1>2, <1>4, <1>5 DEF IInv

(* A shutdown, or nothing at all.                                          *)
LEMMA OutsideKeeps ==
    ASSUME IInv, Shutdown \/ UNCHANGED gateVars, UNCHANGED <<requestVars, ids, weights>>
    PROVE  IInv' /\ (Bound => Bound')
<1>1. GateInv'
    BY GateStep DEF IInv, GateNext
<1>2. TypeOK'
    BY <1>1, GateTypes, TypeParts DEF IInv, TypeOK, requestVars, ids, weights
<1>3. stage' = stage /\ kind' = kind
    BY DEF Shutdown, gateVars
<1>4. Life' /\ Serving' /\ (Bound => Bound')
    BY <1>3 DEF IInv, Life, Ids, Serving, Bound, Named, Stored, requestVars, ids, weights
<1> QED
    BY <1>1, <1>2, <1>4 DEF IInv

(* Requests that are refused, sampled or find nothing to load.             *)
LEMMA QuietKeeps ==
    ASSUME IInv, NEW r \in Requests,
           Refuse(r) \/ BeginSample(r) \/ Sampled(r) \/ NoLoad(r)
    PROVE  IInv' /\ (Bound => Bound')
<1>1. UNCHANGED <<gateVars, op, ids, weights>>
    BY DEF Refuse, BeginSample, Sampled, NoLoad
<1>2. GateInv' /\ stage' = stage /\ kind' = kind
    BY <1>1, GateStep DEF IInv, gateVars
<1>3. step' \in [Requests -> {"new", "work", "done"}]
    BY TypeParts DEF IInv, Goto, Refuse, BeginSample, Sampled, NoLoad
<1>4. resource' \in [Requests -> {"rollout", "actor", "ref"}]
    BY TypeParts DEF IInv, Refuse, BeginSample, Sampled, NoLoad
<1>5. TypeOK'
    BY <1>1, <1>2, <1>3, <1>4, GateTypes, TypeParts DEF IInv, TypeOK, ids, weights
<1>6. /\ \A q \in Requests \ {r} : step'[q] = step[q] /\ resource'[q] = resource[q]
      /\ step'[r] \in {"work", "done"} /\ stage[r] = "started"
      /\ step'[r] = "work" => op[r].type = "asample" /\ CanServe(op[r], resource'[r])
    <2>1. CASE BeginSample(r)
        BY <2>1, TypeParts DEF IInv, BeginSample, Begins, Goto
    <2>2. CASE Refuse(r) \/ Sampled(r) \/ NoLoad(r)
        <3>1. step[r] = "work" => stage[r] = "started"
            BY DEF IInv, Life
        <3> QED
            BY <2>2, <3>1, TypeParts DEF IInv, Refuse, Sampled, NoLoad, Begins, Goto
    <2> QED
        BY <2>1, <2>2
<1>7. Life'
    BY <1>1, <1>2, <1>6 DEF IInv, Life, Ids, ids
<1>8. Serving'
    BY <1>1, <1>6 DEF IInv, Serving, CanServe, ids
<1>9. Bound => Bound'
    BY <1>1 DEF Bound, Named, Stored, ids, weights
<1> QED
    BY <1>2, <1>5, <1>7, <1>8, <1>9 DEF IInv

-----------------------------------------------------------------------------
(* The steps that change weights or identities *)

(* What an exclusive operation does to requests, its own included.         *)
LEMMA ExclusiveStep ==
    ASSUME IInv, NEW r \in Requests, Begins(r), op[r].type # "asample", Goto(r, "done"),
           UNCHANGED <<gateVars, op, resource>>,
           next_actor_id' \in {next_actor_id, next_actor_id + 1}
    PROVE  /\ GateInv' /\ GateTypeOK' /\ Life' /\ Serving'
           /\ step' \in [Requests -> {"new", "work", "done"}]
           /\ Ids \subseteq Ids' /\ next_actor_id' \in Nat \ {0}
<1>1. GateInv' /\ GateTypeOK' /\ stage' = stage /\ kind' = kind
    BY GateStep, GateTypes DEF IInv, gateVars
<1>2. next_actor_id \in Nat \ {0} /\ step \in [Requests -> {"new", "work", "done"}]
    BY TypeParts DEF IInv
<1>3. Ids \subseteq Ids' /\ next_actor_id' \in Nat \ {0}
    <2>1. CASE next_actor_id' = next_actor_id
        BY <1>2, <2>1 DEF Ids
    <2>2. CASE next_actor_id' = next_actor_id + 1
        <3>1. 0 .. next_actor_id - 1 \subseteq 0 .. next_actor_id + 1 - 1
            BY <1>2
        <3> QED
            BY <1>2, <2>2, <3>1 DEF Ids
    <2> QED
        BY <2>1, <2>2
<1>4. /\ step' \in [Requests -> {"new", "work", "done"}]
      /\ step'[r] = "done" /\ \A q \in Requests \ {r} : step'[q] = step[q]
    BY <1>2 DEF Goto
<1>5. \A q \in Requests : step'[q] # "work"
    BY <1>4, NobodyWorks
<1>6. Life'
    BY <1>1, <1>3, <1>4, <1>5 DEF IInv, Life, Begins
<1> QED
    BY <1>1, <1>3, <1>4, <1>5, <1>6 DEF Serving

(* A new identity names the actor's weights, and the old ones what they    *)
(* named.                                                                  *)
LEMMA NewActorNames ==
    ASSUME TypeOK, NEW w \in Weights, NewActor(w)
    PROVE  /\ next_actor_id' = next_actor_id + 1 /\ actor_id' = next_actor_id
           /\ actor_id' \in Ids' /\ Ids \subseteq Ids'
           /\ actor' \in Weights /\ weights_of' \in [Ids' -> Weights]
           /\ weights_of'[actor_id'] = actor'
           /\ \A i \in Ids : weights_of'[i] = weights_of[i]
<1>1. next_actor_id \in Nat \ {0} /\ weights_of \in [Ids -> Weights]
    BY TypeParts
<1>2. Ids' = 0 .. next_actor_id /\ Ids = 0 .. next_actor_id - 1
    BY <1>1 DEF NewActor, Ids
<1>3. /\ next_actor_id' = next_actor_id + 1 /\ actor_id' = next_actor_id /\ actor' = w
      /\ weights_of' = [i \in 0 .. next_actor_id |->
                            IF i = next_actor_id THEN w ELSE weights_of[i]]
    BY DEF NewActor
<1>4. \A i \in Ids : i \in 0 .. next_actor_id /\ i # next_actor_id
    BY <1>1, <1>2
<1>5. \A i \in Ids' : i = next_actor_id \/ i \in Ids
    BY <1>1, <1>2
<1>6. next_actor_id \in Ids'
    BY <1>1, <1>2
<1>7. weights_of' \in [Ids' -> Weights]
    BY <1>1, <1>2, <1>3, <1>5
<1>8. weights_of'[next_actor_id] = w
    BY <1>2, <1>3, <1>6
<1>9. \A i \in Ids : weights_of'[i] = weights_of[i]
    BY <1>3, <1>4
<1> QED
    BY <1>2, <1>3, <1>4, <1>6, <1>7, <1>8, <1>9

(* An update, or a load that failed.                                       *)
LEMMA UpdateKeeps ==
    ASSUME IInv, NEW r \in Requests, OptimStep(r) \/ FailLoad(r)
    PROVE  IInv' /\ (Bound => Bound')
<1>1. /\ Begins(r) /\ op[r].type # "asample" /\ Goto(r, "done")
      /\ UNCHANGED <<gateVars, op, resource, rollout_id, state_ids, sampler_paths, samplers,
                     rollout, disk>>
      /\ \E w \in {actor, next_actor_id} : NewActor(w)
    BY DEF OptimStep, FailLoad, Loads
<1>2. TypeOK
    BY DEF IInv
<1>3. PICK w \in Weights : NewActor(w)
    BY <1>1, <1>2, TypeParts DEF Weights
<1>4. /\ next_actor_id' = next_actor_id + 1 /\ actor_id' = next_actor_id
      /\ actor_id' \in Ids' /\ actor' \in Weights /\ weights_of' \in [Ids' -> Weights]
      /\ weights_of'[actor_id'] = actor'
      /\ \A i \in Ids : weights_of'[i] = weights_of[i]
    BY <1>2, <1>3, NewActorNames
<1>5. /\ GateInv' /\ GateTypeOK' /\ Life' /\ Serving'
      /\ step' \in [Requests -> {"new", "work", "done"}]
      /\ Ids \subseteq Ids' /\ next_actor_id' \in Nat \ {0}
    BY <1>1, <1>4, ExclusiveStep
<1>6. TypeOK'
    <2>1. /\ op' \in [Requests -> Ops] /\ resource' \in [Requests -> {"rollout", "actor", "ref"}]
          /\ rollout' \in Weights /\ disk' \in [Dirs -> Weights \cup {Missing}]
        BY <1>1, <1>2, TypeParts
    <2>2. /\ rollout_id' \in Ids' \cup {None} /\ state_ids' \in [Names -> Ids' \cup {None}]
          /\ sampler_paths' \subseteq Ids' /\ samplers' \in [Samplers -> Ids' \cup {None}]
        BY <1>1, <1>2, <1>5, TypeParts
    <2> QED
        BY <1>4, <1>5, <2>1, <2>2 DEF TypeOK, Ids
<1>7. Named => Named'
    BY <1>1, <1>2, <1>4, TypeParts DEF Named
<1>8. Stored => Stored'
    BY <1>1, <1>2, <1>4, TypeParts DEF Stored
<1> QED
    BY <1>5, <1>6, <1>7, <1>8 DEF IInv, Bound

LEMMA SaveKeeps ==
    ASSUME IInv, NEW r \in Requests, SaveState(r) \/ FailSave(r)
    PROVE  IInv' /\ (Separate /\ Bound => Bound')
<1>1. /\ Begins(r) /\ op[r].type # "asample" /\ Goto(r, "done")
      /\ UNCHANGED <<gateVars, op, resource, actor_id, rollout_id, next_actor_id, sampler_paths,
                     samplers, actor, rollout, weights_of>>
    BY DEF SaveState, FailSave, ids
<1>2. TypeOK
    BY DEF IInv
<1>3. /\ GateInv' /\ GateTypeOK' /\ Life' /\ Serving'
      /\ step' \in [Requests -> {"new", "work", "done"}]
    BY <1>1, ExclusiveStep
<1>4. Ids' = Ids
    BY <1>1 DEF Ids
<1>5. op[r] \in Ops /\ op[r].type = "save_weights"
    BY <1>2, TypeParts DEF SaveState, FailSave
<1>6. op[r].name \in Names
    BY <1>5 DEF Ops
<1>7. DirOf(op[r].name) \in Dirs
    BY <1>6
<1>8. \/ /\ disk' = [disk EXCEPT ![DirOf(op[r].name)] = actor]
         /\ state_ids' = [state_ids EXCEPT ![op[r].name] = actor_id]
      \/ /\ disk' = IF PartialSaves THEN [disk EXCEPT ![DirOf(op[r].name)] = Torn] ELSE disk
         /\ state_ids' = state_ids
    BY DEF SaveState, FailSave, ids
<1>9. TypeOK'
    <2>1. disk' \in [Dirs -> Weights \cup {Missing}] /\ state_ids' \in [Names -> Ids \cup {None}]
        BY <1>2, <1>6, <1>7, <1>8, TypeParts DEF Weights
    <2> QED
        BY <1>1, <1>2, <1>3, <1>4, <2>1, TypeParts DEF TypeOK, Ids
<1>10. Named => Named'
    BY <1>1 DEF Named
<1>11. ASSUME Separate, Named, Stored PROVE Stored'
    <2> SUFFICES ASSUME NEW n \in Names, state_ids'[n] # None
                 PROVE  disk'[DirOf(n)] = weights_of'[state_ids'[n]]
        BY DEF Stored
    <2>1. DirOf(n) \in Dirs /\ (DirOf(n) = DirOf(op[r].name) => n = op[r].name)
        BY <1>6, <1>11 DEF Separate
    <2>2. weights_of[actor_id] = actor
        BY <1>11 DEF Named
    <2>3. state_ids \in [Names -> Ids \cup {None}] /\ disk \in [Dirs -> Weights \cup {Missing}]
        BY <1>2, TypeParts
    <2>4. CASE n = op[r].name
        BY <1>1, <1>7, <1>8, <1>11, <2>2, <2>3, <2>4 DEF Stored, Separate
    <2>5. CASE n # op[r].name
        BY <1>1, <1>7, <1>8, <1>11, <2>1, <2>3, <2>5 DEF Stored, Separate
    <2> QED
        BY <2>4, <2>5
<1> QED
    BY <1>3, <1>9, <1>10, <1>11 DEF IInv, Bound

LEMMA LoadKeeps ==
    ASSUME IInv, NEW r \in Requests, LoadState(r)
    PROVE  IInv' /\ (Bound => Bound')
<1> DEFINE n == op[r].name
           w == disk[DirOf(n)]
<1>1. /\ Begins(r) /\ op[r].type = "load_weights" /\ w # Missing /\ Goto(r, "done")
      /\ UNCHANGED <<gateVars, op, resource, rollout_id, sampler_paths, samplers, rollout, disk>>
      /\ \/ /\ state_ids[n] # None /\ actor' = w /\ actor_id' = state_ids[n]
            /\ UNCHANGED <<next_actor_id, weights_of, state_ids>>
         \/ /\ state_ids[n] = None /\ NewActor(w)
            /\ state_ids' = [state_ids EXCEPT ![n] = next_actor_id]
    BY DEF LoadState, Loads
<1>2. TypeOK
    BY DEF IInv
<1>3. n \in Names /\ DirOf(n) \in Dirs /\ w \in Weights
    <2>1. op[r] \in Ops
        BY <1>2, TypeParts
    <2>2. n \in Names
        BY <1>1, <2>1 DEF Ops
    <2> QED
        BY <1>1, <1>2, <2>2, TypeParts
<1>4. /\ state_ids \in [Names -> Ids \cup {None}] /\ weights_of \in [Ids -> Weights]
      /\ rollout_id \in Ids \cup {None}
    BY <1>2, TypeParts
<1> HIDE DEF n, w
<1>5. CASE state_ids[n] # None
    <2>1. /\ actor' = w /\ actor_id' = state_ids[n]
          /\ UNCHANGED <<next_actor_id, weights_of, state_ids>>
        BY <1>1, <1>5
    <2>2. /\ GateInv' /\ GateTypeOK' /\ Life' /\ Serving'
          /\ step' \in [Requests -> {"new", "work", "done"}]
        BY <1>1, <2>1, ExclusiveStep
    <2>3. Ids' = Ids
        BY <2>1 DEF Ids
    <2>4. actor_id' \in Ids
        BY <1>3, <1>4, <1>5, <2>1
    <2>5. TypeOK'
        BY <1>1, <1>2, <1>3, <2>1, <2>2, <2>3, <2>4, TypeParts DEF TypeOK, Ids
    <2>6. Stored => w = weights_of[state_ids[n]]
        BY <1>3, <1>5 DEF Stored, w
    <2>7. Named /\ Stored => Named'
        BY <1>1, <2>1, <2>6 DEF Named
    <2>8. Stored => Stored'
        BY <1>1, <2>1 DEF Stored
    <2> QED
        BY <2>2, <2>5, <2>7, <2>8 DEF IInv, Bound
<1>6. CASE state_ids[n] = None
    <2>1. NewActor(w) /\ state_ids' = [state_ids EXCEPT ![n] = next_actor_id]
        BY <1>1, <1>6
    <2>2. /\ next_actor_id' = next_actor_id + 1 /\ actor_id' = next_actor_id
          /\ actor_id' \in Ids' /\ Ids \subseteq Ids'
          /\ actor' \in Weights /\ weights_of' \in [Ids' -> Weights]
          /\ weights_of'[actor_id'] = actor'
          /\ \A i \in Ids : weights_of'[i] = weights_of[i]
        BY <1>2, <1>3, <2>1, NewActorNames
    <2>3. /\ GateInv' /\ GateTypeOK' /\ Life' /\ Serving'
          /\ step' \in [Requests -> {"new", "work", "done"}] /\ next_actor_id' \in Nat \ {0}
        BY <1>1, <2>2, ExclusiveStep
    <2>4. state_ids' \in [Names -> Ids' \cup {None}]
        BY <1>3, <1>4, <2>1, <2>2
    <2>5. TypeOK'
        <3>1. /\ op' \in [Requests -> Ops]
              /\ resource' \in [Requests -> {"rollout", "actor", "ref"}]
              /\ rollout' \in Weights /\ disk' \in [Dirs -> Weights \cup {Missing}]
            BY <1>1, <1>2, TypeParts
        <3>2. /\ rollout_id' \in Ids' \cup {None} /\ sampler_paths' \subseteq Ids'
              /\ samplers' \in [Samplers -> Ids' \cup {None}]
            BY <1>1, <1>2, <2>2, TypeParts
        <3> QED
            BY <2>2, <2>3, <2>4, <3>1, <3>2 DEF TypeOK, Ids
    <2>6. Named => Named'
        BY <1>1, <1>4, <2>2 DEF Named
    <2>7. actor' = disk[DirOf(n)]
        BY <2>1 DEF NewActor, w
    <2>8. ASSUME Stored, NEW m \in Names, state_ids'[m] # None
          PROVE  disk'[DirOf(m)] = weights_of'[state_ids'[m]]
        <3>1. CASE m = n
            BY <3>1, <1>1, <1>3, <1>4, <2>1, <2>2, <2>7
        <3>2. CASE m # n
            <4>1. state_ids'[m] = state_ids[m] /\ state_ids[m] \in Ids
                BY <3>2, <1>4, <2>1, <2>8
            <4> QED
                BY <4>1, <1>1, <2>2, <2>8 DEF Stored
        <3> QED
            BY <3>1, <3>2
    <2>9. Stored => Stored'
        BY <2>8 DEF Stored
    <2> QED
        BY <2>3, <2>5, <2>6, <2>9 DEF IInv, Bound
<1> QED
    BY <1>5, <1>6

LEMMA SyncKeeps ==
    ASSUME IInv, NEW r \in Requests, SaveWeightsForSampler(r) \/ FailSync(r)
    PROVE  IInv' /\ (Bound => Bound')
<1>1. /\ Begins(r) /\ op[r].type = "save_weights_for_sampler" /\ Goto(r, "done")
      /\ UNCHANGED <<gateVars, op, resource, actor_id, next_actor_id, state_ids, actor, disk,
                     weights_of>>
    BY DEF SaveWeightsForSampler, FailSync
<1>2. TypeOK
    BY DEF IInv
<1>3. /\ GateInv' /\ GateTypeOK' /\ Life' /\ Serving'
      /\ step' \in [Requests -> {"new", "work", "done"}]
    BY <1>1, ExclusiveStep
<1>4. Ids' = Ids
    BY <1>1 DEF Ids
<1>5. \/ rollout' = actor /\ rollout_id' = actor_id
      \/ rollout' \in {rollout, Torn} /\ rollout_id' = None
    BY DEF SaveWeightsForSampler, FailSync
<1>6. sampler_paths' \subseteq Ids /\ samplers' \in [Samplers -> Ids \cup {None}]
    <2>1. CASE FailSync(r)
        BY <2>1, <1>2, TypeParts DEF FailSync
    <2>2. CASE SaveWeightsForSampler(r)
        <3> DEFINE s == op[r].sampler
        <3>1. \/ s = None /\ sampler_paths' = sampler_paths \cup {actor_id} /\ samplers' = samplers
              \/ /\ s # None /\ sampler_paths' = sampler_paths
                 /\ samplers' = IF samplers[s] = None THEN [samplers EXCEPT ![s] = actor_id]
                                                      ELSE samplers
            BY <2>2 DEF SaveWeightsForSampler
        <3> HIDE DEF s
        <3> QED
            BY <3>1, <1>2, TypeParts
    <2> QED
        BY <2>1, <2>2
<1>7. TypeOK'
    <2>1. rollout' \in Weights /\ rollout_id' \in Ids \cup {None}
        BY <1>2, <1>5, TypeParts DEF Weights
    <2> QED
        BY <1>1, <1>2, <1>3, <1>4, <1>6, <2>1, TypeParts DEF TypeOK, Ids
<1>8. Named => Named'
    BY <1>1, <1>5 DEF Named
<1>9. Stored => Stored'
    BY <1>1 DEF Stored
<1> QED
    BY <1>3, <1>7, <1>8, <1>9 DEF IInv, Bound

-----------------------------------------------------------------------------
(* The theorems *)

LEMMA ClientsKeep == IInv /\ Clients => IInv' /\ (Bound => Bound')
<1> SUFFICES ASSUME IInv, Clients PROVE IInv' /\ (Bound => Bound')
    OBVIOUS
<1>1. CASE \E r \in Requests : Request(r, [type |-> "optim_step"])
    <2>1. [type |-> "optim_step"] \in Ops
        BY DEF Ops
    <2> QED
        BY <1>1, <2>1, RequestKeeps
<1>2. CASE \E r \in Requests, t \in {"save_weights", "load_weights"}, n \in Names :
               Request(r, [type |-> t, name |-> n])
    <2>1. PICK r \in Requests, t \in {"save_weights", "load_weights"}, n \in Names :
               Request(r, [type |-> t, name |-> n])
        BY <1>2
    <2>2. [type |-> t, name |-> n] \in Ops
        BY DEF Ops
    <2> QED
        BY <2>1, <2>2, RequestKeeps
<1>3. CASE \E r \in Requests, s \in Samplers \cup {None} :
               Request(r, [type |-> "save_weights_for_sampler", sampler |-> s])
    <2>1. PICK r \in Requests, s \in Samplers \cup {None} :
               Request(r, [type |-> "save_weights_for_sampler", sampler |-> s])
        BY <1>3
    <2>2. [type |-> "save_weights_for_sampler", sampler |-> s] \in Ops
        BY DEF Ops
    <2> QED
        BY <2>1, <2>2, RequestKeeps
<1>4. CASE \E r \in Requests, b \in Bindings, x \in BOOLEAN :
               Request(r, [type |-> "asample", bound |-> b, scalar |-> x])
    <2>1. PICK r \in Requests, b \in Bindings, x \in BOOLEAN :
               Request(r, [type |-> "asample", bound |-> b, scalar |-> x])
        BY <1>4
    <2>2. b \in Nat
        BY TypeParts DEF IInv, Bindings, Ids
    <2>3. [type |-> "asample", bound |-> b, scalar |-> x] \in Ops
        BY <2>2 DEF Ops
    <2> QED
        BY <2>1, <2>3, RequestKeeps
<1>5. CASE \E r \in Requests : RetrieveFuture(r) /\ UNCHANGED <<requestVars, ids, weights>>
    BY <1>5, RetrieveFutureKeeps
<1>6. CASE Shutdown /\ UNCHANGED <<requestVars, ids, weights>>
    BY <1>6, OutsideKeeps
<1> QED
    BY <1>1, <1>2, <1>3, <1>4, <1>5, <1>6 DEF Clients

LEMMA StepKeeps == IInv /\ [Next]_vars => IInv' /\ (Separate /\ Bound => Bound')
<1> SUFFICES ASSUME IInv, [Next]_vars PROVE IInv' /\ (Separate /\ Bound => Bound')
    OBVIOUS
<1>1. CASE UNCHANGED vars
    BY <1>1, OutsideKeeps DEF vars
<1>2. CASE Clients
    BY <1>2, ClientsKeep
<1>3. CASE \E r \in Requests : Operation(r)
    BY <1>3, QuietKeeps, UpdateKeeps, SaveKeeps, LoadKeeps, SyncKeeps, EndKeeps DEF Operation
<1> QED
    BY <1>1, <1>2, <1>3 DEF Next

LEMMA Invariant == Spec => []IInv
<1>1. Init => IInv
    BY Starts
<1>2. IInv /\ [Next]_vars => IInv'
    BY StepKeeps
<1> QED
    BY <1>1, <1>2, PTL DEF Spec

(* The server's state has its type, whatever clients ask and whatever      *)
(* fails (TinkerServer, ModelResourceManager).                             *)
THEOREM TypeCorrect == Spec => []TypeOK
<1>1. IInv => TypeOK
    BY DEF IInv
<1> QED
    BY <1>1, Invariant, PTL

(* Operations keep the order they were received in, exclusive ones run     *)
(* alone, and samples within their limit (FifoReadWriteGate).              *)
THEOREM OrderIsKept == Spec => []ReceivedOrder
<1>1. IInv => ReceivedOrder
    BY GateInvImplies DEF IInv
<1> QED
    BY <1>1, Invariant, PTL

LEMMA BoundImplies == IInv /\ Bound => BoundWeights
<1> SUFFICES ASSUME IInv, Bound PROVE BoundWeights
    OBVIOUS
<1>1. ASSUME NEW r \in Requests, step[r] = "work"
      PROVE  Holds(resource[r]) = weights_of[op[r].bound]
    <2>1. resource[r] \in {"rollout", "actor", "ref"} /\ op[r].bound \in Ids
        BY <1>1, TypeParts DEF IInv, Life
    <2>2. op[r].bound # None
        BY <2>1, TypeParts DEF IInv, Ids
    <2>3. CASE resource[r] = "rollout"
        BY <1>1, <2>2, <2>3 DEF IInv, Bound, Serving, Named, Holds
    <2>4. CASE resource[r] = "actor"
        BY <1>1, <2>4 DEF IInv, Bound, Serving, Named, Holds
    <2>5. CASE resource[r] = "ref"
        BY <1>1, <2>5 DEF IInv, Serving, Holds
    <2> QED
        BY <2>1, <2>3, <2>4, <2>5
<1>2. ASSUME NEW n \in Names, SkipsLoad(n) PROVE disk[DirOf(n)] = actor
    BY <1>2 DEF Bound, Named, Stored, SkipsLoad
<1> QED
    BY <1>1, <1>2 DEF BoundWeights

(* When different saves have directories of their own and a failed save    *)
(* spoils none, samples compute on the weights they were bound to and no   *)
(* load is skipped that would change them.                                 *)
THEOREM WeightsAreBound == ASSUME Separate PROVE Spec => []BoundWeights
<1>1. Init => IInv /\ Bound
    BY Starts
<1>2. IInv /\ Bound /\ [Next]_vars => (IInv /\ Bound)'
    BY StepKeeps
<1>3. IInv /\ Bound => BoundWeights
    BY BoundImplies
<1> QED
    BY <1>1, <1>2, <1>3, PTL DEF Spec
=============================================================================
