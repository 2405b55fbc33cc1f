------------------------- MODULE RewardQueue_proofs -------------------------
(***************************************************************************)
(* Proofs about RewardQueue, for any number of samples and responses and   *)
(* any sizes of the queues. The property counts pieces; the inductive      *)
(* invariant speaks of sets: every response is in one place, every sample  *)
(* is on its way to the trainer in one place, and a sample of which a      *)
(* response is nowhere, Missing, was counted when that was pushed out.     *)
(***************************************************************************)
EXTENDS RewardQueue, FiniteSetTheorems, TLAPS

USE RewardQueueAssumption

(* A sample that has not been handed to inference.                         *)
Begun(s) == s <= taken /\ ~ (s = taken /\ processor = "submit")

(* The responses of a sample that are somewhere.                           *)
Queue(s) == {i \in Responses : <<s, i>> \in EntriesOf(reward_queue)}
Scored(s) == {i \in Responses : <<s, i>> \in scoring}
Held(s) == inferring[s] \cup groups[s] \cup Queue(s) \cup Scored(s)

Distinct(q) == \A j, k \in DOMAIN q : q[j] = q[k] => j = k
Apart(S, T) == S \cap T = {}

(* A response is in one place.                                             *)
OnePlace ==
    /\ Distinct(reward_queue)
    /\ Apart(EntriesOf(reward_queue), scoring)
    /\ \A s \in Samples : /\ Apart(inferring[s], groups[s])
                          /\ Apart(inferring[s], Queue(s) \cup Scored(s))
                          /\ Apart(groups[s], Queue(s) \cup Scored(s))

(* So is a sample that goes to the trainer.                                *)
OneDelivery ==
    /\ Distinct(message_queue) /\ Distinct(collected)
    /\ Apart(finalizing, EntriesOf(message_queue) \cup EntriesOf(collected) \cup trained)
    /\ Apart(EntriesOf(message_queue), EntriesOf(collected) \cup trained)
    /\ Apart(EntriesOf(collected), trained)

(* A sample has its responses after it was begun and before it is whole.   *)
HeldBetween ==
    \A s \in Samples : /\ ~ Begun(s) => Held(s) = {} /\ s \notin Delivered
                       /\ s \in Delivered => Held(s) = {}

Signalled == None \in EntriesOf(message_queue) => consumer = "ended"
Submitted == processor = "submit" => taken \in Samples

Missing == {s \in Samples : Begun(s) /\ s \notin Delivered /\ Held(s) # Responses}
Counted == Cardinality(Missing) <= dropped + IF consumer = "ended" THEN 1 ELSE 0

IInv ==
    /\ TypeOK /\ Submitted /\ Signalled
    /\ OnePlace /\ OneDelivery /\ HeldBetween /\ Counted

-----------------------------------------------------------------------------
(* Queues *)

LEMMA TailOfQueue ==
    ASSUME NEW S, NEW q \in Seq(S), q # <<>>, Distinct(q)
    PROVE  /\ Tail(q) \in Seq(S) /\ Distinct(Tail(q)) /\ Len(Tail(q)) = Len(q) - 1
           /\ Head(q) \in EntriesOf(q) /\ Head(q) \in S
           /\ EntriesOf(Tail(q)) = EntriesOf(q) \ {Head(q)}
<1> PICK t, h : t = Tail(q) /\ h = Head(q)
  OBVIOUS
<1>1. /\ t \in Seq(S) /\ Len(t) = Len(q) - 1 /\ Len(q) \in Nat \ {0}
      /\ h = q[1] /\ h \in S
      /\ \A j \in 1 .. Len(q) - 1 : t[j] = q[j + 1]
  OBVIOUS
<1>2. /\ DOMAIN q = 1 .. Len(q) /\ DOMAIN t = 1 .. Len(q) - 1
  BY <1>1
<1>3. Distinct(t)
  BY <1>1, <1>2 DEF Distinct
<1>4. h \in EntriesOf(q)
  BY <1>1, <1>2 DEF EntriesOf
<1>5. EntriesOf(t) \subseteq EntriesOf(q) \ {h}
  BY <1>1, <1>2 DEF EntriesOf, Distinct
<1>6. ASSUME NEW j \in DOMAIN q, q[j] # h PROVE q[j] \in EntriesOf(t)
  <2>1. j - 1 \in DOMAIN t /\ t[j - 1] = q[j]
    BY <1>1, <1>2, <1>6
  <2> QED
    BY <2>1 DEF EntriesOf
<1> QED
  BY <1>1, <1>3, <1>4, <1>5, <1>6, SMTT(30) DEF EntriesOf

LEMMA AppendToQueue ==
    ASSUME NEW S, NEW q \in Seq(S), NEW x \in S
    PROVE  /\ Append(q, x) \in Seq(S) /\ Len(Append(q, x)) = Len(q) + 1
           /\ EntriesOf(Append(q, x)) = EntriesOf(q) \cup {x}
           /\ Distinct(q) /\ x \notin EntriesOf(q) => Distinct(Append(q, x))
<1> PICK t : t = Append(q, x)
  OBVIOUS
<1>1. /\ t \in Seq(S) /\ Len(t) = Len(q) + 1 /\ Len(q) \in Nat
      /\ t[Len(q) + 1] = x /\ \A j \in 1 .. Len(q) : t[j] = q[j]
      /\ DOMAIN q = 1 .. Len(q) /\ DOMAIN t = 1 .. Len(q) + 1
  OBVIOUS
<1>2. EntriesOf(t) \subseteq EntriesOf(q) \cup {x}
  BY <1>1 DEF EntriesOf
<1>3. EntriesOf(q) \cup {x} \subseteq EntriesOf(t)
  <2>1. x \in EntriesOf(t)
    BY <1>1 DEF EntriesOf
  <2>2. \A j \in DOMAIN q : j \in DOMAIN t /\ t[j] = q[j]
    BY <1>1
  <2> QED
    BY <2>1, <2>2 DEF EntriesOf
<1>4. Distinct(q) /\ x \notin EntriesOf(q) => Distinct(t)
  BY <1>1 DEF EntriesOf, Distinct
<1> QED
  BY <1>1, <1>2, <1>3, <1>4

(* A put on a full queue pushes out one entry.                             *)
LEMMA PutOnQueue ==
    ASSUME NEW S, NEW q \in Seq(S), NEW x \in S, NEW max \in Nat \ {0},
           Distinct(q), x \notin EntriesOf(q), Len(q) <= max
    PROVE  /\ PutOn(q, max, x) \in Seq(S) /\ Len(PutOn(q, max, x)) <= max
           /\ Distinct(PutOn(q, max, x))
           /\ Refused(q, max) \in {0, 1}
           /\ \/ /\ Refused(q, max) = 0
                 /\ EntriesOf(PutOn(q, max, x)) = EntriesOf(q) \cup {x}
              \/ /\ Refused(q, max) = 1
                 /\ \E gone \in EntriesOf(q) :
                       EntriesOf(PutOn(q, max, x)) = (EntriesOf(q) \ {gone}) \cup {x}
<1>1. CASE Len(q) < max
  BY <1>1, AppendToQueue DEF PutOn, Refused
<1>2. CASE Len(q) >= max
  <2>1. q # <<>>
    BY <1>2
  <2>2. /\ Tail(q) \in Seq(S) /\ Distinct(Tail(q)) /\ Len(Tail(q)) = Len(q) - 1
        /\ Head(q) \in EntriesOf(q)
        /\ EntriesOf(Tail(q)) = EntriesOf(q) \ {Head(q)}
    BY <2>1, TailOfQueue
  <2>3. PutOn(q, max, x) = Append(Tail(q), x) /\ Refused(q, max) = 1
    BY <1>2 DEF PutOn, Refused
  <2> PICK t : t = Tail(q)
    OBVIOUS
  <2>4. /\ Append(t, x) \in Seq(S) /\ Len(Append(t, x)) = Len(t) + 1
        /\ EntriesOf(Append(t, x)) = EntriesOf(t) \cup {x}
        /\ Distinct(Append(t, x))
    BY <2>2, AppendToQueue
  <2>5. Len(q) \in Nat
    OBVIOUS
  <2> QED
    BY <2>2, <2>3, <2>4, <2>5
<1> QED
  BY <1>1, <1>2

LEMMA SizeOfQueue ==
    ASSUME NEW S, NEW q \in Seq(S), Distinct(q)
    PROVE  IsFiniteSet(EntriesOf(q)) /\ Cardinality(EntriesOf(q)) = Len(q)
<1> PICK n \in Nat : n = Len(q)
  OBVIOUS
<1>1. DOMAIN q = 1 .. n
  OBVIOUS
<1>2. IsFiniteSet(1 .. n) /\ Cardinality(1 .. n) = n
  <2>1. 1 \in Int /\ n \in Int
    OBVIOUS
  <2>2. IsFiniteSet(1 .. n) /\ Cardinality(1 .. n) = IF 1 > n THEN 0 ELSE n - 1 + 1
    BY <2>1, FS_Interval
  <2> QED
    BY <2>2
<1> PICK D, E : D = 1 .. n /\ E = EntriesOf(q)
  OBVIOUS
<1>3. q \in [D -> E]
  BY <1>1 DEF EntriesOf
<1>4. \A y \in E : \E j \in D : q[j] = y
  BY <1>1 DEF EntriesOf
<1>5. \A j, k \in D : q[j] = q[k] => j = k
  BY <1>1 DEF Distinct
<1>6. IsFiniteSet(D)
  BY <1>2
<1>7. ExistsBijection(D, E)
  BY <1>3, <1>4, <1>5 DEF ExistsBijection, Bijection, Injection, Surjection, IsInjective
<1>8. IsFiniteSet(E) /\ Cardinality(E) = Cardinality(D)
  BY <1>6, <1>7, FS_Bijection
<1> QED
  BY <1>2, <1>8

LEMMA DisjointSize ==
    ASSUME NEW S, NEW T, IsFiniteSet(S), IsFiniteSet(T), Apart(S, T)
    PROVE  /\ IsFiniteSet(S \cup T)
           /\ Cardinality(S \cup T) = Cardinality(S) + Cardinality(T)
           /\ Cardinality(S) \in Nat /\ Cardinality(T) \in Nat
<1>1. S \cap T = {}
  BY DEF Apart
<1>2. Cardinality(S \cap T) = 0
  BY <1>1, FS_EmptySet
<1>3. Cardinality(S) \in Nat /\ Cardinality(T) \in Nat
  BY FS_CardinalityType
<1>4. /\ IsFiniteSet(S \cup T)
      /\ Cardinality(S \cup T) = Cardinality(S) + Cardinality(T) - Cardinality(S \cap T)
  BY FS_Union
<1> QED
  BY <1>2, <1>3, <1>4

-----------------------------------------------------------------------------
(* Counting *)

LEMMA ResponsesFinite ==
    /\ IsFiniteSet(Responses) /\ Cardinality(Responses) = N
    /\ IsFiniteSet(Samples) /\ None \notin Samples
    /\ \A S \in SUBSET Responses : IsFiniteSet(S) /\ Cardinality(S) \in Nat
    /\ \A S \in SUBSET Samples : IsFiniteSet(S) /\ Cardinality(S) \in Nat
<1>1. 1 \in Int /\ N \in Int /\ TotalSamples \in Int
  OBVIOUS
<1>2. IsFiniteSet(Responses) /\ Cardinality(Responses) = IF 1 > N THEN 0 ELSE N - 1 + 1
  BY <1>1, FS_Interval DEF Responses
<1>3. IsFiniteSet(Samples)
  BY <1>1, FS_Interval DEF Samples
<1>4. None \notin Samples
  BY DEF None, Samples
<1>5. \A S \in SUBSET Responses : IsFiniteSet(S) /\ Cardinality(S) \in Nat
  BY <1>2, FS_Subset, FS_CardinalityType
<1>6. \A S \in SUBSET Samples : IsFiniteSet(S) /\ Cardinality(S) \in Nat
  BY <1>3, FS_Subset, FS_CardinalityType
<1>7. Cardinality(Responses) = N
  BY <1>2
<1> QED
  BY <1>2, <1>3, <1>4, <1>5, <1>6, <1>7

(* The pieces of a sample are counted place by place.                      *)
LEMMA PiecesAreHeld ==
    ASSUME TypeOK, OnePlace, NEW s \in Samples
    PROVE  /\ Held(s) \subseteq Responses
           /\ Pieces(s) = 0 <=> Held(s) = {}
           /\ Pieces(s) < N <=> Held(s) # Responses
<1> PICK P, Q : /\ P = {j \in DOMAIN reward_queue : reward_queue[j][1] = s}
                /\ Q = Queue(s)
  OBVIOUS
<1>1. /\ \A j \in DOMAIN reward_queue : reward_queue[j] \in Items
      /\ DOMAIN reward_queue = 1 .. Len(reward_queue) /\ Len(reward_queue) \in Nat
  BY DEF TypeOK
<1>2. \A j \in DOMAIN reward_queue :
         /\ reward_queue[j] = <<reward_queue[j][1], reward_queue[j][2]>>
         /\ reward_queue[j][2] \in Responses
  BY <1>1 DEF Items
<1>3. IsFiniteSet(P)
  <2>1. 1 \in Int /\ Len(reward_queue) \in Int
    BY <1>1
  <2>2. IsFiniteSet(1 .. Len(reward_queue)) /\ P \subseteq 1 .. Len(reward_queue)
    BY <1>1, <2>1, FS_Interval
  <2> QED
    BY <2>2, FS_Subset
<1>4. Cardinality(Q) = Cardinality(P)
  <2> PICK f : f = [j \in P |-> reward_queue[j][2]]
    OBVIOUS
  <2>1. f \in [P -> Q]
    BY <1>2 DEF Queue, EntriesOf
  <2>2. \A j, k \in P : f[j] = f[k] => j = k
    BY <1>2 DEF OnePlace, Distinct
  <2>3. \A i \in Q : \E j \in P : f[j] = i
    BY <1>2 DEF Queue, EntriesOf
  <2>4. f \in Injection(P, Q) /\ f \in Surjection(P, Q)
    BY <2>1, <2>2, <2>3 DEF Injection, Surjection, IsInjective
  <2>5. ExistsBijection(P, Q)
    BY <2>4 DEF ExistsBijection, Bijection
  <2> QED
    BY <1>3, <2>5, FS_Bijection
<1> PICK R, T : R = {item \in scoring : item[1] = s} /\ T = Scored(s)
  OBVIOUS
<1>5. \A item \in R : item = <<s, item[2]>> /\ item[2] \in Responses /\ item \in scoring
  BY DEF TypeOK, Items
<1>6. Cardinality(R) = Cardinality(T)
  <2> PICK f : f = [i \in T |-> <<s, i>>]
    OBVIOUS
  <2>1. f \in [T -> R]
    BY DEF Scored
  <2>2. \A i, k \in T : f[i] = f[k] => i = k
    OBVIOUS
  <2>3. \A item \in R : \E i \in T : f[i] = item
    BY <1>5 DEF Scored
  <2>4. ExistsBijection(T, R)
    BY <2>1, <2>2, <2>3 DEF ExistsBijection, Bijection, Injection, Surjection, IsInjective
  <2>5. IsFiniteSet(T)
    BY ResponsesFinite DEF Scored
  <2> QED
    BY <2>4, <2>5, FS_Bijection
<1> PICK A, B : A = inferring[s] /\ B = groups[s]
  OBVIOUS
<1>7. /\ A \subseteq Responses /\ B \subseteq Responses
      /\ Q \subseteq Responses /\ T \subseteq Responses
  BY DEF TypeOK, Queue, Scored
<1>8. /\ Apart(A, B) /\ Apart(A \cup B, Q) /\ Apart(A \cup B \cup Q, T)
  <2>1. Apart(A, B) /\ Apart(A, Q \cup T) /\ Apart(B, Q \cup T)
    BY DEF OnePlace
  <2>2. Apart(Q, T)
    BY DEF OnePlace, Apart, Queue, Scored
  <2> QED
    BY <2>1, <2>2 DEF Apart
<1>9. /\ IsFiniteSet(A) /\ IsFiniteSet(B) /\ IsFiniteSet(Q) /\ IsFiniteSet(T)
  BY <1>7, ResponsesFinite
<1>10. IsFiniteSet(A \cup B) /\ Cardinality(A \cup B) = Cardinality(A) + Cardinality(B)
  BY <1>8, <1>9, DisjointSize
<1>11. /\ IsFiniteSet(A \cup B \cup Q)
       /\ Cardinality(A \cup B \cup Q) = Cardinality(A \cup B) + Cardinality(Q)
  BY <1>8, <1>9, <1>10, DisjointSize
<1>12. Cardinality(A \cup B \cup Q \cup T) = Cardinality(A \cup B \cup Q) + Cardinality(T)
  BY <1>8, <1>9, <1>11, DisjointSize
<1>13. Held(s) = A \cup B \cup Q \cup T
  BY DEF Held
<1>14. Pieces(s) = Cardinality(Held(s))
  BY <1>4, <1>6, <1>10, <1>11, <1>12, <1>13 DEF Pieces
<1>15. Held(s) \subseteq Responses
  BY <1>7, <1>13
<1>16. Cardinality(Held(s)) = 0 <=> Held(s) = {}
  BY <1>15, ResponsesFinite, FS_EmptySet
<1>17. Cardinality(Held(s)) < N <=> Held(s) # Responses
  <2>1. /\ Cardinality(Held(s)) <= Cardinality(Responses)
        /\ Cardinality(Held(s)) = Cardinality(Responses) => Held(s) = Responses
    BY <1>15, ResponsesFinite, FS_Subset
  <2>2. Cardinality(Held(s)) \in Nat /\ Cardinality(Responses) = N
    BY <1>15, ResponsesFinite
  <2> QED
    BY <2>1, <2>2
<1> QED
  BY <1>14, <1>15, <1>16, <1>17

(* What the invariant says of the property.                                *)
LEMMA InvariantIsFate ==
    ASSUME IInv
    PROVE  OneFate
<1>1. /\ TypeOK /\ Submitted /\ Signalled
      /\ OnePlace /\ OneDelivery /\ HeldBetween /\ Counted
  BY DEF IInv
<1>2. /\ finalizing \subseteq Samples /\ trained \subseteq Samples
      /\ collected \in Seq(Samples) /\ message_queue \in Seq(Samples \cup {None})
      /\ taken \in 0 .. TotalSamples
  BY <1>1 DEF TypeOK
<1>3. DeliveredOnce
  <2> PICK A, B, C, D : /\ A = finalizing /\ B = EntriesOf(message_queue)
                        /\ C = EntriesOf(collected) /\ D = trained
    OBVIOUS
  <2>1. IsFiniteSet(A) /\ IsFiniteSet(D)
    BY <1>2, ResponsesFinite
  <2>2. /\ IsFiniteSet(B) /\ Cardinality(B) = Len(message_queue)
        /\ IsFiniteSet(C) /\ Cardinality(C) = Len(collected)
    BY <1>1, <1>2, SizeOfQueue DEF OneDelivery
  <2>3. Apart(A, B) /\ Apart(A \cup B, C) /\ Apart(A \cup B \cup C, D)
    BY <1>1 DEF OneDelivery, Apart
  <2>4. IsFiniteSet(A \cup B) /\ Cardinality(A \cup B) = Cardinality(A) + Cardinality(B)
    BY <2>1, <2>2, <2>3, DisjointSize
  <2>5. /\ IsFiniteSet(A \cup B \cup C)
        /\ Cardinality(A \cup B \cup C) = Cardinality(A \cup B) + Cardinality(C)
    BY <2>2, <2>3, <2>4, DisjointSize
  <2>6. Cardinality(A \cup B \cup C \cup D) = Cardinality(A \cup B \cup C) + Cardinality(D)
    BY <2>1, <2>3, <2>5, DisjointSize
  <2>7. Delivered = A \cup B \cup C \cup D
    BY DEF Delivered
  <2>8. \A s \in Samples \cap Delivered : Pieces(s) = 0
    BY <1>1, PiecesAreHeld DEF HeldBetween
  <2> QED
    BY <2>2, <2>4, <2>5, <2>6, <2>7, <2>8 DEF DeliveredOnce
<1>4. Lost = Missing
  <2>1. \A s : s \in 1 .. taken <=> s \in Samples /\ s <= taken
    BY <1>2 DEF Samples
  <2>2. \A s \in Samples : Pieces(s) < N <=> Held(s) # Responses
    BY <1>1, PiecesAreHeld
  <2> QED
    BY <2>1, <2>2 DEF Lost, Missing, Begun
<1> QED
  BY <1>1, <1>3, <1>4 DEF OneFate, LossCounted, Counted

-----------------------------------------------------------------------------
(* Types *)

LEMMA PutOnTyped ==
    ASSUME NEW S, NEW q \in Seq(S), NEW x \in S, NEW max \in Nat \ {0}, Len(q) <= max
    PROVE  /\ PutOn(q, max, x) \in Seq(S) /\ Len(PutOn(q, max, x)) <= max
           /\ Refused(q, max) \in {0, 1}
<1>1. CASE Len(q) < max
  BY <1>1 DEF PutOn, Refused
<1>2. CASE Len(q) >= max
  <2>1. q # <<>>
    BY <1>2
  <2> PICK t : t = Tail(q)
    OBVIOUS
  <2>2. t \in Seq(S) /\ Len(t) = Len(q) - 1 /\ Len(q) \in Nat
    BY <2>1
  <2>3. PutOn(q, max, x) = Append(t, x) /\ Refused(q, max) = 1
    BY <1>2 DEF PutOn, Refused
  <2> QED
    BY <2>2, <2>3
<1> QED
  BY <1>1, <1>2

LEMMA TasksAreCounted ==
    ASSUME NEW S \in SUBSET Items, NEW T \in SUBSET Samples
    PROVE  /\ IsFiniteSet(S) /\ Cardinality(S) \in Nat
           /\ IsFiniteSet(T) /\ Cardinality(T) \in Nat
           /\ \A x : Cardinality(S \cup {x}) <= Cardinality(S) + 1
           /\ \A x : Cardinality(T \cup {x}) <= Cardinality(T) + 1
           /\ \A x \in S : Cardinality(S \ {x}) = Cardinality(S) - 1
           /\ \A x : Cardinality(T \ {x}) <= Cardinality(T)
           /\ MaxConcurrent * N \in Nat
<1>1. IsFiniteSet(Items)
  BY ResponsesFinite, FS_Product DEF Items
<1>2. IsFiniteSet(S) /\ Cardinality(S) \in Nat
  BY <1>1, FS_Subset, FS_CardinalityType
<1>3. IsFiniteSet(T) /\ Cardinality(T) \in Nat
  BY ResponsesFinite
<1>4. /\ \A x : Cardinality(S \cup {x}) <= Cardinality(S) + 1
      /\ \A x : Cardinality(T \cup {x}) <= Cardinality(T) + 1
  BY <1>2, <1>3, FS_AddElement, SMTT(30)
<1>5. /\ \A x \in S : Cardinality(S \ {x}) = Cardinality(S) - 1
      /\ \A x : Cardinality(T \ {x}) <= Cardinality(T)
  BY <1>2, <1>3, FS_RemoveElement, SMTT(30)
<1>6. MaxConcurrent * N \in Nat
  OBVIOUS
<1> QED
  BY <1>2, <1>3, <1>4, <1>5, <1>6

LEMMA GenerationTyped ==
    ASSUME TypeOK, Submitted, Processor \/ Inference
    PROVE  TypeOK' /\ Submitted'
<1> USE DEF generation, pauses, rewards, training
<1>1. CASE CheckGeneration \/ PauseGeneration \/ ResumeGeneration \/ EndGeneration
  <2>1. /\ UNCHANGED <<taken, inferring, active_tasks, failures, scoring_paused,
                       scoring_resume_event, consumer, scoring, finalizing, groups,
                       reward_queue, dropped, message_queue, trainer, collected, steps, trained>>
        /\ processor' \in {"check", "pause", "drain", "get", "ended"}
        /\ paused' \in BOOLEAN /\ resume_event' \in BOOLEAN /\ shut_down' \in BOOLEAN
    BY <1>1 DEF CheckGeneration, PauseGeneration, ResumeGeneration, EndGeneration, TypeOK
  <2> QED
    BY <2>1 DEF TypeOK, Submitted, RewardTasks
<1>2. CASE GetPending
  <2>1. taken' \in 0 .. TotalSamples /\ (processor' = "submit" => taken' \in Samples)
    BY <1>2 DEF GetPending, TypeOK, Samples
  <2> QED
    BY <1>2, <2>1 DEF GetPending, TypeOK, Submitted, RewardTasks
<1>3. CASE SubmitSample
  <2>1. taken \in Samples
    BY <1>3 DEF SubmitSample, Submitted
  <2>2. Cardinality(active_tasks) < MaxConcurrent /\ active_tasks' = active_tasks \cup {taken}
    BY <1>3 DEF SubmitSample
  <2>3. active_tasks' \subseteq Samples /\ Cardinality(active_tasks') <= MaxConcurrent
    <3>1. {} \in SUBSET Items /\ active_tasks \in SUBSET Samples
      BY DEF TypeOK
    <3>2. /\ Cardinality(active_tasks \cup {taken}) <= Cardinality(active_tasks) + 1
          /\ Cardinality(active_tasks) \in Nat
      BY <3>1, TasksAreCounted
    <3>3. Cardinality(active_tasks \cup {taken}) \in Nat
      BY <2>1, <3>1, ResponsesFinite
    <3> QED
      BY <2>1, <2>2, <3>1, <3>2, <3>3
  <2>4. inferring' \in [Samples -> SUBSET Responses]
    BY <1>3, <2>1 DEF SubmitSample, TypeOK
  <2> QED
    BY <1>3, <2>3, <2>4 DEF SubmitSample, TypeOK, Submitted, RewardTasks
<1>4. ASSUME NEW s \in Samples, TaskDone(s) PROVE TypeOK' /\ Submitted'
  <2>1. active_tasks' \subseteq Samples /\ Cardinality(active_tasks') <= MaxConcurrent
    <3>1. {} \in SUBSET Items /\ active_tasks \in SUBSET Samples
      BY DEF TypeOK
    <3>2. /\ Cardinality(active_tasks \ {s}) <= Cardinality(active_tasks)
          /\ Cardinality(active_tasks) \in Nat
      BY <3>1, TasksAreCounted
    <3>3. Cardinality(active_tasks \ {s}) \in Nat
      BY <3>1, ResponsesFinite
    <3> QED
      BY <1>4, <3>1, <3>2, <3>3 DEF TaskDone, TypeOK
  <2> QED
    BY <1>4, <2>1 DEF TaskDone, TypeOK, Submitted, RewardTasks
<1>5. ASSUME NEW s \in Samples, NEW i \in Responses, PutResponse(s, i) PROVE TypeOK' /\ Submitted'
  <2>1. <<s, i>> \in Items
    BY DEF Items
  <2>2. /\ reward_queue' \in Seq(Items) /\ Len(reward_queue') <= MaxRewardQueue
        /\ dropped' \in Nat
    <3>1. /\ reward_queue' = PutOn(reward_queue, MaxRewardQueue, <<s, i>>)
          /\ dropped' = dropped + Refused(reward_queue, MaxRewardQueue)
          /\ reward_queue \in Seq(Items) /\ Len(reward_queue) <= MaxRewardQueue
          /\ dropped \in Nat
      BY <1>5 DEF PutResponse, TypeOK
    <3>2. /\ PutOn(reward_queue, MaxRewardQueue, <<s, i>>) \in Seq(Items)
          /\ Len(PutOn(reward_queue, MaxRewardQueue, <<s, i>>)) <= MaxRewardQueue
          /\ Refused(reward_queue, MaxRewardQueue) \in {0, 1}
      BY <2>1, <3>1, PutOnTyped
    <3> QED
      BY <3>1, <3>2
  <2>3. inferring' \in [Samples -> SUBSET Responses]
    BY <1>5 DEF PutResponse, Inferred, TypeOK
  <2> QED
    BY <1>5, <2>2, <2>3 DEF PutResponse, Inferred, TypeOK, Submitted, RewardTasks
<1>6. ASSUME NEW s \in Samples, NEW i \in Responses, InferenceFails(s, i)
      PROVE  TypeOK' /\ Submitted'
  <2>1. inferring' \in [Samples -> SUBSET Responses] /\ dropped' \in Nat
    BY <1>6 DEF InferenceFails, Inferred, TypeOK
  <2> QED
    BY <1>6, <2>1 DEF InferenceFails, Inferred, TypeOK, Submitted, RewardTasks
<1> QED
  BY <1>1, <1>2, <1>3, <1>4, <1>5, <1>6 DEF Processor, Inference

LEMMA ScoringTyped ==
    ASSUME TypeOK, Submitted, Consumer \/ Scoring
    PROVE  TypeOK' /\ Submitted'
<1> USE DEF generation, pauses, rewards, training
<1>1. /\ scoring \in SUBSET Items /\ finalizing \in SUBSET Samples
      /\ RewardTasks <= MaxConcurrent * N
  BY DEF TypeOK
<1>2. CASE CheckScoring \/ PauseScoring \/ ResumeScoring
  <2>1. /\ UNCHANGED <<taken, processor, inferring, active_tasks, failures, paused,
                       resume_event, shut_down, scoring, finalizing, groups, reward_queue,
                       dropped, message_queue, trainer, collected, steps, trained>>
        /\ consumer' \in {"check", "pause", "drain", "get"}
        /\ scoring_paused' \in BOOLEAN /\ scoring_resume_event' \in BOOLEAN
    BY <1>2 DEF CheckScoring, PauseScoring, ResumeScoring, TypeOK
  <2> QED
    BY <2>1 DEF TypeOK, Submitted, RewardTasks
<1>3. CASE GetResponse
  <2>1. CASE reward_queue # <<>> /\ scoring' = scoring \cup {Head(reward_queue)}
               /\ reward_queue' = Tail(reward_queue) /\ consumer' = "check"
    <3> PICK t, h : t = Tail(reward_queue) /\ h = Head(reward_queue)
      OBVIOUS
    <3>1. /\ t \in Seq(Items) /\ Len(t) <= MaxRewardQueue /\ h \in Items
      BY <2>1 DEF TypeOK
    <3>2. RewardTasks' <= MaxConcurrent * N
      <4>1. /\ Cardinality(scoring \cup {h}) <= Cardinality(scoring) + 1
            /\ Cardinality(scoring) \in Nat /\ Cardinality(finalizing) \in Nat
            /\ MaxConcurrent * N \in Nat
        BY <1>1, TasksAreCounted
      <4>2. Cardinality(scoring \cup {h}) \in Nat
        BY <1>1, <3>1, TasksAreCounted
      <4>3. /\ Cardinality(scoring) + Cardinality(finalizing) < MaxConcurrent * N
            /\ RewardTasks' = Cardinality(scoring \cup {h}) + Cardinality(finalizing)
        BY <1>3, <2>1 DEF GetResponse, RewardTasks
      <4> HIDE DEF generation
      <4> QED
        BY <4>1, <4>2, <4>3
    <3> QED
      BY <1>3, <2>1, <3>1, <3>2 DEF GetResponse, TypeOK, Submitted
  <2>2. CASE consumer' = "end" /\ UNCHANGED <<scoring, reward_queue>>
    BY <1>3, <2>2 DEF GetResponse, TypeOK, Submitted, RewardTasks
  <2> QED
    BY <1>3, <2>1, <2>2 DEF GetResponse
<1>4. ASSUME NEW item \in scoring, Score(item) PROVE TypeOK' /\ Submitted'
  <2>1. item[1] \in Samples /\ item[2] \in Responses /\ item = <<item[1], item[2]>>
    BY <1>1 DEF Items
  <2>2. /\ scoring' = scoring \ {item}
        /\ finalizing' = finalizing \/ finalizing' = finalizing \cup {item[1]}
    BY <1>4 DEF Score
  <2>4. groups' \in [Samples -> SUBSET Responses]
    <3>1. \E group \in SUBSET Responses : groups' = [groups EXCEPT ![item[1]] = group]
      <4>1. groups[item[1]] \cup {item[2]} \in SUBSET Responses /\ {} \in SUBSET Responses
        BY <2>1 DEF TypeOK
      <4>2. \/ groups' = [groups EXCEPT ![item[1]] = groups[item[1]] \cup {item[2]}]
            \/ groups' = [groups EXCEPT ![item[1]] = {}]
        BY <1>4 DEF Score
      <4> QED
        BY <4>1, <4>2
    <3> QED
      BY <2>1, <3>1 DEF TypeOK
  <2>3. RewardTasks' <= MaxConcurrent * N
    <3>1. /\ Cardinality(scoring \ {item}) = Cardinality(scoring) - 1
          /\ Cardinality(finalizing \cup {item[1]}) <= Cardinality(finalizing) + 1
          /\ Cardinality(scoring) \in Nat /\ Cardinality(finalizing) \in Nat
          /\ MaxConcurrent * N \in Nat
      BY <1>1, TasksAreCounted
    <3>2. Cardinality(finalizing \cup {item[1]}) \in Nat
      BY <1>1, <2>1, TasksAreCounted
    <3>3. /\ Cardinality(scoring) + Cardinality(finalizing) <= MaxConcurrent * N
          /\ RewardTasks' = Cardinality(scoring') + Cardinality(finalizing')
      BY <1>1 DEF RewardTasks
    <3>4. CASE finalizing' = finalizing
      BY <2>2, <3>1, <3>3, <3>4
    <3>5. CASE finalizing' = finalizing \cup {item[1]}
      BY <2>2, <3>1, <3>2, <3>3, <3>5
    <3> QED
      BY <2>2, <3>4, <3>5
  <2> QED
    BY <1>1, <1>4, <2>1, <2>2, <2>3, <2>4, SMTT(30) DEF Score, TypeOK, Submitted
<1>5. ASSUME NEW s \in finalizing, Finalize(s) PROVE TypeOK' /\ Submitted'
  <2>1. /\ message_queue' \in Seq(Samples \cup {None}) /\ Len(message_queue') <= MaxRequired
        /\ dropped' \in Nat
    <3>1. /\ message_queue' = PutOn(message_queue, MaxRequired, s)
          /\ dropped' = dropped + Refused(message_queue, MaxRequired)
          /\ message_queue \in Seq(Samples \cup {None}) /\ Len(message_queue) <= MaxRequired
          /\ dropped \in Nat /\ s \in Samples \cup {None}
      BY <1>1, <1>5 DEF Finalize, TypeOK
    <3>2. /\ PutOn(message_queue, MaxRequired, s) \in Seq(Samples \cup {None})
          /\ Len(PutOn(message_queue, MaxRequired, s)) <= MaxRequired
          /\ Refused(message_queue, MaxRequired) \in {0, 1}
      BY <3>1, PutOnTyped
    <3> QED
      BY <3>1, <3>2
  <2>2. RewardTasks' <= MaxConcurrent * N
    <3>1. /\ Cardinality(finalizing \ {s}) <= Cardinality(finalizing)
          /\ Cardinality(scoring) \in Nat /\ Cardinality(finalizing) \in Nat
          /\ MaxConcurrent * N \in Nat
      BY <1>1, TasksAreCounted
    <3>2. Cardinality(finalizing \ {s}) \in Nat
      BY <1>1, TasksAreCounted
    <3>3. /\ Cardinality(scoring) + Cardinality(finalizing) <= MaxConcurrent * N
          /\ RewardTasks' = Cardinality(scoring) + Cardinality(finalizing \ {s})
      BY <1>1, <1>5 DEF RewardTasks, Finalize
    <3> QED
      BY <3>1, <3>2, <3>3
  <2> QED
    BY <1>1, <1>5, <2>1, <2>2 DEF Finalize, TypeOK, Submitted
<1>6. CASE EndScoring
  <2>1. message_queue' \in Seq(Samples \cup {None}) /\ Len(message_queue') <= MaxRequired
    BY <1>6, PutOnTyped DEF EndScoring, TypeOK
  <2> QED
    BY <1>6, <2>1 DEF EndScoring, TypeOK, Submitted, RewardTasks
<1> QED
  BY <1>2, <1>3, <1>4, <1>5, <1>6 DEF Consumer, Scoring

LEMMA TrainingTyped ==
    ASSUME TypeOK, Submitted, Trainer \/ MonitorGeneration \/ MonitorScoring
    PROVE  TypeOK' /\ Submitted'
<1> USE DEF generation, pauses, rewards, training
<1>1. CASE MonitorGeneration \/ MonitorScoring \/ ResetStaleness
  <2>1. /\ UNCHANGED <<taken, processor, inferring, active_tasks, failures, shut_down, consumer,
                       scoring, finalizing, groups, reward_queue, dropped, message_queue,
                       collected, steps, trained>>
        /\ trainer' \in {trainer, "collect"}
        /\ paused' \in BOOLEAN /\ resume_event' \in BOOLEAN
        /\ scoring_paused' \in BOOLEAN /\ scoring_resume_event' \in BOOLEAN
    BY <1>1 DEF MonitorGeneration, MonitorScoring, ResetStaleness, TypeOK
  <2> QED
    BY <2>1 DEF TypeOK, Submitted, RewardTasks
<1>2. CASE GetSample
  <2> PICK t, h : t = Tail(message_queue) /\ h = Head(message_queue)
    OBVIOUS
  <2>1. /\ t \in Seq(Samples \cup {None}) /\ Len(t) <= MaxRequired
        /\ h \in Samples \cup {None}
    BY <1>2 DEF GetSample, TypeOK
  <2>2. collected' \in Seq(Samples)
    <3>1. \/ collected' = collected
          \/ h # None /\ collected' = Append(collected, h)
      BY <1>2 DEF GetSample
    <3>2. collected \in Seq(Samples)
      BY DEF TypeOK
    <3> QED
      BY <2>1, <3>1, <3>2
  <2>3. trainer' \in {"collect", "train", "sync", "ended"}
    BY <1>2 DEF GetSample
  <2> QED
    BY <1>2, <2>1, <2>2, <2>3 DEF GetSample, TypeOK, Submitted, RewardTasks
<1>3. CASE TrainStep
  <2>1. trained' \subseteq Samples
    BY <1>3 DEF TrainStep, TypeOK
  <2>2. steps' \in 0 .. SyncStep - 1 /\ collected' \in Seq(Samples)
    BY <1>3 DEF TrainStep, TypeOK
  <2> QED
    BY <1>3, <2>1, <2>2 DEF TrainStep, TypeOK, Submitted, RewardTasks
<1> QED
  BY <1>1, <1>2, <1>3 DEF Trainer

LEMMA StepTyped ==
    ASSUME TypeOK, Submitted, [Next]_vars
    PROVE  TypeOK' /\ Submitted'
<1>1. CASE UNCHANGED vars
  BY <1>1 DEF vars, generation, pauses, rewards, training, TypeOK, Submitted, RewardTasks
<1> QED
  BY <1>1, GenerationTyped, ScoringTyped, TrainingTyped DEF Next

-----------------------------------------------------------------------------
(* The invariant, step by step *)

Fate == Signalled /\ OnePlace /\ OneDelivery /\ HeldBetween /\ Counted

LEMMA InitFate == Init => IInv
<1> SUFFICES ASSUME Init PROVE IInv
  OBVIOUS
<1>1. /\ scoring = {} /\ finalizing = {} /\ trained = {} /\ active_tasks = {}
      /\ EntriesOf(reward_queue) = {} /\ EntriesOf(message_queue) = {}
      /\ EntriesOf(collected) = {}
  BY DEF Init, EntriesOf
<1>2. Cardinality({}) = 0
  BY FS_EmptySet
<1>3. TypeOK
  <2>1. 0 <= MaxConcurrent * N
    OBVIOUS
  <2>2. RewardTasks = 0
    BY <1>1, <1>2 DEF RewardTasks
  <2>3. Cardinality(active_tasks) <= MaxConcurrent /\ RewardTasks <= MaxConcurrent * N
    BY <1>1, <1>2, <2>1, <2>2
  <2>4. /\ Len(reward_queue) <= MaxRewardQueue /\ Len(message_queue) <= MaxRequired
        /\ steps \in 0 .. SyncStep - 1 /\ taken \in 0 .. TotalSamples
        /\ failures \in 0 .. MaxFailures /\ dropped \in Nat
    BY DEF Init
  <2>5. /\ inferring \in [Samples -> SUBSET Responses]
        /\ groups \in [Samples -> SUBSET Responses]
    BY DEF Init
  <2>6. /\ reward_queue \in Seq(Items) /\ message_queue \in Seq(Samples \cup {None})
        /\ collected \in Seq(Samples)
    BY DEF Init
  <2>7. /\ active_tasks \subseteq Samples /\ scoring \subseteq Items
        /\ finalizing \subseteq Samples /\ trained \subseteq Samples
    BY <1>1
  <2>8. /\ processor \in {"check", "pause", "drain", "get", "submit", "end", "ended"}
        /\ consumer \in {"check", "pause", "drain", "get", "end", "ended"}
        /\ trainer \in {"collect", "train", "sync", "ended"}
        /\ paused \in BOOLEAN /\ resume_event \in BOOLEAN /\ shut_down \in BOOLEAN
        /\ scoring_paused \in BOOLEAN /\ scoring_resume_event \in BOOLEAN
    BY DEF Init
  <2> QED
    BY <2>3, <2>4, <2>5, <2>6, <2>7, <2>8 DEF TypeOK
<1>4. Delivered = {} /\ \A s \in Samples : Held(s) = {} /\ ~ Begun(s)
  BY <1>1 DEF Init, Delivered, Held, Queue, Scored, Begun, Samples
<1>5. Missing = {}
  BY <1>4 DEF Missing
<1>6. Counted
  BY <1>2, <1>5 DEF Counted, Init
<1>7. OnePlace /\ OneDelivery /\ HeldBetween /\ Signalled /\ Submitted
  BY <1>1, <1>4 DEF OnePlace, OneDelivery, HeldBetween, Signalled, Submitted, Apart,
       Distinct, Init
<1> QED
  BY <1>3, <1>6, <1>7 DEF IInv

LEMMA OneMore ==
    ASSUME NEW S \in SUBSET Samples, NEW T \in SUBSET Samples
    PROVE  /\ Cardinality(S) \in Nat /\ Cardinality(T) \in Nat
           /\ T \subseteq S => Cardinality(T) <= Cardinality(S)
           /\ \A x : T \subseteq S \cup {x} => Cardinality(T) <= Cardinality(S) + 1
<1>1. IsFiniteSet(S) /\ Cardinality(S) \in Nat /\ Cardinality(T) \in Nat
  BY ResponsesFinite
<1>2. T \subseteq S => Cardinality(T) <= Cardinality(S)
  BY <1>1, FS_Subset
<1>3. ASSUME NEW x, T \subseteq S \cup {x} PROVE Cardinality(T) <= Cardinality(S) + 1
  <2> PICK U : U = S \cup {x}
    OBVIOUS
  <2>1. IsFiniteSet(U) /\ Cardinality(U) \in Nat /\ Cardinality(U) <= Cardinality(S) + 1
    BY <1>1, FS_AddElement, FS_CardinalityType
  <2>2. Cardinality(T) <= Cardinality(U)
    BY <1>3, <2>1, FS_Subset
  <2> QED
    BY <1>1, <2>1, <2>2
<1> QED
  BY <1>1, <1>2, <1>3

(* Nothing more is missing, or one sample that was counted.                *)
LEMMA CountedStep ==
    ASSUME Counted, dropped \in Nat, dropped' \in Nat,
           \/ /\ Missing' \subseteq Missing
              /\ dropped' >= dropped /\ (consumer = "ended" => consumer' = "ended")
           \/ /\ \E x : Missing' \subseteq Missing \cup {x}
              /\ \/ dropped' = dropped + 1 /\ (consumer = "ended" => consumer' = "ended")
                 \/ dropped' = dropped /\ consumer # "ended" /\ consumer' = "ended"
    PROVE  Counted'
<1> PICK S, T : S = Missing /\ T = Missing'
  OBVIOUS
<1> PICK m, n : m = dropped /\ n = dropped'
  OBVIOUS
<1> PICK c : c = IF consumer = "ended" THEN 1 ELSE 0
  OBVIOUS
<1> PICK d : d = IF consumer' = "ended" THEN 1 ELSE 0
  OBVIOUS
<1>1. S \in SUBSET Samples /\ T \in SUBSET Samples
  BY DEF Missing
<1>2. /\ Cardinality(S) \in Nat /\ Cardinality(T) \in Nat
      /\ T \subseteq S => Cardinality(T) <= Cardinality(S)
      /\ \A x : T \subseteq S \cup {x} => Cardinality(T) <= Cardinality(S) + 1
  BY <1>1, OneMore
<1>3. Cardinality(S) <= m + c
  BY DEF Counted
<1>4. /\ m \in Nat /\ n \in Nat /\ c \in {0, 1} /\ d \in {0, 1}
      /\ \/ T \subseteq S /\ n >= m /\ d >= c
         \/ (\E x : T \subseteq S \cup {x}) /\ n + d >= m + c + 1
  <2>1. /\ m \in Nat /\ n \in Nat /\ c \in {0, 1} /\ d \in {0, 1}
        /\ (consumer = "ended" => consumer' = "ended") => d >= c
    OBVIOUS
  <2>2. CASE /\ Missing' \subseteq Missing
             /\ dropped' >= dropped /\ (consumer = "ended" => consumer' = "ended")
    BY <2>1, <2>2
  <2>3. ASSUME NEW x, Missing' \subseteq Missing \cup {x} PROVE T \subseteq S \cup {x}
    BY <2>3
  <2>4. CASE dropped' = dropped + 1 /\ (consumer = "ended" => consumer' = "ended")
    <3>1. n + d >= m + c + 1 /\ n >= m /\ d >= c
      BY <2>1, <2>4
    <3> QED
      BY <2>1, <2>3, <3>1
  <2>5. CASE dropped' = dropped /\ consumer # "ended" /\ consumer' = "ended"
    <3>1. n + d >= m + c + 1 /\ n >= m /\ d >= c
      BY <2>1, <2>5
    <3> QED
      BY <2>1, <2>3, <3>1
  <2> QED
    BY <2>1, <2>2, <2>4, <2>5
<1>5. Cardinality(T) <= n + d
  BY <1>2, <1>3, <1>4
<1> QED
  BY <1>5 DEF Counted

(* A step that moves no response and no sample.                            *)
LEMMA QuietKeeps ==
    ASSUME TypeOK, Fate, \A s \in Samples : Begun(s)' <=> Begun(s),
           UNCHANGED <<inferring, reward_queue, scoring, finalizing, groups, message_queue,
                       collected, trained, dropped>>,
           consumer' = "ended" <=> consumer = "ended"
    PROVE  Fate'
<1>1. Delivered' = Delivered /\ \A s \in Samples : Held(s)' = Held(s)
  BY DEF Delivered, Held, Queue, Scored
<1>2. Missing' = Missing
  BY <1>1 DEF Missing
<1>3. OnePlace' /\ OneDelivery' /\ Signalled'
  BY DEF Fate, OnePlace, OneDelivery, Signalled, Queue, Scored
<1>4. HeldBetween'
  BY <1>1 DEF Fate, HeldBetween
<1>5. Counted'
  BY <1>2 DEF Fate, Counted
<1> QED
  BY <1>3, <1>4, <1>5 DEF Fate

(* The responses of the next sample are being generated from here on.      *)
LEMMA SubmitKeeps ==
    ASSUME TypeOK, Submitted, Fate, SubmitSample
    PROVE  Fate'
<1> USE DEF rewards, training
<1> PICK t : t = taken
  OBVIOUS
<1>1. /\ t \in Samples /\ processor = "submit" /\ processor' = "check"
      /\ inferring' = [inferring EXCEPT ![t] = Responses] /\ taken' = taken
      /\ UNCHANGED <<reward_queue, scoring, finalizing, groups, message_queue, collected,
                     trained, dropped, consumer>>
  BY DEF SubmitSample, Submitted
<1>2. /\ inferring'[t] = Responses
      /\ \A s \in Samples \ {t} : inferring'[s] = inferring[s]
  BY <1>1 DEF TypeOK
<1>3. /\ ~ Begun(t) /\ Begun(t)'
      /\ \A s \in Samples \ {t} : Begun(s)' <=> Begun(s)
  BY <1>1 DEF Begun, TypeOK, Samples
<1>4. Held(t) = {} /\ t \notin Delivered
  BY <1>1, <1>3 DEF Fate, HeldBetween
<1>5. /\ Delivered' = Delivered
      /\ \A s \in Samples : Queue(s)' = Queue(s) /\ Scored(s)' = Scored(s)
  BY <1>1 DEF Delivered, Queue, Scored
<1>6. groups[t] = {} /\ Queue(t) = {} /\ Scored(t) = {}
  BY <1>4 DEF Held
<1>7. Held(t)' = Responses /\ \A s \in Samples \ {t} : Held(s)' = Held(s)
  BY <1>1, <1>2, <1>5, <1>6 DEF Held
<1>8. OnePlace'
  <2>1. \A s \in Samples : /\ Apart(inferring[s], groups[s])'
                           /\ Apart(inferring[s], Queue(s) \cup Scored(s))'
                           /\ Apart(groups[s], Queue(s) \cup Scored(s))'
    BY <1>1, <1>2, <1>5, <1>6 DEF Fate, OnePlace, Apart
  <2> QED
    BY <1>1, <2>1 DEF Fate, OnePlace
<1>9. OneDelivery' /\ Signalled'
  BY <1>1 DEF Fate, OneDelivery, Signalled
<1>10. HeldBetween'
  BY <1>3, <1>4, <1>5, <1>7 DEF Fate, HeldBetween
<1>11. Missing' \subseteq Missing
  BY <1>3, <1>5, <1>7 DEF Missing
<1>12. Counted'
  BY <1>1, <1>11, CountedStep DEF Fate, TypeOK
<1> QED
  BY <1>8, <1>9, <1>10, <1>12 DEF Fate

(* A response is nowhere from here on, and counted.                        *)
LEMMA FailsKeeps ==
    ASSUME TypeOK, Fate, NEW t \in Samples, NEW k \in Responses, InferenceFails(t, k)
    PROVE  Fate'
<1> USE DEF rewards, training
<1>1. /\ k \in inferring[t] /\ inferring' = [inferring EXCEPT ![t] = inferring[t] \ {k}]
      /\ dropped' = dropped + 1
      /\ UNCHANGED <<taken, processor, reward_queue, scoring, finalizing, groups,
                     message_queue, collected, trained, consumer>>
  BY DEF InferenceFails, Inferred
<1>2. /\ inferring'[t] = inferring[t] \ {k}
      /\ \A s \in Samples \ {t} : inferring'[s] = inferring[s]
  BY <1>1 DEF TypeOK
<1>3. /\ Delivered' = Delivered
      /\ \A s \in Samples : /\ Begun(s)' <=> Begun(s)
                            /\ Queue(s)' = Queue(s) /\ Scored(s)' = Scored(s)
  BY <1>1 DEF Delivered, Queue, Scored, Begun
<1>4. Held(t)' \subseteq Held(t) /\ \A s \in Samples \ {t} : Held(s)' = Held(s)
  BY <1>1, <1>2, <1>3 DEF Held
<1>5. OnePlace'
  <2>1. \A s \in Samples : /\ Apart(inferring[s], groups[s])'
                           /\ Apart(inferring[s], Queue(s) \cup Scored(s))'
                           /\ Apart(groups[s], Queue(s) \cup Scored(s))'
    BY <1>1, <1>2, <1>3 DEF Fate, OnePlace, Apart
  <2> QED
    BY <1>1, <2>1 DEF Fate, OnePlace
<1>6. OneDelivery' /\ Signalled'
  BY <1>1 DEF Fate, OneDelivery, Signalled
<1>7. HeldBetween'
  BY <1>3, <1>4 DEF Fate, HeldBetween
<1>8. \E x : Missing' \subseteq Missing \cup {x}
  <2>1. Missing' \subseteq Missing \cup {t}
    BY <1>3, <1>4 DEF Missing
  <2> QED
    BY <2>1
<1>9. dropped \in Nat /\ dropped' \in Nat
  BY <1>1 DEF TypeOK
<1>10. Counted'
  BY <1>1, <1>8, <1>9, CountedStep DEF Fate
<1> QED
  BY <1>5, <1>6, <1>7, <1>10 DEF Fate

(* The response moves to the queue; another may be pushed out.             *)
LEMMA PutKeeps ==
    ASSUME TypeOK, Fate, NEW t \in Samples, NEW k \in Responses, PutResponse(t, k)
    PROVE  Fate'
<1> USE DEF rewards, training
<1> PICK x : x = <<t, k>>
  OBVIOUS
<1> PICK E, F, q : /\ E = EntriesOf(reward_queue) /\ F = EntriesOf(reward_queue')
                   /\ q = reward_queue'
  OBVIOUS
<1>1. /\ k \in inferring[t] /\ inferring' = [inferring EXCEPT ![t] = inferring[t] \ {k}]
      /\ q = PutOn(reward_queue, MaxRewardQueue, x)
      /\ dropped' = dropped + Refused(reward_queue, MaxRewardQueue)
      /\ UNCHANGED <<taken, processor, scoring, finalizing, groups,
                     message_queue, collected, trained, consumer>>
  BY DEF PutResponse, Inferred
<1>2. /\ inferring'[t] = inferring[t] \ {k}
      /\ \A s \in Samples \ {t} : inferring'[s] = inferring[s]
  BY <1>1 DEF TypeOK
<1>3. Apart(inferring[t], Queue(t) \cup Scored(t)) /\ Apart(inferring[t], groups[t])
  BY DEF Fate, OnePlace
<1>4. x \notin E /\ x \notin scoring /\ k \notin groups[t]
  BY <1>1, <1>3 DEF Apart, Queue, Scored
<1>5. /\ q \in Seq(Items) /\ Len(q) <= MaxRewardQueue /\ Distinct(q)
      /\ Refused(reward_queue, MaxRewardQueue) \in {0, 1}
      /\ \/ Refused(reward_queue, MaxRewardQueue) = 0 /\ F = E \cup {x}
         \/ /\ Refused(reward_queue, MaxRewardQueue) = 1
            /\ \E gone \in E : F = (E \ {gone}) \cup {x}
  <2>1. /\ reward_queue \in Seq(Items) /\ x \in Items /\ Distinct(reward_queue)
        /\ Len(reward_queue) <= MaxRewardQueue /\ MaxRewardQueue \in Nat \ {0}
    BY DEF TypeOK, Items, Fate, OnePlace
  <2>2. x \notin EntriesOf(reward_queue)
    BY <1>4
  <2> PICK r : r = PutOn(reward_queue, MaxRewardQueue, x)
    OBVIOUS
  <2>3. /\ r \in Seq(Items) /\ Len(r) <= MaxRewardQueue /\ Distinct(r)
        /\ Refused(reward_queue, MaxRewardQueue) \in {0, 1}
        /\ \/ /\ Refused(reward_queue, MaxRewardQueue) = 0
              /\ EntriesOf(r) = EntriesOf(reward_queue) \cup {x}
           \/ /\ Refused(reward_queue, MaxRewardQueue) = 1
              /\ \E gone \in EntriesOf(reward_queue) :
                    EntriesOf(r) = (EntriesOf(reward_queue) \ {gone}) \cup {x}
    BY <2>1, <2>2, PutOnQueue, SMTT(30)
  <2>4. r = q /\ EntriesOf(r) = F
    BY <1>1
  <2> QED
    BY <2>3, <2>4
<1>6. /\ Delivered' = Delivered
      /\ \A s \in Samples : /\ Begun(s)' <=> Begun(s)
                            /\ Scored(s)' = Scored(s)
  BY <1>1 DEF Delivered, Scored, Begun
<1>7. /\ \A s \in Samples \ {t} : Queue(s)' \subseteq Queue(s)
      /\ Queue(t)' \subseteq Queue(t) \cup {k}
  <2>1. F \subseteq E \cup {x}
    BY <1>5
  <2> QED
    BY <2>1 DEF Queue
<1>8. \A s \in Samples : Held(s)' \subseteq Held(s)
  BY <1>1, <1>2, <1>6, <1>7 DEF Held
<1>9. OnePlace'
  <2>1. Apart(EntriesOf(reward_queue), scoring)'
    BY <1>1, <1>4, <1>5 DEF Fate, OnePlace, Apart
  <2>2. \A s \in Samples : /\ Apart(inferring[s], groups[s])'
                           /\ Apart(inferring[s], Queue(s) \cup Scored(s))'
                           /\ Apart(groups[s], Queue(s) \cup Scored(s))'
    BY <1>1, <1>2, <1>4, <1>6, <1>7 DEF Fate, OnePlace, Apart
  <2> QED
    BY <1>5, <2>1, <2>2 DEF OnePlace
<1>10. OneDelivery' /\ Signalled'
  BY <1>1 DEF Fate, OneDelivery, Signalled
<1>11. HeldBetween'
  BY <1>6, <1>8 DEF Fate, HeldBetween
<1>12. dropped \in Nat
  BY DEF TypeOK
<1>13. CASE Refused(reward_queue, MaxRewardQueue) = 0 /\ F = E \cup {x}
  <2>1. /\ \A s \in Samples : Queue(s) \subseteq Queue(s)'
        /\ k \in Queue(t)'
    BY <1>13 DEF Queue
  <2>2. \A s \in Samples : Held(s) \subseteq Held(s)'
    BY <1>1, <1>2, <1>6, <2>1 DEF Held
  <2>3. Missing' \subseteq Missing
    BY <1>6, <1>8, <2>2 DEF Missing
  <2>4. dropped' = dropped
    BY <1>1, <1>12, <1>13
  <2> QED
    BY <1>1, <1>9, <1>10, <1>11, <1>12, <2>3, <2>4, CountedStep DEF Fate
<1>14. CASE /\ Refused(reward_queue, MaxRewardQueue) = 1
            /\ \E gone \in E : F = (E \ {gone}) \cup {x}
  <2> PICK gone \in E : F = (E \ {gone}) \cup {x}
    BY <1>14
  <2> PICK g : g = gone[1]
    OBVIOUS
  <2>1. \A s \in Samples \ {g} : Queue(s) \subseteq Queue(s)'
    BY DEF Queue
  <2>2. t # g => k \in Queue(t)'
    BY DEF Queue
  <2>3. \A s \in Samples \ {g} : Held(s) \subseteq Held(s)'
    BY <1>1, <1>2, <1>6, <2>1, <2>2 DEF Held
  <2>4. Missing' \subseteq Missing \cup {g}
    BY <1>6, <1>8, <2>3 DEF Missing
  <2>5. \E y : Missing' \subseteq Missing \cup {y}
    BY <2>4
  <2>6. dropped' = dropped + 1 /\ dropped' \in Nat
    BY <1>1, <1>12, <1>14
  <2> QED
    BY <1>1, <1>9, <1>10, <1>11, <1>12, <2>5, <2>6, CountedStep DEF Fate
<1> QED
  BY <1>5, <1>13, <1>14

(* The consumer takes the oldest response.                                 *)
LEMMA TakeKeeps ==
    ASSUME TypeOK, Fate, reward_queue # <<>>,
           scoring' = scoring \cup {Head(reward_queue)},
           reward_queue' = Tail(reward_queue), consumer' = "check", consumer # "ended",
           UNCHANGED <<taken, processor, inferring, finalizing, groups, message_queue,
                       collected, trained, dropped>>
    PROVE  Fate'
<1> PICK x, q : x = Head(reward_queue) /\ q = reward_queue'
  OBVIOUS
<1> PICK E, F : /\ E = EntriesOf(reward_queue) /\ F = EntriesOf(reward_queue')
  OBVIOUS
<1>1. /\ Distinct(q) /\ x \in E /\ x \in Items /\ F = E \ {x}
      /\ scoring' = scoring \cup {x}
  BY TailOfQueue DEF TypeOK, Fate, OnePlace
<1>2. /\ Delivered' = Delivered
      /\ \A s \in Samples : Begun(s)' <=> Begun(s)
  BY DEF Delivered, Begun
<1>3. \A s \in Samples : Queue(s)' \cup Scored(s)' = Queue(s) \cup Scored(s)
  BY <1>1 DEF Queue, Scored
<1>4. \A s \in Samples : Held(s)' = Held(s)
  BY <1>3 DEF Held
<1>5. OnePlace'
  <2>1. Apart(EntriesOf(reward_queue), scoring)'
    BY <1>1 DEF Fate, OnePlace, Apart
  <2>2. \A s \in Samples : /\ Apart(inferring[s], groups[s])'
                           /\ Apart(inferring[s], Queue(s) \cup Scored(s))'
                           /\ Apart(groups[s], Queue(s) \cup Scored(s))'
    BY <1>3 DEF Fate, OnePlace, Apart
  <2> QED
    BY <1>1, <2>1, <2>2 DEF OnePlace
<1>6. OneDelivery'
  BY DEF Fate, OneDelivery
<1>7. Signalled'
  BY DEF Fate, Signalled
<1>8. HeldBetween'
  BY <1>2, <1>4 DEF Fate, HeldBetween
<1>9. Missing' \subseteq Missing
  BY <1>2, <1>4 DEF Missing
<1>10. Counted'
  BY <1>9, CountedStep DEF Fate, TypeOK
<1> QED
  BY <1>5, <1>6, <1>7, <1>8, <1>10 DEF Fate

(* A response with a score joins its group; the last one takes the group   *)
(* out, and its sample on the way to the trainer.                          *)
LEMMA ScoreKeeps ==
    ASSUME TypeOK, Fate, NEW item \in scoring, Score(item)
    PROVE  Fate'
<1> USE DEF generation, training
<1> PICK t, k : t = item[1] /\ k = item[2]
  OBVIOUS
<1>1. t \in Samples /\ k \in Responses /\ item = <<t, k>>
  BY DEF TypeOK, Items
<1>2. /\ scoring' = scoring \ {item}
      /\ \/ /\ groups[t] \cup {k} = Responses
            /\ finalizing' = finalizing \cup {t} /\ groups' = [groups EXCEPT ![t] = {}]
         \/ /\ groups[t] \cup {k} # Responses /\ finalizing' = finalizing
            /\ groups' = [groups EXCEPT ![t] = groups[t] \cup {k}]
      /\ UNCHANGED <<taken, processor, inferring, consumer, reward_queue, dropped,
                     message_queue, collected, trained>>
  BY DEF Score
<1>3. /\ groups \in [Samples -> SUBSET Responses] /\ dropped \in Nat
      /\ inferring \in [Samples -> SUBSET Responses]
  BY DEF TypeOK
<1>4. /\ k \in Scored(t) /\ k \notin inferring[t] /\ k \notin groups[t] /\ k \notin Queue(t)
  <2>1. k \in Scored(t)
    BY <1>1 DEF Scored
  <2>2. k \notin Queue(t)
    BY <1>1 DEF Fate, OnePlace, Apart, Queue
  <2> QED
    BY <1>1, <2>1, <2>2 DEF Fate, OnePlace, Apart
<1>5. \A s \in Samples : /\ Begun(s)' <=> Begun(s)
                         /\ Queue(s)' = Queue(s)
  BY <1>2 DEF Queue, Begun
<1>6. /\ Scored(t)' = Scored(t) \ {k}
      /\ \A s \in Samples \ {t} : Scored(s)' = Scored(s)
  BY <1>1, <1>2 DEF Scored
<1>7. t \notin Delivered /\ Begun(t)
  BY <1>1, <1>4 DEF Fate, HeldBetween, Held
<1>8. Distinct(reward_queue)' /\ Apart(EntriesOf(reward_queue), scoring)'
  BY <1>2 DEF Fate, OnePlace, Apart
<1>9. Signalled'
  BY <1>2 DEF Fate, Signalled
<1>10. CASE /\ groups[t] \cup {k} = Responses
            /\ finalizing' = finalizing \cup {t} /\ groups' = [groups EXCEPT ![t] = {}]
  <2>1. groups'[t] = {} /\ \A s \in Samples \ {t} : groups'[s] = groups[s]
    BY <1>1, <1>3, <1>10
  <2>2. inferring[t] = {} /\ Queue(t) = {} /\ Scored(t) = {k}
    <3>1. /\ inferring[t] \subseteq Responses /\ Queue(t) \subseteq Responses
          /\ Scored(t) \subseteq Responses
      BY <1>1, <1>3 DEF Queue, Scored
    <3> QED
      BY <1>1, <1>4, <1>10, <3>1 DEF Fate, OnePlace, Apart
  <2>3. Held(t)' = {} /\ \A s \in Samples \ {t} : Held(s)' = Held(s)
    BY <1>1, <1>2, <1>5, <1>6, <2>1, <2>2 DEF Held
  <2>4. Delivered' = Delivered \cup {t}
    BY <1>2, <1>10 DEF Delivered
  <2>5. OnePlace'
    BY <1>1, <1>2, <1>5, <1>6, <1>8, <2>1, <2>2 DEF Fate, OnePlace, Apart
  <2>6. OneDelivery'
    BY <1>2, <1>7, <1>10 DEF Fate, OneDelivery, Apart, Delivered
  <2>7. HeldBetween'
    BY <1>5, <1>7, <2>3, <2>4 DEF Fate, HeldBetween
  <2>8. Missing' \subseteq Missing
    BY <1>5, <2>3, <2>4 DEF Missing
  <2> QED
    BY <1>2, <1>3, <1>9, <2>5, <2>6, <2>7, <2>8, CountedStep DEF Fate
<1>11. CASE /\ groups[t] \cup {k} # Responses /\ finalizing' = finalizing
            /\ groups' = [groups EXCEPT ![t] = groups[t] \cup {k}]
  <2>1. /\ groups'[t] = groups[t] \cup {k}
        /\ \A s \in Samples \ {t} : groups'[s] = groups[s]
    BY <1>1, <1>3, <1>11
  <2>2. \A s \in Samples : Held(s)' = Held(s)
    BY <1>1, <1>2, <1>4, <1>5, <1>6, <2>1 DEF Held
  <2>3. Delivered' = Delivered
    BY <1>2, <1>11 DEF Delivered
  <2>4. OnePlace'
    BY <1>1, <1>2, <1>4, <1>5, <1>6, <1>8, <2>1 DEF Fate, OnePlace, Apart
  <2>5. OneDelivery'
    BY <1>2, <1>11 DEF Fate, OneDelivery
  <2>6. HeldBetween'
    BY <1>5, <2>2, <2>3 DEF Fate, HeldBetween
  <2>7. Missing' \subseteq Missing
    BY <1>5, <2>2, <2>3 DEF Missing
  <2> QED
    BY <1>2, <1>3, <1>9, <2>4, <2>5, <2>6, <2>7, CountedStep DEF Fate
<1> QED
  BY <1>2, <1>10, <1>11

(* What happens to a sample on its way to the trainer moves no response.   *)
LEMMA DeliveryKeeps ==
    ASSUME TypeOK, Fate, OneDelivery', Signalled',
           UNCHANGED <<taken, processor, inferring, reward_queue, scoring, groups>>,
           dropped' \in Nat, Samples \cap Delivered' \subseteq Delivered,
           \/ /\ Samples \cap Delivered \subseteq Delivered'
              /\ dropped' >= dropped /\ (consumer = "ended" => consumer' = "ended")
           \/ /\ \E x : Samples \cap Delivered \subseteq Delivered' \cup {x}
              /\ \/ dropped' = dropped + 1 /\ (consumer = "ended" => consumer' = "ended")
                 \/ dropped' = dropped /\ consumer # "ended" /\ consumer' = "ended"
    PROVE  Fate'
<1>1. \A s \in Samples : (Begun(s)' <=> Begun(s)) /\ Held(s)' = Held(s)
  BY DEF Begun, Held, Queue, Scored
<1>2. OnePlace'
  BY DEF Fate, OnePlace, Queue, Scored
<1>3. HeldBetween'
  BY <1>1 DEF Fate, HeldBetween
<1>4. Samples \cap Delivered \subseteq Delivered' => Missing' \subseteq Missing
  BY <1>1 DEF Missing
<1>5. \A x : Samples \cap Delivered \subseteq Delivered' \cup {x}
             => Missing' \subseteq Missing \cup {x}
  BY <1>1 DEF Missing
<1>6. Counted /\ dropped \in Nat
  BY DEF Fate, TypeOK
<1>7. CASE /\ Samples \cap Delivered \subseteq Delivered'
           /\ dropped' >= dropped /\ (consumer = "ended" => consumer' = "ended")
  BY <1>2, <1>3, <1>4, <1>6, <1>7, CountedStep DEF Fate
<1>8. CASE /\ \E x : Samples \cap Delivered \subseteq Delivered' \cup {x}
           /\ \/ dropped' = dropped + 1 /\ (consumer = "ended" => consumer' = "ended")
              \/ dropped' = dropped /\ consumer # "ended" /\ consumer' = "ended"
  <2>1. \E x : Missing' \subseteq Missing \cup {x}
    BY <1>5, <1>8
  <2>2. Counted'
    BY <1>6, <1>8, <2>1, CountedStep
  <2> QED
    BY <1>2, <1>3, <2>2 DEF Fate
<1> QED
  BY <1>7, <1>8

(* The sample that a full message queue pushes out is counted.             *)
LEMMA FinalizeKeeps ==
    ASSUME TypeOK, Fate, NEW t \in finalizing, Finalize(t)
    PROVE  Fate'
<1> USE DEF generation, training
<1> PICK q, E, F : /\ q = message_queue' /\ E = EntriesOf(message_queue)
                   /\ F = EntriesOf(message_queue')
  OBVIOUS
<1>1. /\ finalizing' = finalizing \ {t}
      /\ q = PutOn(message_queue, MaxRequired, t)
      /\ dropped' = dropped + Refused(message_queue, MaxRequired)
      /\ UNCHANGED <<taken, processor, inferring, consumer, scoring, groups, reward_queue,
                     collected, trained>>
  BY DEF Finalize
<1>2. t \in Samples /\ t # None /\ dropped \in Nat
  BY ResponsesFinite DEF TypeOK
<1>3. t \notin E /\ t \notin EntriesOf(collected) /\ t \notin trained
  BY DEF Fate, OneDelivery, Apart
<1>4. /\ Distinct(q)
      /\ \/ Refused(message_queue, MaxRequired) = 0 /\ F = E \cup {t}
         \/ /\ Refused(message_queue, MaxRequired) = 1
            /\ \E gone \in E : F = (E \ {gone}) \cup {t}
  <2>1. /\ message_queue \in Seq(Samples \cup {None}) /\ t \in Samples \cup {None}
        /\ Len(message_queue) <= MaxRequired /\ MaxRequired \in Nat \ {0}
        /\ Distinct(message_queue)
    BY <1>2 DEF TypeOK, Fate, OneDelivery
  <2>2. t \notin EntriesOf(message_queue)
    BY <1>3
  <2> PICK r : r = PutOn(message_queue, MaxRequired, t)
    OBVIOUS
  <2>3. /\ Distinct(r)
        /\ \/ /\ Refused(message_queue, MaxRequired) = 0
              /\ EntriesOf(r) = EntriesOf(message_queue) \cup {t}
           \/ /\ Refused(message_queue, MaxRequired) = 1
              /\ \E gone \in EntriesOf(message_queue) :
                    EntriesOf(r) = (EntriesOf(message_queue) \ {gone}) \cup {t}
    BY <2>1, <2>2, PutOnQueue
  <2>4. r = q /\ EntriesOf(r) = F
    BY <1>1
  <2> QED
    BY <2>3, <2>4
<1>5. F \subseteq E \cup {t}
  BY <1>4
<1>6. OneDelivery'
  BY <1>1, <1>3, <1>4, <1>5 DEF Fate, OneDelivery, Apart
<1>7. Signalled'
  BY <1>1, <1>2, <1>5 DEF Fate, Signalled
<1>8. Delivered' \subseteq Delivered
  BY <1>1, <1>5 DEF Delivered
<1>9. CASE Refused(message_queue, MaxRequired) = 0 /\ F = E \cup {t}
  <2>1. Delivered \subseteq Delivered'
    BY <1>1, <1>9 DEF Delivered
  <2>2. dropped' = dropped
    BY <1>1, <1>2, <1>9
  <2> QED
    BY <1>1, <1>2, <1>6, <1>7, <1>8, <2>1, <2>2, DeliveryKeeps
<1>10. CASE /\ Refused(message_queue, MaxRequired) = 1
            /\ \E gone \in E : F = (E \ {gone}) \cup {t}
  <2> PICK gone \in E : F = (E \ {gone}) \cup {t}
    BY <1>10
  <2>1. Delivered \subseteq Delivered' \cup {gone}
    BY <1>1 DEF Delivered
  <2>2. \E x : Samples \cap Delivered \subseteq Delivered' \cup {x}
    BY <2>1
  <2>3. dropped' = dropped + 1 /\ dropped' \in Nat
    BY <1>1, <1>2, <1>10
  <2> QED
    BY <1>1, <1>6, <1>7, <1>8, <2>2, <2>3, DeliveryKeeps
<1> QED
  BY <1>4, <1>9, <1>10

(* The end signal may push out a sample, which no one counts.              *)
LEMMA EndKeeps ==
    ASSUME TypeOK, Fate, EndScoring
    PROVE  Fate'
<1> USE DEF generation, training
<1> PICK q, E, F : /\ q = message_queue' /\ E = EntriesOf(message_queue)
                   /\ F = EntriesOf(message_queue')
  OBVIOUS
<1>1. /\ consumer = "end" /\ consumer' = "ended"
      /\ q = PutOn(message_queue, MaxRequired, None)
      /\ UNCHANGED <<taken, processor, inferring, scoring, finalizing, groups, reward_queue,
                     dropped, collected, trained>>
  BY DEF EndScoring
<1>2. None \notin E
  BY <1>1 DEF Fate, Signalled
<1>3. /\ None \notin finalizing /\ None \notin EntriesOf(collected) /\ None \notin trained
      /\ dropped \in Nat
  <2>1. collected \in Seq(Samples)
    BY DEF TypeOK
  <2>2. EntriesOf(collected) \subseteq Samples
    BY <2>1 DEF EntriesOf
  <2> QED
    BY <2>2, ResponsesFinite DEF TypeOK
<1>4. /\ Distinct(q)
      /\ \/ F = E \cup {None}
         \/ \E gone \in E : F = (E \ {gone}) \cup {None}
  <2>1. /\ message_queue \in Seq(Samples \cup {None}) /\ None \in Samples \cup {None}
        /\ Len(message_queue) <= MaxRequired /\ MaxRequired \in Nat \ {0}
        /\ Distinct(message_queue)
    BY DEF TypeOK, Fate, OneDelivery
  <2>2. None \notin EntriesOf(message_queue)
    BY <1>2
  <2> PICK r : r = PutOn(message_queue, MaxRequired, None)
    OBVIOUS
  <2>3. /\ Distinct(r)
        /\ \/ EntriesOf(r) = EntriesOf(message_queue) \cup {None}
           \/ \E gone \in EntriesOf(message_queue) :
                EntriesOf(r) = (EntriesOf(message_queue) \ {gone}) \cup {None}
    BY <2>1, <2>2, PutOnQueue
  <2>4. r = q /\ EntriesOf(r) = F
    BY <1>1
  <2> QED
    BY <2>3, <2>4
<1>5. F \subseteq E \cup {None} /\ \E x : E \subseteq F \cup {x}
  BY <1>4
<1>6. OneDelivery'
  BY <1>1, <1>3, <1>4, <1>5 DEF Fate, OneDelivery, Apart
<1>7. Signalled'
  BY <1>1 DEF Signalled
<1>8. Samples \cap Delivered' \subseteq Delivered
  BY <1>1, <1>5, ResponsesFinite DEF Delivered
<1>9. \E x : Samples \cap Delivered \subseteq Delivered' \cup {x}
  BY <1>1, <1>5 DEF Delivered
<1>10. consumer # "ended" /\ dropped' \in Nat /\ dropped' = dropped
  BY <1>1, <1>3
<1> QED
  BY <1>1, <1>6, <1>7, <1>8, <1>9, <1>10, DeliveryKeeps

LEMMA CollectKeeps ==
    ASSUME TypeOK, Fate, GetSample
    PROVE  Fate'
<1> USE DEF generation, rewards
<1> PICK h, q, E, F : /\ q = message_queue' /\ E = EntriesOf(message_queue)
                      /\ F = EntriesOf(message_queue') /\ h = Head(message_queue)
  OBVIOUS
<1> PICK C, D : C = EntriesOf(collected) /\ D = EntriesOf(collected')
  OBVIOUS
<1>1. /\ q = Tail(message_queue) /\ message_queue # <<>>
      /\ \/ h = None /\ collected' = collected
         \/ h # None /\ collected' = Append(collected, h)
      /\ UNCHANGED <<taken, processor, inferring, consumer, scoring, finalizing, groups,
                     reward_queue, dropped, trained>>
  BY DEF GetSample
<1>2. /\ message_queue \in Seq(Samples \cup {None}) /\ Distinct(message_queue)
      /\ collected \in Seq(Samples) /\ Distinct(collected) /\ dropped \in Nat
  BY DEF TypeOK, Fate, OneDelivery
<1>3. Distinct(q) /\ h \in E /\ h \in Samples \cup {None} /\ F = E \ {h}
  BY <1>1, <1>2, TailOfQueue
<1>4. h \notin C /\ h \notin finalizing /\ h \notin trained
  BY <1>3 DEF Fate, OneDelivery, Apart
<1>5. Distinct(collected') /\ D = IF h = None THEN C ELSE C \cup {h}
  <2>1. CASE h = None
    BY <1>1, <1>2, <2>1
  <2>2. CASE h # None
    <3>1. h \in Samples /\ collected' = Append(collected, h) /\ h \notin EntriesOf(collected)
      BY <1>1, <1>3, <1>4, <2>2
    <3>2. /\ EntriesOf(Append(collected, h)) = EntriesOf(collected) \cup {h}
          /\ Distinct(Append(collected, h))
      BY <1>2, <3>1, AppendToQueue
    <3> QED
      BY <2>2, <3>1, <3>2
  <2> QED
    BY <2>1, <2>2
<1>6. OneDelivery'
  BY <1>1, <1>3, <1>4, <1>5 DEF Fate, OneDelivery, Apart
<1>7. Signalled'
  BY <1>1, <1>3 DEF Fate, Signalled
<1>8. Samples \cap Delivered' \subseteq Delivered
  BY <1>1, <1>3, <1>5 DEF Delivered
<1>9. Samples \cap Delivered \subseteq Delivered'
  BY <1>1, <1>3, <1>5, ResponsesFinite DEF Delivered
<1>10. dropped' \in Nat /\ dropped' >= dropped /\ (consumer = "ended" => consumer' = "ended")
  BY <1>1, <1>2
<1> QED
  BY <1>1, <1>6, <1>7, <1>8, <1>9, <1>10, DeliveryKeeps

LEMMA TrainKeeps ==
    ASSUME TypeOK, Fate, TrainStep
    PROVE  Fate'
<1> USE DEF generation, rewards
<1>1. /\ trained' = trained \cup EntriesOf(collected) /\ collected' = <<>>
      /\ UNCHANGED <<taken, processor, inferring, consumer, scoring, finalizing, groups,
                     reward_queue, dropped, message_queue>>
  BY DEF TrainStep, EntriesOf
<1>2. EntriesOf(collected)' = {} /\ Distinct(collected)'
  BY <1>1 DEF EntriesOf, Distinct
<1>3. OneDelivery'
  BY <1>1, <1>2 DEF Fate, OneDelivery, Apart
<1>4. Signalled'
  BY <1>1 DEF Fate, Signalled
<1>5. Delivered' = Delivered
  BY <1>1, <1>2 DEF Delivered
<1>6. dropped' \in Nat /\ dropped' >= dropped /\ (consumer = "ended" => consumer' = "ended")
  BY <1>1 DEF TypeOK
<1> QED
  BY <1>1, <1>3, <1>4, <1>5, <1>6, DeliveryKeeps

LEMMA StepKeeps ==
    ASSUME TypeOK, Submitted, Fate, [Next]_vars
    PROVE  Fate'
<1> USE DEF generation, pauses, rewards, training
<1>1. CASE \/ CheckGeneration \/ PauseGeneration \/ ResumeGeneration \/ EndGeneration
           \/ (\E s \in Samples : TaskDone(s))
           \/ CheckScoring \/ PauseScoring \/ ResumeScoring
           \/ MonitorGeneration \/ MonitorScoring \/ ResetStaleness \/ UNCHANGED vars
  <2>1. /\ UNCHANGED <<taken, inferring, reward_queue, scoring, finalizing, groups,
                       message_queue, collected, trained, dropped>>
        /\ processor' = "submit" <=> processor = "submit"
        /\ consumer' = "ended" <=> consumer = "ended"
    BY <1>1 DEF CheckGeneration, PauseGeneration, ResumeGeneration, EndGeneration, TaskDone,
         CheckScoring, PauseScoring, ResumeScoring, MonitorGeneration, MonitorScoring,
         ResetStaleness, vars
  <2>2. \A s \in Samples : Begun(s)' <=> Begun(s)
    BY <2>1 DEF Begun
  <2> QED
    BY <2>1, <2>2, QuietKeeps
<1>2. CASE GetPending
  <2>1. /\ UNCHANGED <<inferring, reward_queue, scoring, finalizing, groups,
                       message_queue, collected, trained, dropped, consumer>>
        /\ processor = "get"
        /\ \/ taken' = taken + 1 /\ processor' = "submit"
           \/ taken' = taken /\ processor' = "end"
    BY <1>2 DEF GetPending
  <2>2. \A s \in Samples : Begun(s)' <=> Begun(s)
    BY <2>1 DEF Begun, Samples, TypeOK
  <2> QED
    BY <2>1, <2>2, QuietKeeps
<1>3. CASE GetResponse
  <2>1. /\ consumer = "get"
        /\ UNCHANGED <<taken, processor, inferring, finalizing, groups, message_queue,
                       collected, trained, dropped>>
        /\ \/ /\ reward_queue # <<>> /\ scoring' = scoring \cup {Head(reward_queue)}
              /\ reward_queue' = Tail(reward_queue) /\ consumer' = "check"
           \/ UNCHANGED <<scoring, reward_queue>> /\ consumer' = "end"
    BY <1>3 DEF GetResponse
  <2>2. CASE /\ reward_queue # <<>> /\ scoring' = scoring \cup {Head(reward_queue)}
             /\ reward_queue' = Tail(reward_queue) /\ consumer' = "check"
    BY <2>1, <2>2, TakeKeeps
  <2>3. CASE UNCHANGED <<scoring, reward_queue>> /\ consumer' = "end"
    BY <2>1, <2>3, QuietKeeps DEF Begun
  <2> QED
    BY <2>1, <2>2, <2>3
<1>4. CASE Processor
  BY <1>1, <1>2, <1>4, SubmitKeeps DEF Processor
<1>5. CASE Inference
  BY <1>1, <1>5, PutKeeps, FailsKeeps DEF Inference
<1>6. CASE Consumer
  BY <1>1, <1>3, <1>6 DEF Consumer
<1>7. CASE Scoring
  BY <1>7, ScoreKeeps, FinalizeKeeps, EndKeeps DEF Scoring
<1>8. CASE Trainer \/ MonitorGeneration \/ MonitorScoring
  BY <1>1, <1>8, CollectKeeps, TrainKeeps DEF Trainer
<1> QED
  BY <1>1, <1>4, <1>5, <1>6, <1>7, <1>8 DEF Next

LEMMA Inductive == Spec => []IInv
<1>1. IInv /\ [Next]_vars => IInv'
  <2> SUFFICES ASSUME IInv, [Next]_vars PROVE IInv'
    OBVIOUS
  <2>1. TypeOK /\ Submitted /\ Fate
    BY DEF IInv, Fate
  <2>2. TypeOK' /\ Submitted' /\ Fate'
    BY <2>1, StepTyped, StepKeeps
  <2> QED
    BY <2>2 DEF IInv, Fate
<1> QED
  BY <1>1, InitFate, PTL DEF Spec

-----------------------------------------------------------------------------
(* The theorems *)

(* The state keeps its types, and its limits: no more samples are active   *)
(* than max_concurrent_samples, no more rewards than their slots, and both *)
(* queues keep to their sizes (_processor_worker, _reward_consumer_worker, *)
(* MessageQueue.put_sample).                                               *)
THEOREM TypeCorrect == Spec => []TypeOK
<1>1. IInv => TypeOK
  BY DEF IInv
<1> QED
  BY <1>1, Inductive, PTL

(* Whatever fails and whatever queue is full, every sample is under way,   *)
(* delivered whole and once, or counted as lost (SampleAggregator,         *)
(* _finalize_sample, dropped_stale_samples).                               *)
THEOREM EverySampleHasOneFate == Spec => []OneFate
<1>1. IInv => OneFate
  BY InvariantIsFate
<1> QED
  BY <1>1, Inductive, PTL
=============================================================================
