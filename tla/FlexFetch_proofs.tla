-------------------------- MODULE FlexFetch_proofs --------------------------
(***************************************************************************)
(* Proofs about FlexFetch, for any number of ranks and versions and any    *)
(* cache of two versions or more. The cache of a rank is a run of          *)
(* consecutive versions, so that no two of them share a buffer: this is    *)
(* the inductive strengthening that CacheIntact and ReadOrEvicted need.    *)
(***************************************************************************)
EXTENDS FlexFetch, TLAPS

USE FlexFetchAssumption DEF worker

(* A cache whose newest version is last, and the versions it has.          *)
Consecutive(cache, last) ==
    /\ Len(cache) <= CacheSize
    /\ \A i \in 1 .. Len(cache) : cache[i] = last - Len(cache) + i

Begun(s) == write[s] # "wait"

CacheOrdered ==
    \A s \in Shards :
        /\ Begun(s) => Consecutive(weights_cache[s], next_version)
        /\ ~Begun(s) /\ ~raised => Consecutive(weights_cache[s], next_version - 1)

(* Whoever has begun a version, and all once a version was sent, has       *)
(* buffers; only versions that were sent are under way.                    *)
BuffersThere ==
    \A s \in Shards : Begun(s) \/ next_version > FirstVersion => buffers[s] # <<>>

SentBefore ==
    /\ \A s \in Shards : Begun(s) => next_version <= LastVersion
    /\ \A v \in Versions : stage[v] # "none" => v < next_version
    /\ \A m \in misread : m[1] < next_version

IInv == TypeOK /\ CacheOrdered /\ BuffersThere /\ SentBefore /\ CacheIntact /\ ReadOrEvicted

-----------------------------------------------------------------------------
(* Slots and caches *)

(* Versions less than a cache apart have different buffers.                *)
LEMMA DifferentSlots ==
    ASSUME NEW u \in Nat, NEW v \in Nat, u < v, v - u < CacheSize
    PROVE  Slot(u) # Slot(v)
<1>1. SUFFICES ASSUME u % CacheSize = v % CacheSize PROVE FALSE
    BY DEF Slot
<1> DEFINE a == u \div CacheSize
           b == v \div CacheSize
<1>2. /\ u = CacheSize * a + (u % CacheSize)
      /\ v = CacheSize * b + (v % CacheSize)
      /\ a \in Nat /\ b \in Nat
    OBVIOUS
<1>3. CacheSize * (b - a) = v - u
    BY <1>1, <1>2
<1>4. b > a
    BY <1>3, <1>2
<1>5. CacheSize * (b - a) >= CacheSize
    BY <1>4, <1>2
<1> QED
    BY <1>3, <1>5

LEMMA SlotInSlots == ASSUME NEW v \in Nat PROVE Slot(v) \in Slots
    BY DEF Slot, Slots

(* The versions of a cache are at most as far apart as it is large.        *)
LEMMA WithinCache ==
    ASSUME NEW cache \in Seq(Versions), NEW last \in Int, Consecutive(cache, last),
           NEW i \in DOMAIN cache
    PROVE  cache[i] <= last /\ last - cache[i] < CacheSize
<1>1. i \in 1 .. Len(cache)
    OBVIOUS
<1> QED
    BY <1>1 DEF Consecutive

(* What the next version finds when room was made for it.                  *)
LEMMA RoomMade ==
    ASSUME NEW cache \in Seq(Versions), NEW v \in Int, Consecutive(cache, v - 1)
    PROVE  /\ Evict(cache) \in Seq(Versions)
           /\ Len(Evict(cache)) < CacheSize
           /\ Consecutive(Evict(cache), v - 1)
           /\ \A i \in DOMAIN Evict(cache) :
                /\ \E j \in DOMAIN cache : Evict(cache)[i] = cache[j]
                /\ Evict(cache)[i] < v /\ v - Evict(cache)[i] < CacheSize
<1>1. CASE Len(cache) >= CacheSize
    <2>1. cache # <<>> /\ Evict(cache) = Tail(cache)
        BY <1>1 DEF Evict
    <2>2. /\ Tail(cache) \in Seq(Versions) /\ Len(Tail(cache)) = Len(cache) - 1
          /\ \A i \in 1 .. Len(Tail(cache)) : Tail(cache)[i] = cache[i + 1]
        BY <2>1
    <2>3. Len(cache) = CacheSize
        BY <1>1 DEF Consecutive
    <2>4. Consecutive(Tail(cache), v - 1)
        BY <2>2, <2>3 DEF Consecutive
    <2>5. ASSUME NEW i \in DOMAIN Tail(cache)
          PROVE  /\ \E j \in DOMAIN cache : Tail(cache)[i] = cache[j]
                 /\ Tail(cache)[i] < v /\ v - Tail(cache)[i] < CacheSize
        <3>1. i \in 1 .. Len(Tail(cache)) /\ i + 1 \in DOMAIN cache
            BY <2>2
        <3>2. Tail(cache)[i] = v - 1 - Len(Tail(cache)) + i
            BY <3>1, <2>4 DEF Consecutive
        <3> QED
            BY <3>1, <3>2, <2>2, <2>3
    <2> QED
        BY <2>1, <2>2, <2>3, <2>4, <2>5
<1>2. CASE Len(cache) < CacheSize
    <2>1. Evict(cache) = cache
        BY <1>2 DEF Evict
    <2>2. ASSUME NEW i \in DOMAIN cache
          PROVE  cache[i] < v /\ v - cache[i] < CacheSize
        <3>1. i \in 1 .. Len(cache)
            OBVIOUS
        <3> QED
            BY <3>1, <1>2 DEF Consecutive
    <2> QED
        BY <1>2, <2>1, <2>2
<1> QED
    BY <1>1, <1>2

(* A version written to a cache with room for it.                          *)
LEMMA VersionAdded ==
    ASSUME NEW cache \in Seq(Versions), NEW v \in Versions,
           Consecutive(cache, v - 1), Len(cache) < CacheSize
    PROVE  /\ Append(cache, v) \in Seq(Versions)
           /\ Consecutive(Append(cache, v), v)
           /\ \A i \in DOMAIN Append(cache, v) :
                Append(cache, v)[i] = v \/ \E j \in DOMAIN cache : Append(cache, v)[i] = cache[j]
<1>1. /\ Append(cache, v) \in Seq(Versions) /\ Len(Append(cache, v)) = Len(cache) + 1
      /\ \A i \in 1 .. Len(cache) : Append(cache, v)[i] = cache[i]
      /\ Append(cache, v)[Len(cache) + 1] = v
    OBVIOUS
<1>2. v \in Int
    BY DEF Versions
<1>3. Consecutive(Append(cache, v), v)
    <2> SUFFICES ASSUME NEW i \in 1 .. Len(cache) + 1
                 PROVE  Append(cache, v)[i] = v - (Len(cache) + 1) + i
        BY <1>1, <1>2 DEF Consecutive
    <2>1. CASE i = Len(cache) + 1
        BY <2>1, <1>1, <1>2
    <2>2. CASE i # Len(cache) + 1
        BY <2>2, <1>1, <1>2 DEF Consecutive
    <2> QED
        BY <2>1, <2>2
<1>4. ASSUME NEW i \in DOMAIN Append(cache, v), i # Len(cache) + 1
      PROVE  \E j \in DOMAIN cache : Append(cache, v)[i] = cache[j]
    <2>1. i \in 1 .. Len(cache)
        BY <1>4, <1>1
    <2> QED
        BY <2>1, <1>1
<1> QED
    BY <1>1, <1>3, <1>4

-----------------------------------------------------------------------------
(* The invariant *)

LEMMA InitHolds == Init => IInv
<1> SUFFICES ASSUME Init PROVE IInv
    OBVIOUS
<1>1. TypeOK
    <2>1. Initial \in Contents /\ FirstVersion \in FirstVersion .. LastVersion + 1 /\ 1 \in Shards
        BY DEF Contents, Shards
    <2>2. /\ weights_cache \in [Shards -> Seq(Versions)]
          /\ buffers \in [Shards -> {<<>>} \cup [Slots -> Contents]]
        <3>1. <<>> \in Seq(Versions)
            OBVIOUS
        <3> QED
            BY <3>1 DEF Init
    <2>3. /\ stage \in [Versions -> {"none", "pause", "lock", "build", "ask", "read",
                                     "resume", "done", "failed", "stuck"}]
          /\ shard \in [Versions -> Shards]
          /\ write \in [Shards -> {"wait", "copy", "written"}]
          /\ weights \in [Shards -> Contents] /\ model \in [Shards -> Contents]
        BY <2>1 DEF Init
    <2> QED
        BY <2>1, <2>2, <2>3 DEF Init, TypeOK
<1>2. CacheOrdered /\ BuffersThere /\ SentBefore /\ ReadOrEvicted
    BY DEF Init, CacheOrdered, BuffersThere, SentBefore, ReadOrEvicted, Consecutive, Begun
<1>3. CacheIntact
    BY DEF Init, CacheIntact, CachedBy
<1> QED
    BY <1>1, <1>2, <1>3 DEF IInv

(* Steps that touch neither the caches nor what has been sent.             *)
LEMMA TrainerUnchanged ==
    ASSUME IInv, UNCHANGED trainer, UNCHANGED misread,
           \A v \in Versions : stage'[v] # "none" => v < next_version
    PROVE  (CacheOrdered /\ BuffersThere /\ SentBefore /\ CacheIntact /\ ReadOrEvicted)'
BY DEF IInv, trainer, CacheOrdered, BuffersThere, SentBefore, CacheIntact, ReadOrEvicted,
       Begun, CachedBy

LEMMA BeginWriteKeeps ==
    ASSUME IInv, NEW s \in Shards, BeginWrite(s)
    PROVE  IInv'
<1> DEFINE v == next_version
           old == weights_cache[s]
           new == Append(Evict(old), v)
           held == IF v = 0 THEN [i \in Slots |-> Torn] ELSE buffers[s]
<1>1. /\ v \in Versions /\ v \in Nat /\ ~raised /\ write[s] = "wait"
      /\ old \in Seq(Versions) /\ Consecutive(old, v - 1)
    BY DEF IInv, TypeOK, BeginWrite, CacheOrdered, Begun, Versions
<1>2. /\ Evict(old) \in Seq(Versions) /\ Len(Evict(old)) < CacheSize
      /\ Consecutive(Evict(old), v - 1)
      /\ \A i \in DOMAIN Evict(old) :
            /\ \E j \in DOMAIN old : Evict(old)[i] = old[j]
            /\ Evict(old)[i] < v /\ v - Evict(old)[i] < CacheSize
    <2> HIDE DEF old, v
    <2>1. v \in Int /\ old \in Seq(Versions) /\ Consecutive(old, v - 1)
        BY <1>1
    <2> QED
        BY ONLY <2>1, RoomMade, FlexFetchAssumption
<1>3. /\ new \in Seq(Versions) /\ Consecutive(new, v)
      /\ \A i \in DOMAIN new : new[i] = v \/ \E j \in DOMAIN Evict(old) : new[i] = Evict(old)[j]
    BY <1>1, <1>2, VersionAdded
<1>4. /\ weights_cache' = [weights_cache EXCEPT ![s] = new]
      /\ raised' = (held = <<>>)
      /\ buffers' = [buffers EXCEPT ![s] = IF raised' THEN @ ELSE [held EXCEPT ![Slot(v)] = Torn]]
      /\ write' = [write EXCEPT ![s] = IF raised' THEN "wait" ELSE "copy"]
      /\ UNCHANGED <<next_version, worker, update, weights, forward, pending_version, history>>
    BY DEF BeginWrite
<1>5. Slot(v) \in Slots /\ held \in {<<>>} \cup [Slots -> Contents] /\ Torn \in Contents
    BY <1>1, SlotInSlots DEF IInv, TypeOK, Contents
<1>6. ~raised' => held \in [Slots -> Contents]
    BY <1>4, <1>5
<1>7. buffers'[s] \in {<<>>} \cup [Slots -> Contents] /\ (~raised' => buffers'[s] # <<>>)
    <2>1. CASE raised'
        BY <2>1, <1>4 DEF IInv, TypeOK
    <2>2. CASE ~raised'
        <3>1. buffers'[s] = [held EXCEPT ![Slot(v)] = Torn]
            BY <2>2, <1>4 DEF IInv, TypeOK
        <3>2. buffers'[s] \in [Slots -> Contents]
            BY <3>1, <2>2, <1>5, <1>6
        <3>3. buffers'[s][Slot(v)] = Torn
            BY <3>1, <2>2, <1>5, <1>6
        <3>4. Slot(v) \in DOMAIN buffers'[s] /\ DOMAIN <<>> = {}
            BY <3>2, <1>5
        <3> QED
            BY <3>2, <3>4
    <2> QED
        BY <2>1, <2>2
<1>8. TypeOK'
    BY <1>3, <1>4, <1>7 DEF IInv, TypeOK, update, forward, history
<1>9. CacheOrdered'
    BY <1>3, <1>4, <1>1 DEF IInv, TypeOK, CacheOrdered, Begun
<1>10. BuffersThere'
    BY <1>4, <1>7, <1>1 DEF IInv, TypeOK, BuffersThere, Begun
<1>11. SentBefore'
    BY <1>4, <1>1 DEF IInv, TypeOK, SentBefore, Begun, update, history, Versions
<1>12. CacheIntact'
    <2> SUFFICES ASSUME NEW t \in Shards, NEW u \in CachedBy(t)',
                        (u # next_version \/ write[t] = "written")'
                 PROVE  buffers'[t][Slot(u)] = u
        BY DEF CacheIntact
    <2>1. CASE t # s
        BY <2>1, <1>4 DEF IInv, TypeOK, CacheIntact, CachedBy
    <2>2. CASE t = s
        <3>1. u # v
            BY <2>2, <1>4 DEF IInv, TypeOK
        <3>2. PICK i \in DOMAIN new : u = new[i]
            BY <2>2, <1>4 DEF IInv, TypeOK, CachedBy
        <3>3. PICK j \in DOMAIN Evict(old) : u = Evict(old)[j]
            BY <3>1, <3>2, <1>3
        <3>4. u \in CachedBy(s) /\ u < v /\ v - u < CacheSize
            BY <3>3, <1>2 DEF CachedBy
        <3>5. u \in Versions /\ u \in Nat
            BY <3>4, <1>1, SMTT(30) DEF CachedBy, Versions
        <3>6. buffers[s][Slot(u)] = u
            BY <3>1, <3>4 DEF IInv, CacheIntact
        <3>7. Slot(u) # Slot(v) /\ Slot(u) \in Slots
            BY <3>4, <3>5, <1>1, DifferentSlots, SlotInSlots
        <3>8. v # 0
            BY <3>4, <3>5
        <3>9. CASE raised'
            BY <3>6, <3>9, <2>2, <1>4 DEF IInv, TypeOK
        <3>10. CASE ~raised'
            <4>1. buffers'[s] = [buffers[s] EXCEPT ![Slot(v)] = Torn]
                BY <3>10, <3>8, <1>4 DEF IInv, TypeOK
            <4>2. buffers[s] \in [Slots -> Contents]
                BY <3>10, <3>8, <1>6
            <4> QED
                BY <4>1, <4>2, <3>6, <3>7, <2>2
        <3> QED
            BY <3>9, <3>10
    <2> QED
        BY <2>1, <2>2
<1>13. ReadOrEvicted'
    <2> SUFFICES ASSUME NEW m \in misread, m[1] \in CachedBy(m[2])' PROVE FALSE
        BY <1>4 DEF ReadOrEvicted, history
    <2>1. m \in Versions \X Shards /\ m[1] < v /\ m[1] \notin CachedBy(m[2])
        BY DEF IInv, TypeOK, SentBefore, ReadOrEvicted
    <2>2. m[2] = s
        BY <2>1, <1>4 DEF IInv, TypeOK, CachedBy
    <2>3. PICK i \in DOMAIN new : m[1] = new[i]
        BY <2>2, <1>4 DEF IInv, TypeOK, CachedBy
    <2>4. m[1] # v
        BY <2>1, <1>1 DEF Versions
    <2>5. m[1] \in CachedBy(s)
        BY <2>3, <2>4, <1>2, <1>3 DEF CachedBy
    <2> QED
        BY <2>1, <2>2, <2>5
<1> QED
    BY <1>8, <1>9, <1>10, <1>11, <1>12, <1>13 DEF IInv

LEMMA EndWriteKeeps ==
    ASSUME IInv, NEW s \in Shards, EndWrite(s)
    PROVE  IInv'
<1> DEFINE v == next_version
<1>1. /\ v \in Versions /\ v \in Nat /\ write[s] = "copy" /\ Begun(s)
      /\ weights_cache[s] \in Seq(Versions) /\ Consecutive(weights_cache[s], v)
    BY DEF IInv, TypeOK, EndWrite, CacheOrdered, SentBefore, Begun, Versions
<1>2. buffers[s] \in [Slots -> Contents] /\ Slot(v) \in Slots /\ v \in Contents
    BY <1>1, SlotInSlots DEF IInv, TypeOK, BuffersThere, Contents
<1>3. /\ buffers' = [buffers EXCEPT ![s] = [buffers[s] EXCEPT ![Slot(v)] = v]]
      /\ write' = [write EXCEPT ![s] = "written"]
      /\ UNCHANGED <<next_version, weights_cache, raised, worker, update, weights, forward,
                     pending_version, history>>
    BY DEF EndWrite
<1>4. /\ buffers'[s] = [buffers[s] EXCEPT ![Slot(v)] = v]
      /\ buffers'[s] \in [Slots -> Contents]
      /\ \A t \in Shards \ {s} : buffers'[t] = buffers[t] /\ write'[t] = write[t]
    BY <1>2, <1>3 DEF IInv, TypeOK
<1>5. TypeOK'
    BY <1>2, <1>3, <1>4 DEF IInv, TypeOK, update, forward, history
<1>6. CacheOrdered'
    BY <1>1, <1>3 DEF IInv, TypeOK, CacheOrdered, Begun
<1>7. BuffersThere'
    <2>1. buffers'[s] # <<>>
        BY <1>2, <1>4
    <2> QED
        BY <2>1, <1>3, <1>4 DEF IInv, TypeOK, BuffersThere, Begun
<1>8. SentBefore'
    BY <1>1, <1>3 DEF IInv, TypeOK, SentBefore, Begun, update, history, Versions
<1>9. CacheIntact'
    <2> SUFFICES ASSUME NEW t \in Shards, NEW u \in CachedBy(t)',
                        (u # next_version \/ write[t] = "written")'
                 PROVE  buffers'[t][Slot(u)] = u
        BY DEF CacheIntact
    <2>1. u \in CachedBy(t)
        BY <1>3 DEF CachedBy
    <2>2. CASE t # s
        BY <2>1, <2>2, <1>3, <1>4 DEF IInv, CacheIntact
    <2>3. CASE t = s /\ u = v
        BY <2>3, <1>2, <1>4
    <2>4. CASE t = s /\ u # v
        <3>1. PICK i \in DOMAIN weights_cache[s] : u = weights_cache[s][i]
            BY <2>1, <2>4 DEF CachedBy
        <3>2. u \in Versions /\ u \in Nat
            BY <3>1, <1>1 DEF Versions
        <3>3. u <= v /\ v - u < CacheSize
            BY <3>1, <1>1, WithinCache
        <3>4. Slot(u) # Slot(v) /\ Slot(u) \in Slots
            BY <3>2, <3>3, <2>4, <1>1, DifferentSlots, SlotInSlots
        <3>5. buffers[s][Slot(u)] = u
            BY <2>1, <2>4 DEF IInv, CacheIntact
        <3> QED
            BY <3>4, <3>5, <2>4, <1>2, <1>4
    <2> QED
        BY <2>2, <2>3, <2>4
<1>10. ReadOrEvicted'
    BY <1>3 DEF IInv, ReadOrEvicted, CachedBy, history
<1> QED
    BY <1>5, <1>6, <1>7, <1>8, <1>9, <1>10 DEF IInv

LEMMA SubmitKeeps == ASSUME IInv, Submit PROVE IInv'
<1> DEFINE v == next_version
<1>1. /\ \A s \in Shards : write[s] = "written" /\ Begun(s)
      /\ 1 \in Shards
    BY DEF Submit, Begun, Shards
<1>2. /\ v \in Versions /\ v \in Nat /\ v + 1 \in FirstVersion .. LastVersion + 1
    BY <1>1 DEF IInv, TypeOK, SentBefore, Versions
<1>3. /\ next_version' = v + 1 /\ write' = [s \in Shards |-> "wait"]
      /\ stage' = [stage EXCEPT ![v] = "pause"]
      /\ overlapped' \in BOOLEAN
      /\ UNCHANGED <<weights_cache, buffers, raised, worker, shard, paused, event_loop,
                     weights, forward, pending_version, misread>>
    BY DEF Submit, IInv, TypeOK
<1>4. TypeOK'
    BY <1>2, <1>3 DEF IInv, TypeOK, forward
<1>5. CacheOrdered'
    BY <1>1, <1>2, <1>3 DEF IInv, TypeOK, CacheOrdered, Begun
<1>6. BuffersThere'
    BY <1>1, <1>2, <1>3 DEF IInv, BuffersThere, Begun
<1>7. SentBefore'
    <2>1. \A u \in Versions : stage'[u] # "none" => u < v + 1
        BY <1>2, <1>3 DEF IInv, TypeOK, SentBefore, Versions
    <2>2. \A m \in misread : m[1] < v + 1
        BY <1>2 DEF IInv, TypeOK, SentBefore, Versions
    <2> QED
        BY <2>1, <2>2, <1>3 DEF SentBefore, Begun
<1>8. CacheIntact'
    BY <1>1, <1>3 DEF IInv, CacheIntact, CachedBy
<1>9. ReadOrEvicted'
    BY <1>3 DEF IInv, ReadOrEvicted, CachedBy
<1> QED
    BY <1>4, <1>5, <1>6, <1>7, <1>8, <1>9 DEF IInv

(* What is read is the version, as long as it is in the cache.             *)
LEMMA ReadKeeps ==
    ASSUME IInv, NEW v \in Versions, Read(v)
    PROVE  IInv'
<1> DEFINE s == shard[v]
           content == buffers[s][Slot(v)]
<1>1. /\ s \in Shards /\ v \in Nat /\ v < next_version /\ stage[v] = "read"
    BY DEF IInv, TypeOK, Read, SentBefore, Versions
<1>2. content \in Contents
    <2>1. next_version > FirstVersion
        BY <1>1 DEF IInv, TypeOK, Versions
    <2>2. buffers[s] \in [Slots -> Contents]
        BY <1>1, <2>1 DEF IInv, TypeOK, BuffersThere
    <2> QED
        BY <1>1, <2>2, SlotInSlots
<1>3. content # v => v \notin CachedBy(s)
    BY <1>1 DEF IInv, CacheIntact
<1>4. /\ weights' = [weights EXCEPT ![s] = content]
      /\ misread' \subseteq misread \cup {<<v, s>>}
      /\ <<v, s>> \in misread' => <<v, s>> \in misread \/ content # v
      /\ UNCHANGED <<trainer, worker, paused, event_loop, forward, pending_version, overlapped>>
    BY DEF Read
<1>5. /\ stage' \in [Versions -> {"none", "pause", "lock", "build", "ask", "read",
                                   "resume", "done", "failed", "stuck"}]
      /\ shard' \in [Versions -> Shards]
      /\ \A u \in Versions : stage'[u] # "none" => u < next_version
    BY <1>1, SMTT(30) DEF Read, IInv, TypeOK, SentBefore, Shards
<1>6. TypeOK'
    BY <1>1, <1>2, <1>4, <1>5, SMTT(30) DEF IInv, TypeOK, trainer, forward
<1>7. (CacheOrdered /\ BuffersThere /\ CacheIntact)'
    BY <1>4 DEF IInv, trainer, CacheOrdered, BuffersThere, CacheIntact, Begun, CachedBy
<1>8. SentBefore'
    BY <1>1, <1>4, <1>5 DEF IInv, trainer, SentBefore, Begun
<1>9. ReadOrEvicted'
    BY <1>3, <1>4 DEF IInv, ReadOrEvicted, trainer, CachedBy
<1> QED
    BY <1>6, <1>7, <1>8, <1>9 DEF IInv

(* The other steps of an update, and the loop of the forward worker.       *)
LEMMA UpdateKeeps ==
    ASSUME IInv, NEW v \in Versions,
           PauseReplica(v) \/ CallPause(v) \/ PauseForward(v) \/ BuildProcessGroup(v)
           \/ Ask(v) \/ ResumeReplica(v) \/ ResumeForward(v)
    PROVE  IInv'
<1>1. stage[v] # "none"
    BY DEF PauseReplica, CallPause, PauseForward, BuildProcessGroup, Ask, ResumeReplica,
       ResumeForward, MayPause
<1>2. /\ UNCHANGED trainer /\ UNCHANGED <<worker, shard, weights, forward, history>>
      /\ \/ \E where \in {"build", "ask", "lock", "read", "failed", "stuck", "done"} :
               stage' = [stage EXCEPT ![v] = where]
         \/ \E u \in Versions : /\ stage[u] \in {"ask", "read"}
                               /\ stage' = [stage EXCEPT ![u] = "stuck", ![v] = "stuck"]
      /\ paused' \in BOOLEAN /\ event_loop' \in Versions \cup {Nobody}
      /\ pending_version' \in Versions \cup {Initial}
    BY DEF IInv, TypeOK, PauseReplica, CallPause, PauseForward, BuildProcessGroup, Ask,
       ResumeReplica, ResumeForward
<1>3. TypeOK'
    BY <1>2, ZenonT(60) DEF IInv, TypeOK, trainer, forward, history
<1>4. \A u \in Versions : stage'[u] # "none" => u < next_version
    BY <1>1, <1>2 DEF IInv, TypeOK, SentBefore
<1>5. UNCHANGED misread
    BY <1>2 DEF history
<1> QED
    BY <1>2, <1>3, <1>4, <1>5, TrainerUnchanged DEF IInv

LEMMA LoopKeeps == ASSUME IInv, Loop PROVE IInv'
<1>1. /\ UNCHANGED trainer /\ UNCHANGED <<worker, update, pending_version, history>>
      /\ loop' \in {"out", "begin", "batch", "clear", "compute"}
      /\ active_version' \in Versions \cup {Initial}
    BY DEF Loop, TakeLock, FetchBatch, LoadModel, ClearStateDict, Compute, IInv, TypeOK
<1>2. weights' \in [Shards -> Contents] /\ model' \in [Shards -> Contents]
    BY DEF Loop, TakeLock, FetchBatch, LoadModel, ClearStateDict, Compute, IInv, TypeOK, Contents
<1>3. TypeOK'
    BY <1>1, <1>2 DEF IInv, TypeOK, trainer, update, history
<1>4. /\ UNCHANGED misread
      /\ \A u \in Versions : stage'[u] # "none" => u < next_version
    BY <1>1 DEF IInv, SentBefore, update, history
<1> QED
    BY <1>1, <1>3, <1>4, TrainerUnchanged DEF IInv

LEMMA StepKeeps == IInv /\ [Next]_vars => IInv'
<1> SUFFICES ASSUME IInv, [Next]_vars PROVE IInv'
    OBVIOUS
<1>1. CASE Trainer
    BY <1>1, BeginWriteKeeps, EndWriteKeeps, SubmitKeeps DEF Trainer
<1>2. CASE \E v \in Versions : Update(v)
    BY <1>2, ReadKeeps, UpdateKeeps DEF Update
<1>3. CASE Loop
    BY <1>3, LoopKeeps
<1>4. CASE UNCHANGED vars
    <2>1. UNCHANGED <<trainer, worker, update, weights, forward, pending_version, history>>
        BY <1>4 DEF vars
    <2>2. TypeOK'
        BY <2>1 DEF IInv, TypeOK, trainer, update, forward, history
    <2>3. UNCHANGED misread /\ \A u \in Versions : stage'[u] # "none" => u < next_version
        BY <2>1 DEF IInv, SentBefore, update, history
    <2> QED
        BY <2>1, <2>2, <2>3, TrainerUnchanged DEF IInv
<1> QED
    BY <1>1, <1>2, <1>3, <1>4 DEF Next

LEMMA Invariant == Spec => []IInv
<1> QED
    BY InitHolds, StepKeeps, PTL DEF Spec

-----------------------------------------------------------------------------
(* The variables have their types, for any number of ranks and versions.   *)
THEOREM TypeCorrect == Spec => []TypeOK
<1>1. IInv => TypeOK
    BY DEF IInv
<1> QED
    BY <1>1, Invariant, PTL

(* Eviction and the reuse of buffers go together: what a rank's cache      *)
(* still has is whole, and a worker that reads something else than the     *)
(* version it asked for reads one that has been dropped since              *)
(* (send_weights, get_versioned_sub_buffer, receive_weights).              *)
THEOREM CacheIsKept == Spec => []CacheKept
<1>1. IInv => CacheKept
    BY DEF IInv, CacheKept
<1> QED
    BY <1>1, Invariant, PTL

-----------------------------------------------------------------------------
(* Updates that do not overlap *)

(* The version sent last is in every cache.                                *)
Recent ==
    \A s \in Shards :
        /\ Begun(s) => next_version \in CachedBy(s)
        /\ next_version > FirstVersion => next_version - 1 \in CachedBy(s)

Applying == {v \in Versions : stage[v] \in {"build", "ask", "read", "resume"}}

(* There is one update at a time, that of the version sent last: it finds  *)
(* the version and reads shard after shard of it, with the worker paused.  *)
OneAtATime ==
    /\ \A v \in UnderWay : v = next_version - 1
    /\ \A v \in Versions : stage[v] \notin {"failed", "stuck"}
    /\ paused <=> Applying # {}
    /\ \A v \in Versions :
          /\ stage[v] \in {"none", "pause", "lock", "build"} => shard[v] = 1
          /\ stage[v] \in {"ask", "read"} => \A s \in Shards : s < shard[v] => weights[s] = v
          /\ stage[v] = "resume" => Whole(weights, v)

ReplicaAgrees ==
    kind = "replica" => loop = "out" /\ (~paused => Whole(weights, Newest))

(* What the forward worker has not loaded is in its _state_dict, and it    *)
(* loads and computes only when it is not paused.                          *)
ForwardAgrees ==
    kind = "forward" =>
        /\ pending_version = Newest
        /\ pending_version # Initial => stage[pending_version] = "done"
        /\ active_version <= pending_version
        /\ active_version = pending_version => Whole(model, active_version)
        /\ ~paused /\ active_version # pending_version => Whole(weights, pending_version)
        /\ loop \in {"batch", "clear", "compute"} => ~paused
        /\ loop = "clear" => Whole(model, pending_version)
        /\ loop = "compute" => active_version = pending_version

InTurn == ~overlapped => OneAtATime /\ ReplicaAgrees /\ ForwardAgrees

LEMMA LastOfCache ==
    ASSUME NEW cache \in Seq(Versions), NEW last \in Int, Consecutive(cache, last),
           cache # <<>>
    PROVE  Len(cache) \in DOMAIN cache /\ cache[Len(cache)] = last
<1>1. Len(cache) \in 1 .. Len(cache)
    OBVIOUS
<1> QED
    BY <1>1 DEF Consecutive

LEMMA BeginWriteRecent ==
    ASSUME IInv, Recent, NEW s \in Shards, BeginWrite(s)
    PROVE  Recent'
<1> DEFINE v == next_version
           old == weights_cache[s]
           new == Append(Evict(old), v)
<1>1. /\ v \in Nat /\ old \in Seq(Versions) /\ Consecutive(old, v - 1) /\ v \in Versions
      /\ v > FirstVersion => v - 1 \in CachedBy(s)
    BY DEF IInv, TypeOK, BeginWrite, CacheOrdered, Begun, Recent, Versions
<1>2. /\ weights_cache' = [weights_cache EXCEPT ![s] = new]
      /\ UNCHANGED next_version
      /\ \A t \in Shards \ {s} : write'[t] = write[t]
    BY DEF BeginWrite, IInv, TypeOK
<1>3. /\ CachedBy(s)' = {new[i] : i \in DOMAIN new}
      /\ \A t \in Shards \ {s} : CachedBy(t)' = CachedBy(t)
    BY <1>2 DEF CachedBy, IInv, TypeOK
<1>4. v \in {new[i] : i \in DOMAIN new}
    <2>1. Evict(old) \in Seq(Versions)
        BY <1>1 DEF Evict
    <2>2. Len(Evict(old)) + 1 \in DOMAIN new /\ new[Len(Evict(old)) + 1] = v
        BY <1>1, <2>1
    <2> QED
        BY <2>2
<1>5. ASSUME v > FirstVersion PROVE v - 1 \in {new[i] : i \in DOMAIN new}
    <2>1. old # <<>>
        BY <1>1, <1>5 DEF CachedBy
    <2>2. Len(old) \in DOMAIN old /\ old[Len(old)] = v - 1
        BY <1>1, <2>1, LastOfCache
    <2>3. CASE Len(old) >= CacheSize
        <3>1. /\ Evict(old) = Tail(old) /\ Tail(old) \in Seq(Versions)
              /\ Len(Tail(old)) = Len(old) - 1
              /\ \A i \in 1 .. Len(old) - 1 : Tail(old)[i] = old[i + 1]
            BY <1>1, <2>1, <2>3 DEF Evict
        <3>2. Len(old) - 1 \in 1 .. Len(Tail(old)) /\ Tail(old)[Len(old) - 1] = v - 1
            BY <1>1, <2>2, <2>3, <3>1
        <3>3. Len(old) - 1 \in DOMAIN new /\ new[Len(old) - 1] = v - 1
            BY <1>1, <3>1, <3>2
        <3> QED
            BY <3>3
    <2>4. CASE ~(Len(old) >= CacheSize)
        <3>1. Evict(old) = old
            BY <2>4 DEF Evict
        <3>2. Len(old) \in DOMAIN new /\ new[Len(old)] = v - 1
            BY <1>1, <2>2, <3>1
        <3> QED
            BY <3>2
    <2> QED
        BY <2>3, <2>4
<1> QED
    BY <1>2, <1>3, <1>4, <1>5 DEF Recent, Begun

LEMMA RecentKept == IInv /\ Recent /\ [Next]_vars => Recent'
<1> SUFFICES ASSUME IInv, Recent, [Next]_vars PROVE Recent'
    OBVIOUS
<1>1. ASSUME NEW s \in Shards, EndWrite(s) PROVE Recent'
    <2>1. /\ UNCHANGED <<next_version, weights_cache>>
          /\ \A t \in Shards : Begun(t)' => Begun(t)
        BY <1>1 DEF EndWrite, Begun, IInv, TypeOK
    <2> QED
        BY <2>1 DEF Recent, CachedBy
<1>2. CASE Submit
    <2>1. /\ \A s \in Shards : Begun(s) /\ ~Begun(s)'
          /\ next_version' = next_version + 1 /\ UNCHANGED weights_cache
        BY <1>2 DEF Submit, Begun
    <2>2. next_version \in Int /\ next_version' - 1 = next_version
        BY <2>1 DEF IInv, TypeOK
    <2>3. \A s \in Shards : CachedBy(s)' = CachedBy(s)
        BY <2>1 DEF CachedBy
    <2> QED
        BY <2>1, <2>2, <2>3 DEF Recent
<1>3. ASSUME UNCHANGED <<next_version, write, weights_cache>> PROVE Recent'
    BY <1>3 DEF Recent, Begun, CachedBy
<1>4. CASE \E v \in Versions : Update(v)
    BY <1>3, <1>4 DEF Update, PauseReplica, ResumeReplica, CallPause, PauseForward,
       BuildProcessGroup, ResumeForward, Ask, Read, trainer
<1>5. CASE Loop
    BY <1>3, <1>5 DEF Loop, TakeLock, FetchBatch, LoadModel, ClearStateDict, Compute, trainer
<1>6. CASE UNCHANGED vars
    BY <1>3, <1>6 DEF vars, trainer
<1> QED
    BY <1>1, <1>2, <1>4, <1>5, <1>6, BeginWriteRecent DEF Next, Trainer

(* The newest version, while no update ends and when one does.             *)
LEMMA NewestKept ==
    ASSUME {v \in Versions : stage'[v] = "done"} = {v \in Versions : stage[v] = "done"}
    PROVE  Newest' = Newest
<1> DEFINE N(done) == IF done = {} THEN Initial ELSE CHOOSE v \in done : \A u \in done : u <= v
<1>1. /\ Newest = N({v \in Versions : stage[v] = "done"})
      /\ Newest' = N({v \in Versions : stage'[v] = "done"})
    BY DEF Newest
<1> HIDE DEF N
<1>2. N({v \in Versions : stage'[v] = "done"}) = N({v \in Versions : stage[v] = "done"})
    BY Zenon
<1> QED
    BY <1>1, <1>2

LEMMA NewestIs ==
    ASSUME NEW v \in Versions, stage'[v] = "done",
           \A u \in Versions : stage'[u] = "done" => u <= v
    PROVE  Newest' = v
<1> DEFINE done == {u \in Versions : stage'[u] = "done"}
<1>1. v \in done /\ \A u \in done : u <= v
    OBVIOUS
<1>2. Newest' = CHOOSE x \in done : \A u \in done : u <= x
    BY <1>1 DEF Newest
<1>3. \A x \in done : (\A u \in done : u <= x) => x = v
    BY <1>1 DEF Versions
<1> QED
    BY <1>1, <1>2, <1>3

(* An update that goes on leaves the one that is pending alone.            *)
LEMMA PendingKept ==
    ASSUME IInv, ForwardAgrees, NEW v \in Versions, stage[v] # "done",
           \A u \in Versions \ {v} : stage'[u] = stage[u],
           UNCHANGED <<worker, pending_version>>
    PROVE  kind = "forward" /\ pending_version # Initial => stage'[pending_version] = "done"
<1> SUFFICES ASSUME kind = "forward", pending_version # Initial
             PROVE  stage'[pending_version] = "done"
    OBVIOUS
<1>1. stage[pending_version] = "done" /\ pending_version \in Versions
    BY DEF ForwardAgrees, IInv, TypeOK
<1> QED
    BY <1>1

LEMMA InitInTurn == Init => Recent /\ InTurn
<1> SUFFICES ASSUME Init PROVE Recent /\ InTurn
    OBVIOUS
<1>1. Recent
    BY DEF Init, Recent, Begun
<1>2. Newest = Initial
    BY DEF Init, Newest
<1>3. OneAtATime
    BY DEF Init, OneAtATime, UnderWay, Applying
<1>4. ReplicaAgrees /\ ForwardAgrees
    BY <1>2 DEF Init, ReplicaAgrees, ForwardAgrees, Whole, Initial
<1> QED
    BY <1>1, <1>3, <1>4 DEF InTurn

LEMMA UnchangedInTurn ==
    ASSUME InTurn,
           UNCHANGED <<next_version, worker, update, weights, forward, pending_version,
                       overlapped>>
    PROVE  InTurn'
BY DEF InTurn, update, forward, OneAtATime, UnderWay, Applying, Whole, ReplicaAgrees,
       ForwardAgrees, Newest

LEMMA SubmitInTurn ==
    ASSUME IInv, InTurn, Submit
    PROVE  InTurn'
<1> SUFFICES ASSUME ~overlapped' PROVE (OneAtATime /\ ReplicaAgrees /\ ForwardAgrees)'
    BY DEF InTurn
<1> DEFINE v == next_version
<1>1. /\ 1 \in Shards /\ \A s \in Shards : Begun(s)
    BY DEF Submit, Begun, Shards
<1>2. v \in Versions /\ v \in Int /\ stage[v] = "none"
    BY <1>1 DEF IInv, TypeOK, SentBefore, Versions
<1>3. /\ next_version' = v + 1 /\ stage' = [stage EXCEPT ![v] = "pause"]
      /\ ~overlapped /\ UnderWay = {}
      /\ UNCHANGED <<worker, shard, paused, event_loop, weights, forward, pending_version>>
    BY DEF Submit, IInv, TypeOK
<1>4. OneAtATime /\ ReplicaAgrees /\ ForwardAgrees
    BY <1>3 DEF InTurn
<1>5. stage'[v] = "pause" /\ \A u \in Versions \ {v} : stage'[u] = stage[u]
    BY <1>2, <1>3 DEF IInv, TypeOK
<1>6. Newest' = Newest /\ Applying' = Applying
    <2>1. {u \in Versions : stage'[u] = "done"} = {u \in Versions : stage[u] = "done"}
        BY <1>2, <1>5
    <2> QED
        BY <1>2, <1>5, <2>1, NewestKept DEF Applying
<1>7. UnderWay' = {v} /\ next_version' - 1 = v
    BY <1>2, <1>3, <1>5 DEF UnderWay
<1>8. OneAtATime'
    BY <1>2, <1>3, <1>4, <1>5, <1>6, <1>7 DEF OneAtATime, Whole
<1>9. ReplicaAgrees' /\ ForwardAgrees'
    BY <1>2, <1>3, <1>4, <1>5, <1>6 DEF ReplicaAgrees, ForwardAgrees, Whole, forward
<1> QED
    BY <1>8, <1>9

LEMMA PauseInTurn ==
    ASSUME IInv, InTurn, NEW v \in Versions,
           PauseReplica(v) \/ CallPause(v) \/ PauseForward(v)
    PROVE  InTurn'
<1> SUFFICES ASSUME ~overlapped' PROVE (OneAtATime /\ ReplicaAgrees /\ ForwardAgrees)'
    BY DEF InTurn
<1>1. /\ UNCHANGED <<next_version, worker, shard, weights, forward, pending_version>>
      /\ ~overlapped
    BY DEF PauseReplica, CallPause, PauseForward, trainer, history
<1>2. OneAtATime /\ ReplicaAgrees /\ ForwardAgrees
    BY <1>1 DEF InTurn
<1>3. /\ stage[v] \in {"pause", "lock"} /\ stage'[v] \in {"build", "lock"}
      /\ \A u \in Versions \ {v} : stage'[u] = stage[u]
      /\ stage'[v] = "build" => paused' = TRUE
      /\ stage'[v] = "lock" => paused' = paused
      /\ stage'[v] = "build" /\ kind = "forward" => loop = "out"
      /\ paused \in BOOLEAN
    BY DEF PauseReplica, CallPause, PauseForward, MayPause, IInv, TypeOK
<1>4. Newest' = Newest
    <2>1. {u \in Versions : stage'[u] = "done"} = {u \in Versions : stage[u] = "done"}
        BY <1>3
    <2> QED
        BY <2>1, NewestKept
<1>5. v = next_version - 1 /\ \A u \in UnderWay' : u \in UnderWay
    BY <1>2, <1>3 DEF OneAtATime, UnderWay
<1>6. paused' <=> Applying' # {}
    <2>1. CASE stage'[v] = "build"
        BY <1>3, <2>1 DEF Applying
    <2>2. CASE stage'[v] = "lock"
        <3>1. Applying' = Applying
            BY <1>3, <2>2 DEF Applying
        <3> QED
            BY <1>2, <1>3, <2>2, <3>1 DEF OneAtATime
    <2> QED
        BY <1>3, <2>1, <2>2
<1>7. shard[v] = 1
    BY <1>2, <1>3 DEF OneAtATime
<1>8. OneAtATime'
    BY <1>1, <1>2, <1>3, <1>5, <1>6, <1>7 DEF OneAtATime, Whole, Shards
<1>9. ReplicaAgrees'
    BY <1>1, <1>2, <1>3, <1>4 DEF ReplicaAgrees, Whole, forward
<1>10. ForwardAgrees'
    <2> SUFFICES ASSUME kind = "forward" PROVE ForwardAgrees'
        BY <1>1 DEF ForwardAgrees
    <2>1. pending_version # Initial => stage'[pending_version] = "done"
        BY <1>1, <1>2, <1>3, PendingKept
    <2>2. /\ loop \in {"batch", "clear", "compute"} => ~paused'
          /\ ~paused' => ~paused
        BY <1>2, <1>3 DEF ForwardAgrees
    <2> QED
        BY <1>1, <1>2, <1>4, <2>1, <2>2 DEF ForwardAgrees, Whole, forward
<1> QED
    BY <1>8, <1>9, <1>10

(* Nobody still receives when the process group is built.                  *)
LEMMA BuildInTurn ==
    ASSUME IInv, InTurn, NEW v \in Versions, BuildProcessGroup(v)
    PROVE  InTurn'
<1> SUFFICES ASSUME ~overlapped' PROVE (OneAtATime /\ ReplicaAgrees /\ ForwardAgrees)'
    BY DEF InTurn
<1>1. /\ UNCHANGED <<next_version, worker, shard, paused, weights, forward, pending_version>>
      /\ ~overlapped /\ stage[v] = "build"
    BY DEF BuildProcessGroup, trainer, history
<1>2. OneAtATime /\ ReplicaAgrees /\ ForwardAgrees
    BY <1>1 DEF InTurn
<1>3. \A u \in Versions : stage[u] \notin {"ask", "read"}
    <2>1. v \in UnderWay
        BY <1>1 DEF UnderWay
    <2>2. ASSUME NEW u \in Versions, stage[u] \in {"ask", "read"} PROVE FALSE
        <3>1. u \in UnderWay
            BY <2>2 DEF UnderWay
        <3>2. u = v
            BY <1>2, <2>1, <3>1 DEF OneAtATime
        <3> QED
            BY <1>1, <2>2, <3>2
    <2> QED
        BY <2>2
<1>4. stage'[v] = "ask" /\ \A u \in Versions \ {v} : stage'[u] = stage[u]
    BY <1>3 DEF BuildProcessGroup, IInv, TypeOK
<1>5. Newest' = Newest /\ UnderWay' = UnderWay /\ Applying' = Applying
    <2>1. {u \in Versions : stage'[u] = "done"} = {u \in Versions : stage[u] = "done"}
        BY <1>1, <1>4
    <2> QED
        BY <1>1, <1>4, <2>1, NewestKept DEF UnderWay, Applying
<1>6. OneAtATime'
    <2>1. shard[v] = 1
        BY <1>1, <1>2 DEF OneAtATime
    <2> QED
        BY <1>1, <1>2, <1>4, <1>5, <2>1 DEF OneAtATime, Whole, Shards
<1>7. ReplicaAgrees'
    BY <1>1, <1>2, <1>5 DEF ReplicaAgrees, Whole, forward
<1>8. ForwardAgrees'
    <2>1. kind = "forward" /\ pending_version # Initial => stage'[pending_version] = "done"
        BY <1>1, <1>2, <1>4, PendingKept
    <2> QED
        BY <1>1, <1>2, <1>5, <2>1 DEF ForwardAgrees, Whole, forward
<1> QED
    BY <1>6, <1>7, <1>8

(* The version that is asked for is there.                                 *)
LEMMA AskInTurn ==
    ASSUME IInv, Recent, InTurn, NEW v \in Versions, Ask(v)
    PROVE  InTurn'
<1> SUFFICES ASSUME ~overlapped' PROVE (OneAtATime /\ ReplicaAgrees /\ ForwardAgrees)'
    BY DEF InTurn
<1>1. /\ UNCHANGED <<next_version, worker, shard, paused, weights, forward, pending_version>>
      /\ ~overlapped /\ stage[v] = "ask"
    BY DEF Ask, trainer, history
<1>2. OneAtATime /\ ReplicaAgrees /\ ForwardAgrees
    BY <1>1 DEF InTurn
<1>3. v = next_version - 1 /\ shard[v] \in Shards
    BY <1>1, <1>2 DEF OneAtATime, UnderWay, IInv, TypeOK
<1>4. v \in CachedBy(shard[v])
    BY <1>3 DEF Recent, Versions, IInv, TypeOK
<1>5. stage'[v] = "read" /\ \A u \in Versions \ {v} : stage'[u] = stage[u]
    BY <1>4 DEF Ask, IInv, TypeOK
<1>6. Newest' = Newest /\ UnderWay' = UnderWay /\ Applying' = Applying
    <2>1. {u \in Versions : stage'[u] = "done"} = {u \in Versions : stage[u] = "done"}
        BY <1>1, <1>5
    <2> QED
        BY <1>1, <1>5, <2>1, NewestKept DEF UnderWay, Applying
<1>7. OneAtATime'
    BY <1>1, <1>2, <1>5, <1>6 DEF OneAtATime, Whole
<1>8. ReplicaAgrees'
    BY <1>1, <1>2, <1>6 DEF ReplicaAgrees, Whole, forward
<1>9. ForwardAgrees'
    <2>1. kind = "forward" /\ pending_version # Initial => stage'[pending_version] = "done"
        BY <1>1, <1>2, <1>5, PendingKept
    <2> QED
        BY <1>1, <1>2, <1>6, <2>1 DEF ForwardAgrees, Whole, forward
<1> QED
    BY <1>7, <1>8, <1>9

(* What is read is the version.                                            *)
LEMMA ReadInTurn ==
    ASSUME IInv, Recent, InTurn, NEW v \in Versions, Read(v)
    PROVE  InTurn'
<1> SUFFICES ASSUME ~overlapped' PROVE (OneAtATime /\ ReplicaAgrees /\ ForwardAgrees)'
    BY DEF InTurn
<1> DEFINE s == shard[v]
<1>1. /\ UNCHANGED <<next_version, buffers, worker, paused, forward, pending_version>>
      /\ ~overlapped /\ stage[v] = "read"
    BY DEF Read, trainer
<1>2. OneAtATime /\ ReplicaAgrees /\ ForwardAgrees
    BY <1>1 DEF InTurn
<1>3. v = next_version - 1 /\ s \in Shards /\ v \in Int
    <2>1. v \in UnderWay
        BY <1>1 DEF UnderWay
    <2>2. v = next_version - 1
        BY <1>2, <2>1 DEF OneAtATime
    <2>3. s \in Shards
        BY DEF IInv, TypeOK
    <2>4. v \in Int
        BY DEF Versions
    <2> QED
        BY <2>2, <2>3, <2>4
<1>4. buffers[s][Slot(v)] = v
    <2>1. v \in CachedBy(s)
        BY <1>3 DEF Recent, Versions, IInv, TypeOK
    <2>2. v # next_version
        BY <1>3 DEF IInv, TypeOK
    <2> QED
        BY <1>3, <2>1, <2>2 DEF IInv, CacheIntact
<1>5. /\ weights' = [weights EXCEPT ![s] = v]
      /\ shard' = [shard EXCEPT ![v] = IF s = NumShards THEN s ELSE s + 1]
      /\ stage' = [stage EXCEPT ![v] = IF s = NumShards THEN "resume" ELSE "ask"]
    BY <1>4 DEF Read
<1>6. /\ stage'[v] = IF s = NumShards THEN "resume" ELSE "ask"
      /\ \A u \in Versions \ {v} : stage'[u] = stage[u] /\ shard'[u] = shard[u]
      /\ shard'[v] = IF s = NumShards THEN s ELSE s + 1
      /\ weights'[s] = v /\ \A t \in Shards \ {s} : weights'[t] = weights[t]
    BY <1>3, <1>5 DEF IInv, TypeOK
<1>7. Newest' = Newest /\ UnderWay' = UnderWay /\ Applying' = Applying
    <2>1. {u \in Versions : stage'[u] = "done"} = {u \in Versions : stage[u] = "done"}
        BY <1>1, <1>6
    <2> QED
        BY <1>1, <1>6, <2>1, NewestKept DEF UnderWay, Applying
<1>8. paused /\ paused'
    BY <1>1, <1>2 DEF OneAtATime, Applying
<1>9. \A t \in Shards : t < s => weights[t] = v
    BY <1>1, <1>2 DEF OneAtATime
<1>10. \A u \in Versions \ {v} : stage[u] \notin {"build", "ask", "read", "resume"}
    BY <1>2, <1>3 DEF OneAtATime, UnderWay
<1>11. OneAtATime'
    <2>1. stage'[v] = "ask" => \A t \in Shards : t < shard'[v] => weights'[t] = v
        BY <1>3, <1>6, <1>9 DEF Shards
    <2>2. stage'[v] = "resume" => \A t \in Shards : weights'[t] = v
        BY <1>3, <1>6, <1>9 DEF Shards
    <2>3. /\ \A u \in UnderWay' : u = next_version' - 1
          /\ \A u \in Versions : stage'[u] \notin {"failed", "stuck"}
          /\ paused' <=> Applying' # {}
        BY <1>1, <1>2, <1>6, <1>7 DEF OneAtATime
    <2>4. \A u \in Versions \ {v} :
             /\ stage'[u] \in {"none", "pause", "lock", "build"} => shard'[u] = 1
             /\ stage'[u] \notin {"build", "ask", "read", "resume"}
        BY <1>2, <1>6, <1>10 DEF OneAtATime
    <2>5. stage'[v] \in {"ask", "resume"}
        BY <1>6
    <2> QED
        BY <2>1, <2>2, <2>3, <2>4, <2>5 DEF OneAtATime, Whole
<1>12. ReplicaAgrees'
    BY <1>1, <1>2, <1>8 DEF ReplicaAgrees, forward
<1>13. ForwardAgrees'
    <2>1. kind = "forward" /\ pending_version # Initial => stage'[pending_version] = "done"
        BY <1>1, <1>2, <1>6, PendingKept
    <2>2. kind = "forward" => loop \notin {"batch", "clear", "compute"}
        BY <1>2, <1>8 DEF ForwardAgrees
    <2>3. kind = "forward" =>
             /\ pending_version = Newest /\ active_version <= pending_version
             /\ active_version = pending_version => Whole(model, active_version)
        BY <1>2 DEF ForwardAgrees
    <2> HIDE DEF s
    <2> QED
        BY <1>1, <1>7, <1>8, <2>1, <2>2, <2>3 DEF ForwardAgrees, Whole, forward
<1> QED
    BY <1>11, <1>12, <1>13

LEMMA ResumeInTurn ==
    ASSUME IInv, InTurn, NEW v \in Versions, ResumeReplica(v) \/ ResumeForward(v)
    PROVE  InTurn'
<1> SUFFICES ASSUME ~overlapped' PROVE (OneAtATime /\ ReplicaAgrees /\ ForwardAgrees)'
    BY DEF InTurn
<1>1. /\ UNCHANGED <<next_version, worker, shard, weights, forward>>
      /\ ~overlapped /\ stage[v] = "resume" /\ paused' = FALSE
      /\ kind = "forward" => pending_version' = v
      /\ stage' = [stage EXCEPT ![v] = "done"]
    BY DEF ResumeReplica, ResumeForward, trainer, history
<1>2. OneAtATime /\ ReplicaAgrees /\ ForwardAgrees
    BY <1>1 DEF InTurn
<1>3. stage'[v] = "done" /\ \A u \in Versions \ {v} : stage'[u] = stage[u]
    BY <1>1 DEF IInv, TypeOK
<1>4. v = next_version - 1 /\ Whole(weights, v)
    BY <1>1, <1>2 DEF OneAtATime, UnderWay
<1>5. \A u \in Versions \ {v} : stage[u] \in {"none", "done"}
    BY <1>2, <1>4 DEF OneAtATime, UnderWay, IInv, TypeOK
<1>6. \A u \in Versions : stage[u] # "none" => u <= v
    BY <1>4 DEF IInv, TypeOK, SentBefore, Versions
<1>7. Newest' = v
    BY <1>3, <1>6, NewestIs DEF Versions
<1>8. OneAtATime'
    <2>1. UnderWay' = {} /\ Applying' = {}
        BY <1>3, <1>5 DEF UnderWay, Applying
    <2> QED
        BY <1>1, <1>2, <1>3, <1>5, <2>1 DEF OneAtATime
<1>9. ReplicaAgrees'
    BY <1>1, <1>2, <1>4, <1>7 DEF ReplicaAgrees, Whole, forward
<1>10. ForwardAgrees'
    <2> SUFFICES ASSUME kind = "forward" PROVE ForwardAgrees'
        BY <1>1 DEF ForwardAgrees
    <2>1. pending_version < v /\ active_version <= pending_version
        <3>1. pending_version = Initial \/ stage[pending_version] = "done"
            BY <1>2 DEF ForwardAgrees
        <3>2. pending_version \in Versions => pending_version <= v /\ pending_version # v
            BY <1>1, <1>6, <3>1 DEF Initial, Versions
        <3>3. Initial < v
            BY DEF Initial, Versions
        <3> QED
            BY <1>2, <3>2, <3>3 DEF ForwardAgrees, IInv, TypeOK, Versions
    <2>2. active_version' # v /\ active_version' <= v
        BY <1>1, <2>1 DEF forward, IInv, TypeOK, Versions, Initial
    <2>3. loop' \notin {"clear", "compute"}
        <3>1. paused
            BY <1>1, <1>2 DEF OneAtATime, Applying
        <3> QED
            BY <1>1, <1>2, <3>1 DEF ForwardAgrees, forward
    <2> QED
        BY <1>1, <1>3, <1>4, <1>7, <2>2, <2>3 DEF ForwardAgrees, Whole
<1> QED
    BY <1>8, <1>9, <1>10

LEMMA LoopInTurn ==
    ASSUME IInv, InTurn, Loop
    PROVE  InTurn'
<1> SUFFICES ASSUME ~overlapped' PROVE (OneAtATime /\ ReplicaAgrees /\ ForwardAgrees)'
    BY DEF InTurn
<1>1. /\ UNCHANGED <<next_version, worker, stage, shard, paused, pending_version>>
      /\ ~overlapped
    BY DEF Loop, TakeLock, FetchBatch, LoadModel, ClearStateDict, Compute, trainer, history, update
<1>2. OneAtATime /\ ReplicaAgrees /\ ForwardAgrees
    BY <1>1 DEF InTurn
<1>3. kind = "forward"
    <2>1. kind = "replica" => loop = "out"
        BY <1>2 DEF ReplicaAgrees
    <2> QED
        BY <2>1 DEF Loop, TakeLock, FetchBatch, LoadModel, ClearStateDict, Compute, IInv, TypeOK
<1>4. Newest' = Newest /\ UnderWay' = UnderWay /\ Applying' = Applying
    BY <1>1 DEF Newest, UnderWay, Applying
<1>5. ~paused => Applying = {}
    BY <1>2 DEF OneAtATime
<1>6. UNCHANGED weights \/ ~paused
    BY <1>2, <1>3 DEF Loop, TakeLock, FetchBatch, LoadModel, ClearStateDict, Compute, ForwardAgrees
<1>7. OneAtATime'
    BY <1>1, <1>2, <1>4, <1>5, <1>6 DEF OneAtATime, Applying, Whole
<1>8. ReplicaAgrees'
    BY <1>1, <1>3 DEF ReplicaAgrees
<1>9. ForwardAgrees'
    <2>1. CASE TakeLock \/ FetchBatch \/ Compute
        BY <1>1, <1>2, <1>3, <1>4, <2>1 DEF ForwardAgrees, Whole, TakeLock, FetchBatch, Compute
    <2>2. CASE LoadModel
        <3>1. ~paused /\ UNCHANGED <<weights, active_version>>
            BY <1>2, <1>3, <2>2 DEF LoadModel, ForwardAgrees
        <3>2. CASE active_version = pending_version
            BY <1>1, <1>2, <1>3, <1>4, <2>2, <3>1, <3>2 DEF ForwardAgrees, Whole, LoadModel
        <3>3. CASE active_version # pending_version
            <4>1. pending_version # Initial /\ Whole(weights, pending_version)
                BY <1>2, <1>3, <3>1, <3>3 DEF ForwardAgrees, IInv, TypeOK, Versions, Initial
            <4>2. loop' = "clear" /\ Whole(model, pending_version)'
                BY <1>1, <2>2, <3>3, <4>1 DEF LoadModel, Whole
            <4> QED
                BY <1>1, <1>2, <1>3, <1>4, <3>1, <3>3, <4>1, <4>2 DEF ForwardAgrees, Whole
        <3> QED
            BY <3>2, <3>3
    <2>3. CASE ClearStateDict
        <3>1. Whole(model, pending_version) /\ active_version' = pending_version /\ loop' = "compute"
              /\ UNCHANGED model
            BY <1>2, <1>3, <2>3 DEF ClearStateDict, ForwardAgrees
        <3>2. ~paused /\ pending_version \in Int
            BY <1>2, <1>3, <2>3 DEF ClearStateDict, ForwardAgrees, IInv, TypeOK, Versions, Initial
        <3> QED
            BY <1>1, <1>2, <1>3, <1>4, <3>1, <3>2 DEF ForwardAgrees, Whole
    <2> QED
        BY <2>1, <2>2, <2>3 DEF Loop
<1> QED
    BY <1>7, <1>8, <1>9

LEMMA InTurnKept == IInv /\ Recent /\ InTurn /\ [Next]_vars => InTurn'
<1> SUFFICES ASSUME IInv, Recent, InTurn, [Next]_vars PROVE InTurn'
    OBVIOUS
<1>1. ASSUME NEW s \in Shards, BeginWrite(s) \/ EndWrite(s) PROVE InTurn'
    BY <1>1, UnchangedInTurn DEF BeginWrite, EndWrite, history
<1>2. CASE Submit
    BY <1>2, SubmitInTurn
<1>3. ASSUME NEW v \in Versions, Update(v) PROVE InTurn'
    BY <1>3, PauseInTurn, BuildInTurn, AskInTurn, ReadInTurn, ResumeInTurn DEF Update
<1>4. CASE Loop
    BY <1>4, LoopInTurn
<1>5. CASE UNCHANGED vars
    BY <1>5, UnchangedInTurn DEF vars, trainer, history
<1> QED
    BY <1>1, <1>2, <1>3, <1>4, <1>5 DEF Next, Trainer

(* As long as its updates do not overlap, every version sent to a worker   *)
(* arrives, a replica that takes requests and a forward worker that        *)
(* computes have all shards of the newest one, whatever the caches drop    *)
(* and wherever the loop is when it is paused (update_weights_rollout_fwd).*)
THEOREM WholeInTurn == Spec => []WholeUnlessOverlapped
<1>1. Init => Recent /\ InTurn
    BY InitInTurn
<1>2. IInv /\ Recent /\ InTurn /\ [Next]_vars => Recent' /\ InTurn'
    BY RecentKept, InTurnKept
<1>3. IInv /\ InTurn => WholeUnlessOverlapped
    <2> SUFFICES ASSUME IInv, InTurn, ~overlapped
                 PROVE  /\ kind = "replica" /\ ~paused => Whole(weights, Newest)
                        /\ loop = "compute" =>
                              active_version = Newest /\ Whole(model, active_version)
        BY DEF WholeUnlessOverlapped
    <2>1. ReplicaAgrees /\ ForwardAgrees /\ kind \in {"replica", "forward"}
        BY DEF InTurn, IInv, TypeOK
    <2> QED
        BY <2>1 DEF ReplicaAgrees, ForwardAgrees
<1> QED
    BY <1>1, <1>2, <1>3, Invariant, PTL DEF Spec
=============================================================================
