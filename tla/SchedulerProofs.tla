-------------------------- MODULE SchedulerProofs --------------------------
(***************************************************************************)
(* Machine-checked proofs about module Scheduler, for every number of boot *)
(* processes, every bound on thread ids, any choice of pids to wait for,   *)
(* and with or without a framebuffer.                                      *)
(***************************************************************************)
EXTENDS Scheduler, SequenceTheorems, FiniteSetTheorems, TLAPS

-----------------------------------------------------------------------------
(* The run queue as a data structure.                                      *)

\* q lists every thread that s calls runnable exactly once.
Queued(q, s) ==
  /\ q \in Seq(Tids)
  /\ \A i, j \in DOMAIN q : q[i] = q[j] => i = j
  /\ \A t \in Tids : s[t] = "runnable" <=> \E i \in DOMAIN q : q[i] = t

\* The ids main() hands out are thread ids.
LEMMA BootTidsAreTids == Main \in Tids /\ Gui \in Tids /\ Gui # Main /\ Nobody \notin Tids
  BY BootAssumption DEF Main, Gui, Tids, Nobody

\* enqueue() of a thread that was not runnable keeps the queue exact.
LEMMA EnqueueQueued ==
  ASSUME NEW s \in [Tids -> States], NEW q, Queued(q, s),
         NEW t \in Tids, s[t] # "runnable"
  PROVE  Queued(Append(q, t), [s EXCEPT ![t] = "runnable"])
  <1> DEFINE r == Append(q, t)
  <1>1. /\ r \in Seq(Tids) /\ Len(r) = Len(q) + 1 /\ Len(q) \in Nat
        /\ DOMAIN r = 1 .. Len(q) + 1 /\ DOMAIN q = 1 .. Len(q)
        /\ \A i \in 1 .. Len(q) : r[i] = q[i]
        /\ r[Len(q) + 1] = t
    BY AppendProperties, LenProperties DEF Queued
  <1>2. \A i \in DOMAIN q : q[i] # t
    BY DEF Queued
  <1> HIDE DEF r
  <1>3. \A i, j \in DOMAIN r : r[i] = r[j] => i = j
    BY <1>1, <1>2 DEF Queued
  <1>4. \A x \in Tids : [s EXCEPT ![t] = "runnable"][x] = "runnable"
                          <=> \E i \in DOMAIN r : r[i] = x
    <2> SUFFICES ASSUME NEW x \in Tids
                 PROVE  [s EXCEPT ![t] = "runnable"][x] = "runnable"
                          <=> \E i \in DOMAIN r : r[i] = x
      OBVIOUS
    <2>1. CASE x = t
      BY <2>1, <1>1
    <2>2. CASE x # t
      BY <2>2, <1>1 DEF Queued
    <2> QED BY <2>1, <2>2
  <1> QED BY <1>1, <1>3, <1>4 DEF Queued, r

\* Unlinking one thread from the queue and calling it running keeps it exact.
LEMMA UnlinkQueued ==
  ASSUME NEW s \in [Tids -> States], NEW q, Queued(q, s), NEW k \in DOMAIN q
  PROVE  /\ q[k] \in Tids
         /\ s[q[k]] = "runnable"
         /\ Queued(RemoveAt(q, k), [s EXCEPT ![q[k]] = "running"])
  <1> DEFINE r == RemoveAt(q, k)
             a == SubSeq(q, 1, k - 1)
             b == SubSeq(q, k + 1, Len(q))
  <1>1. /\ Len(q) \in Nat /\ DOMAIN q = 1 .. Len(q) /\ k \in 1 .. Len(q)
        /\ \A i \in 1 .. Len(q) : q[i] \in Tids
    BY LenProperties, ElementOfSeq DEF Queued
  <1>2. /\ a \in Seq(Tids) /\ Len(a) = k - 1
        /\ \A i \in 1 .. k - 1 : a[i] = q[i]
    <2>1. \A i \in 1 .. k - 1 : q[i] \in Tids
      BY <1>1
    <2> QED BY <2>1, <1>1, SubSeqProperties
  <1>3. /\ b \in Seq(Tids) /\ Len(b) = Len(q) - k
        /\ \A i \in 1 .. Len(q) - k : b[i] = q[k + i]
    <2>1. \A i \in k + 1 .. Len(q) : q[i] \in Tids
      BY <1>1
    <2> QED BY <2>1, <1>1, SubSeqProperties
  <1> HIDE DEF a, b, r
  <1>4. /\ r \in Seq(Tids) /\ Len(r) = Len(q) - 1 /\ DOMAIN r = 1 .. Len(q) - 1
        /\ \A i \in 1 .. Len(q) - 1 : r[i] = IF i < k THEN q[i] ELSE q[i + 1]
    <2>1. r = a \o b
      BY DEF r, RemoveAt, a, b
    <2>2. /\ r \in Seq(Tids) /\ Len(r) = Len(a) + Len(b)
          /\ \A i \in 1 .. Len(a) + Len(b) :
               r[i] = IF i <= Len(a) THEN a[i] ELSE b[i - Len(a)]
      BY <2>1, <1>2, <1>3, ConcatProperties
    <2>3. DOMAIN r = 1 .. Len(r)
      BY <2>2, LenProperties
    <2>4. Len(r) = Len(q) - 1
      BY <2>2, <1>1, <1>2, <1>3
    <2>5. ASSUME NEW i \in 1 .. Len(q) - 1
          PROVE  r[i] = IF i < k THEN q[i] ELSE q[i + 1]
      <3>1. CASE i < k
        BY <3>1, <2>2, <1>1, <1>2, <1>3
      <3>2. CASE ~(i < k)
        <4>1. /\ i \in 1 .. Len(a) + Len(b) /\ ~(i <= Len(a))
              /\ i - Len(a) = i - k + 1 /\ i - k + 1 \in 1 .. Len(q) - k
              /\ k + (i - k + 1) = i + 1
          BY <3>2, <1>1, <1>2, <1>3
        <4> QED BY <4>1, <3>2, <2>2, <1>3
      <3> QED BY <3>1, <3>2
    <2> QED BY <2>2, <2>3, <2>4, <2>5
  <1>5. q[k] \in Tids /\ s[q[k]] = "runnable"
    BY <1>1 DEF Queued
  <1>6. \A i, j \in DOMAIN r : r[i] = r[j] => i = j
    <2> DEFINE pos(i) == IF i < k THEN i ELSE i + 1
    <2>1. \A i \in DOMAIN r : pos(i) \in DOMAIN q /\ r[i] = q[pos(i)]
      BY <1>1, <1>4
    <2>2. \A i, j \in DOMAIN r : pos(i) = pos(j) => i = j
      BY <1>1, <1>4, SMTT(30)
    <2>3. \A i, j \in DOMAIN q : q[i] = q[j] => i = j
      BY DEF Queued
    <2> HIDE DEF pos
    <2> QED BY <2>1, <2>2, <2>3
  <1>7. \A x \in Tids : [s EXCEPT ![q[k]] = "running"][x] = "runnable"
                          <=> \E i \in DOMAIN r : r[i] = x
    <2> SUFFICES ASSUME NEW x \in Tids
                 PROVE  [s EXCEPT ![q[k]] = "running"][x] = "runnable"
                          <=> \E i \in DOMAIN r : r[i] = x
      OBVIOUS
    <2>1. CASE x = q[k]
      <3>1. ASSUME NEW i \in DOMAIN r PROVE r[i] # q[k]
        <4>1. CASE i < k
          <5>1. i \in DOMAIN q /\ i # k /\ r[i] = q[i]
            BY <4>1, <1>1, <1>4
          <5> QED BY <5>1, <1>1 DEF Queued
        <4>2. CASE ~(i < k)
          <5>1. i + 1 \in DOMAIN q /\ i + 1 # k /\ r[i] = q[i + 1]
            BY <4>2, <1>1, <1>4
          <5> QED BY <5>1, <1>1 DEF Queued
        <4> QED BY <4>1, <4>2
      <3> QED BY <3>1, <2>1, <1>5
    <2>2. CASE x # q[k]
      <3>1. s[x] = "runnable" <=> \E i \in DOMAIN q : q[i] = x
        BY DEF Queued
      <3>2. (\E i \in DOMAIN q : q[i] = x) <=> \E i \in DOMAIN r : r[i] = x
        <4>1. ASSUME NEW i \in DOMAIN q, q[i] = x
              PROVE  \E j \in DOMAIN r : r[j] = x
          <5>1. CASE i < k
            <6>1. i \in DOMAIN r /\ r[i] = x
              BY <5>1, <4>1, <1>1, <1>4
            <6> QED BY <6>1
          <5>2. CASE i > k
            <6>1. i - 1 \in DOMAIN r /\ r[i - 1] = x
              BY <5>2, <4>1, <1>1, <1>4
            <6> QED BY <6>1
          <5>3. i # k
            BY <4>1, <2>2
          <5> QED BY <5>1, <5>2, <5>3, <1>1
        <4>2. ASSUME NEW j \in DOMAIN r, r[j] = x
              PROVE  \E i \in DOMAIN q : q[i] = x
          BY <4>2, <1>1, <1>4, SMTT(30)
        <4> QED BY <4>1, <4>2
      <3> QED BY <3>1, <3>2, <2>2
    <2> QED BY <2>1, <2>2
  <1> QED BY <1>4, <1>5, <1>6, <1>7 DEF Queued, r

\* thread_exit() queues the threads it wakes one after the other; the queue
\* stays exact.
LEMMA WakeAllQueued ==
  ASSUME NEW s \in [Tids -> States], NEW q, Queued(q, s),
         NEW W, W \subseteq Tids, \A x \in W : s[x] # "runnable",
         NEW w \in NewestFirst(W)
  PROVE  Queued(q \o w, [x \in Tids |-> IF x \in W THEN "runnable" ELSE s[x]])
  <1> DEFINE r == q \o w
             s1 == [x \in Tids |-> IF x \in W THEN "runnable" ELSE s[x]]
  <1>1. Cardinality(W) \in Nat
    <2>1. IsFiniteSet(Tids)
      BY BootAssumption, FS_Interval DEF Tids
    <2> QED BY <2>1, FS_Subset, FS_CardinalityType
  <1>2. /\ w \in [1 .. Cardinality(W) -> W]
        /\ DOMAIN w = 1 .. Cardinality(W)
        /\ \A x : x \in W <=> \E i \in DOMAIN w : w[i] = x
        /\ \A i, j \in DOMAIN w : i < j => w[i] > w[j]
    BY DEF NewestFirst, ToSet
  <1>3. w \in Seq(Tids)
    BY <1>1, <1>2, SeqDef
  <1>4. Len(w) \in Nat /\ DOMAIN w = 1 .. Len(w)
    BY <1>3, LenProperties
  <1>5. \A i, j \in DOMAIN w : w[i] = w[j] => i = j
    <2> SUFFICES ASSUME NEW i \in DOMAIN w, NEW j \in DOMAIN w, i < j
                 PROVE  w[i] # w[j]
      BY <1>4
    <2>1. w[i] \in W /\ w[j] \in W
      BY <1>2
    <2>2. w[i] \in 0 .. MaxTid /\ w[j] \in 0 .. MaxTid
      BY <2>1 DEF Tids
    <2>3. w[i] > w[j]
      BY <1>2
    <2> QED BY <2>2, <2>3, BootAssumption
  <1>6. /\ Len(q) \in Nat /\ DOMAIN q = 1 .. Len(q)
        /\ \A i, j \in DOMAIN q : q[i] = q[j] => i = j
        /\ \A x \in Tids : s[x] = "runnable" <=> \E i \in DOMAIN q : q[i] = x
        /\ \A i \in DOMAIN q : q[i] \in Tids
    BY LenProperties, ElementOfSeq DEF Queued
  <1> HIDE DEF r, s1
  <1>7. /\ r \in Seq(Tids) /\ DOMAIN r = 1 .. Len(q) + Len(w)
        /\ \A i \in 1 .. Len(q) + Len(w) :
             r[i] = IF i <= Len(q) THEN q[i] ELSE w[i - Len(q)]
    <2>1. q \in Seq(Tids)
      BY DEF Queued
    <2>2. /\ r \in Seq(Tids) /\ Len(r) = Len(q) + Len(w)
          /\ \A i \in 1 .. Len(q) + Len(w) :
               r[i] = IF i <= Len(q) THEN q[i] ELSE w[i - Len(q)]
      BY <1>3, <2>1, ConcatProperties DEF r
    <2> QED BY <2>2, LenProperties
  <1>8. \A i \in DOMAIN q, j \in DOMAIN w : q[i] # w[j]
    BY <1>2, <1>6
  <1>9. \A i, j \in DOMAIN r : r[i] = r[j] => i = j
    <2> SUFFICES ASSUME NEW i \in DOMAIN r, NEW j \in DOMAIN r, r[i] = r[j]
                 PROVE  i = j
      OBVIOUS
    <2>1. CASE i <= Len(q) /\ j <= Len(q)
      BY <2>1, <1>6, <1>7
    <2>2. CASE ~(i <= Len(q)) /\ ~(j <= Len(q))
      <3>1. i - Len(q) \in DOMAIN w /\ j - Len(q) \in DOMAIN w
        BY <2>2, <1>4, <1>6, <1>7
      <3>2. i - Len(q) = j - Len(q)
        BY <3>1, <2>2, <1>5, <1>7
      <3> QED BY <3>2, <1>6, <1>7
    <2>3. CASE i <= Len(q) /\ ~(j <= Len(q))
      <3>1. i \in DOMAIN q /\ j - Len(q) \in DOMAIN w
        BY <2>3, <1>4, <1>6, <1>7
      <3> QED BY <3>1, <2>3, <1>7, <1>8
    <2>4. CASE ~(i <= Len(q)) /\ j <= Len(q)
      <3>1. j \in DOMAIN q /\ i - Len(q) \in DOMAIN w
        BY <2>4, <1>4, <1>6, <1>7
      <3> QED BY <3>1, <2>4, <1>7, <1>8
    <2> QED BY <2>1, <2>2, <2>3, <2>4
  <1>10. \A x \in Tids : s1[x] = "runnable" <=> \E i \in DOMAIN r : r[i] = x
    <2> SUFFICES ASSUME NEW x \in Tids
                 PROVE  s1[x] = "runnable" <=> \E i \in DOMAIN r : r[i] = x
      OBVIOUS
    <2>1. s1[x] = "runnable" <=> (\E i \in DOMAIN q : q[i] = x)
                                   \/ (\E i \in DOMAIN w : w[i] = x)
      BY <1>2, <1>6 DEF s1
    <2>2. ASSUME NEW i \in DOMAIN q PROVE i \in DOMAIN r /\ r[i] = q[i]
      BY <1>4, <1>6, <1>7
    <2>3. ASSUME NEW i \in DOMAIN w
          PROVE  Len(q) + i \in DOMAIN r /\ r[Len(q) + i] = w[i]
      <3>1. /\ Len(q) + i \in 1 .. Len(q) + Len(w) /\ ~(Len(q) + i <= Len(q))
            /\ (Len(q) + i) - Len(q) = i
        BY <1>4, <1>6
      <3> QED BY <3>1, <1>7
    <2>4. ASSUME NEW i \in DOMAIN r
          PROVE  \/ i \in DOMAIN q /\ r[i] = q[i]
                 \/ i - Len(q) \in DOMAIN w /\ r[i] = w[i - Len(q)]
      BY <1>4, <1>6, <1>7
    <2> QED BY <2>1, <2>2, <2>3, <2>4
  <1> QED BY <1>7, <1>9, <1>10 DEF Queued, r, s1

\* dequeue() of a non-empty queue picks one of its positions.
LEMMA DequeueIndexInQueue ==
  ASSUME NEW s, NEW q, Queued(q, s), q # << >>
  PROVE  DequeueIndex(q) \in DOMAIN q
  <1>1. CASE \E i \in DOMAIN q : q[i] = guiPtr
    <2>1. PICK i \in DOMAIN q : q[i] = guiPtr
      BY <1>1
    <2>2. \A j \in DOMAIN q : q[j] = guiPtr => i <= j
      <3>1. \A j \in DOMAIN q : q[j] = guiPtr => i = j
        BY <2>1 DEF Queued
      <3>2. i \in Int
        BY LenProperties DEF Queued
      <3> QED BY <3>1, <3>2
    <2> QED BY <1>1, <2>1, <2>2 DEF DequeueIndex
  <1>2. CASE ~\E i \in DOMAIN q : q[i] = guiPtr
    <2>1. DequeueIndex(q) = 1
      BY <1>2 DEF DequeueIndex
    <2>2. Len(q) \in Nat \ {0} /\ DOMAIN q = 1 .. Len(q)
      BY EmptySeq, LenProperties DEF Queued
    <2> QED BY <2>1, <2>2
  <1> QED BY <1>1, <1>2

-----------------------------------------------------------------------------
(* schedule(): entered with a queue that matches the thread states and the  *)
(* boot thread able to run, it always switches, and the queue still matches. *)

LEMMA ScheduleSwitches ==
  ASSUME NEW s \in [Tids -> States], NEW q, Queued(q, s),
         current \in Tids, s[Main] \in Ready,
         \A t \in Tids : s[t] = "running" => t = current,
         Schedule(s, q)
  PROVE  /\ st' \in [Tids -> States]
         /\ Queued(runq', st')
         /\ current' \in Tids /\ st'[current'] = "running"
         /\ \A t \in Tids : st'[t] = "running" => t = current'
         /\ \A t \in Tids : s[t] \in Ready => st'[t] \in Ready
         /\ \A t \in Tids : s[t] \notin Ready => st'[t] = s[t]
         /\ heap' = Free(heap, Reclaimed)
         /\ toFree' = Nobody
  <1> DEFINE running == s[current] = "running"
             s1 == IF running THEN [s EXCEPT ![current] = "runnable"] ELSE s
             q1 == IF running THEN Append(q, current) ELSE q
             i  == DequeueIndex(q1)
  <1>1. Queued(q1, s1) /\ s1 \in [Tids -> States]
    <2>1. CASE running
      BY <2>1, EnqueueQueued DEF States
    <2>2. CASE ~running
      BY <2>2
    <2> QED BY <2>1, <2>2
  <1>2. /\ \A t \in Tids : s1[t] # "running"
        /\ \A t \in Tids : s[t] \in Ready => s1[t] \in Ready
        /\ \A t \in Tids : s[t] \notin Ready => s1[t] = s[t]
    BY DEF Ready
  <1> HIDE DEF running, s1, q1, i
  <1>3. q1 # << >>
    <2>1. s1[Main] = "runnable" /\ Main \in Tids
      BY <1>2, BootTidsAreTids DEF Ready
    <2>2. \E k \in DOMAIN q1 : q1[k] = Main
      BY <2>1, <1>1 DEF Queued
    <2>3. DOMAIN << >> = {}
      OBVIOUS
    <2> QED BY <2>2, <2>3
  <1>4. i \in DOMAIN q1
    BY <1>1, <1>3, DequeueIndexInQueue DEF i
  <1>5. /\ q1[i] \in Tids /\ s1[q1[i]] = "runnable"
        /\ Queued(RemoveAt(q1, i), [s1 EXCEPT ![q1[i]] = "running"])
    BY <1>1, <1>4, UnlinkQueued
  <1>6. /\ st' = [s1 EXCEPT ![q1[i]] = "running"]
        /\ current' = q1[i]
        /\ runq' = RemoveAt(q1, i)
        /\ heap' = Free(heap, Reclaimed)
        /\ toFree' = Nobody
    BY <1>3 DEF Schedule, running, s1, q1, i
  <1>7. /\ st' \in [Tids -> States]
        /\ st'[current'] = "running"
        /\ \A t \in Tids : t # current' => st'[t] = s1[t]
    BY <1>1, <1>5, <1>6 DEF States
  <1> QED BY <1>2, <1>5, <1>6, <1>7 DEF Ready

-----------------------------------------------------------------------------
(* The inductive invariant.                                                *)

\* RunQueueExact is Queued of the variables.
LEMMA RunQueueIsQueued ==
  ASSUME runq \in Seq(Tids)
  PROVE  RunQueueExact <=> Queued(runq, st)
  BY DEF RunQueueExact, Queued

\* The part of TypeOK about variables schedule() does not write.
TypeRest ==
  /\ parent \in [Tids -> Tids]
  /\ wfp \in [Tids -> Tids]
  /\ pc \in [Tids -> OpenPcs \cup SyscallPcs]
  /\ waitArg \in [Tids -> Tids]
  /\ guiPtr \in {Nobody, Gui}
  /\ alarm \in {"none", "armed", "due"}
  /\ complete \in BOOLEAN
  /\ halted \in BOOLEAN

\* Resume points belong to the right threads.
PcOwners ==
  \A t \in Tids : (pc[t] = "main" <=> t = Main) /\ (pc[t] \in GuiPcs <=> t = Gui)

\* Freeing T leaves every other block as it was.
LEMMA FreeOnly ==
  ASSUME NEW h \in [Tids -> HeapView], NEW T
  PROVE  /\ Free(h, T) \in [Tids -> HeapView]
         /\ \A t \in Tids : t \notin T => Free(h, T)[t] = h[t]
  BY DEF Free, HeapView

\* The state in which interrupts are enabled satisfies the invariant.
LEMMA InitIInv == Init => IInv
  <1> SUFFICES ASSUME Init PROVE IInv
    OBVIOUS
  <1> USE BootTidsAreTids, BootAssumption
  <1>1. /\ Gui \in Nat /\ Main = 0 /\ Gui = Boot + 1
        /\ BootTids \subseteq Tids /\ Main \in BootTids /\ Gui \in BootTids
        /\ 1 .. Gui \subseteq Tids
    BY DEF Gui, Main, Tids, BootTids
  <1>2. /\ runq = [i \in 1 .. Gui |-> i] /\ DOMAIN runq = 1 .. Gui
        /\ runq \in Seq(Tids)
    <2>1. runq = [i \in 1 .. Gui |-> i]
      BY DEF Init
    <2>2. runq \in [1 .. Gui -> Tids]
      BY <2>1, <1>1
    <2> QED BY <2>1, <2>2, <1>1, SeqDef
  <1>3. TypeOK
    <2>1. nextId \in Gui + 1 .. MaxTid + 1
      BY <1>1 DEF Init
    <2>2. /\ current \in Tids
          /\ st \in [Tids -> States]
          /\ heap \in [Tids -> HeapView]
          /\ all \subseteq Tids
          /\ toFree \in Tids \cup {Nobody}
      BY <1>1 DEF Init, States, HeapView
    <2>3. TypeRest
      BY <1>1 DEF Init, TypeRest, OpenPcs, GuiPcs, SyscallPcs, NoPid
    <2> QED BY <1>2, <2>1, <2>2, <2>3 DEF TypeOK, TypeRest
  <1>4. RunQueueExact
    <2>1. \A t \in Tids : st[t] = "runnable" <=> t \in 1 .. Gui
      BY <1>1 DEF Init, BootTids, Tids
    <2> QED BY <2>1, <1>2 DEF RunQueueExact
  <1>5. CpuOwner
    BY <1>1 DEF Init, CpuOwner
  <1>6. SchedulableIsLive
    BY <1>1 DEF Init, SchedulableIsLive, Alive, Ready
  <1>7. WaitTargetPending
    BY <1>1 DEF Init, WaitTargetPending
  <1>8. Supporting
    <2>1. \A t \in Tids : st[t] = "unborn" <=> t >= nextId
      BY <1>1 DEF Init, BootTids, Tids
    <2>2. \A t \in Tids : (pc[t] = "main" <=> t = Main) /\ (pc[t] \in GuiPcs <=> t = Gui)
      BY <1>1 DEF Init, GuiPcs
    <2> QED BY <1>1, <2>1, <2>2 DEF Init, Supporting, Ready, Alive, NoPid
  <1> QED BY <1>3, <1>4, <1>5, <1>6, <1>7, <1>8 DEF IInv

\* Every action that ends in schedule() preserves the invariant, provided the
\* states s it enters with differ from st only in which live threads sleep.
LEMMA SchedulePreserves ==
  ASSUME IInv, NEW s \in [Tids -> States], NEW q, Queued(q, s), Schedule(s, q),
         \A t \in Tids : s[t] = st[t] \/ (s[t] \in Alive /\ st[t] \in Alive),
         \A t \in Tids : s[t] = "running" => t = current,
         s[Main] \in Ready,
         TypeRest', PcOwners', wfp'[Gui] = NoPid,
         \A t \in Tids : s[t] = "blocked" /\ wfp'[t] # NoPid =>
            wfp'[t] \in all /\ s[wfp'[t]] \in Alive,
         UNCHANGED <<all, nextId>>
  PROVE  IInv'
  <1>1. current \in Tids /\ heap \in [Tids -> HeapView] /\ all \subseteq Tids
        /\ nextId \in Gui + 1 .. MaxTid + 1 /\ toFree \in Tids \cup {Nobody}
    BY DEF IInv, TypeOK
  <1>2. /\ st' \in [Tids -> States]
        /\ Queued(runq', st')
        /\ current' \in Tids /\ st'[current'] = "running"
        /\ \A t \in Tids : st'[t] = "running" => t = current'
        /\ \A t \in Tids : s[t] \in Ready => st'[t] \in Ready
        /\ \A t \in Tids : s[t] \notin Ready => st'[t] = s[t]
        /\ heap' = Free(heap, Reclaimed)
        /\ toFree' = Nobody
    BY <1>1, ScheduleSwitches
  <1>3. \A t \in Tids : st'[t] = st[t] \/ (st'[t] \in Alive /\ st[t] \in Alive)
    BY <1>2 DEF Alive, Ready
  <1>4. \A t \in Tids : s[t] \in Alive <=> st'[t] \in Alive
    BY <1>2 DEF Alive, Ready
  <1>5. TypeOK'
    <2>1. heap' \in [Tids -> HeapView]
      BY <1>1, <1>2, FreeOnly
    <2>2. runq' \in Seq(Tids)
      BY <1>2 DEF Queued
    <2> QED BY <1>1, <1>2, <2>1, <2>2 DEF TypeOK, TypeRest
  <1>6. RunQueueExact'
    BY <1>2 DEF RunQueueExact, Queued
  <1>7. CpuOwner'
    BY <1>2 DEF CpuOwner
  <1>8. SchedulableIsLive'
    <2> SUFFICES ASSUME NEW t \in Tids, st'[t] \in Alive
                 PROVE  heap'[t] = "live"
      BY DEF SchedulableIsLive
    <2>1. st[t] \in Alive /\ heap[t] = "live"
      BY <1>3 DEF IInv, SchedulableIsLive
    <2>2. t \notin Reclaimed
      BY <2>1 DEF IInv, Supporting, Reclaimed, Alive, Ready
    <2> QED BY <1>1, <1>2, <2>1, <2>2, FreeOnly
  <1>9. WaitTargetPending'
    <2> SUFFICES ASSUME NEW t \in Tids, st'[t] = "blocked", wfp'[t] # NoPid
                 PROVE  wfp'[t] \in all' /\ st'[wfp'[t]] \in Alive
      BY DEF WaitTargetPending
    <2>1. s[t] = "blocked"
      BY <1>2 DEF Ready
    <2>2. wfp'[t] \in Tids
      BY DEF TypeRest
    <2> QED BY <2>1, <2>2, <1>4
  <1>10. Supporting'
    <2>1. st'[Main] \in Ready
      BY <1>2, BootTidsAreTids
    <2>2. /\ \A t \in Tids : st'[t] = "unborn" <=> t >= nextId'
          /\ \A t \in Tids : st'[t] \in Alive => t \in all'
          /\ \A t \in all' : st'[t] # "unborn"
      BY <1>1, <1>3 DEF IInv, Supporting, Alive, Ready
    <2> QED BY <1>2, <2>1, <2>2 DEF Supporting, PcOwners
  <1> QED BY <1>5, <1>6, <1>7, <1>8, <1>9, <1>10 DEF IInv

\* schedule() entered with the states and the queue as they are.
LEMMA PlainSchedulePreserves ==
  ASSUME IInv, Schedule(st, runq), TypeRest', PcOwners',
         UNCHANGED <<all, wfp, nextId>>
  PROVE  IInv'
  <1>1. st \in [Tids -> States] /\ Queued(runq, st)
    BY RunQueueIsQueued DEF IInv, TypeOK
  <1>2. \A t \in Tids : st[t] = "running" => t = current
    BY DEF IInv, CpuOwner
  <1>3. st[Main] \in Ready /\ wfp'[Gui] = NoPid
    BY DEF IInv, Supporting
  <1>4. \A t \in Tids : st[t] = "blocked" /\ wfp'[t] # NoPid =>
          wfp'[t] \in all /\ st[wfp'[t]] \in Alive
    BY DEF IInv, WaitTargetPending
  <1> QED BY <1>1, <1>2, <1>3, <1>4, SchedulePreserves

\* scheduler_wake_gui_thread() and schedule(), as the IRQ handlers do.
LEMMA WakePreserves ==
  ASSUME IInv, WakeGuiAndSchedule, TypeRest', PcOwners',
         UNCHANGED <<all, wfp, nextId>>
  PROVE  IInv'
  <1>1. CASE ~GuiSleeping
    BY <1>1, PlainSchedulePreserves DEF WakeGuiAndSchedule
  <1>2. CASE GuiSleeping
    <2> DEFINE s == [st EXCEPT ![guiPtr] = "runnable"]
               q == Append(runq, guiPtr)
    <2>1. /\ st \in [Tids -> States] /\ Queued(runq, st)
          /\ guiPtr = Gui /\ st[Gui] = "blocked" /\ Gui \in Tids
      BY <1>2, RunQueueIsQueued, BootTidsAreTids DEF IInv, TypeOK, GuiSleeping
    <2>2. Queued(q, s)
      BY <2>1, EnqueueQueued
    <2>3. Schedule(s, q)
      BY <1>2 DEF WakeGuiAndSchedule
    <2>4. /\ s \in [Tids -> States]
          /\ \A t \in Tids : s[t] = st[t] \/ (s[t] \in Alive /\ st[t] \in Alive)
          /\ \A t \in Tids : s[t] = "blocked" => st[t] = "blocked"
          /\ \A t \in Tids : s[t] = "running" => st[t] = "running"
          /\ \A t \in Tids : st[t] \in Alive => s[t] \in Alive
      BY <2>1 DEF States, Alive, Ready
    <2>5. s[Main] \in Ready
      BY <2>1, BootTidsAreTids DEF IInv, Supporting
    <2> HIDE DEF s, q
    <2>6. \A t \in Tids : s[t] = "running" => t = current
      BY <2>4 DEF IInv, CpuOwner
    <2>7. \A t \in Tids : s[t] = "blocked" /\ wfp'[t] # NoPid =>
            wfp'[t] \in all /\ s[wfp'[t]] \in Alive
      BY <2>4 DEF IInv, WaitTargetPending, TypeOK
    <2>8. wfp'[Gui] = NoPid
      BY DEF IInv, Supporting
    <2> QED BY <2>2, <2>3, <2>4, <2>5, <2>6, <2>7, <2>8, SchedulePreserves
  <1> QED BY <1>1, <1>2

\* The typing of pc and the owners of its values survive a move of one thread
\* between two of its own resume points.
LEMMA PcMove ==
  ASSUME IInv, NEW t \in Tids, NEW p,
         \/ t = Gui /\ p \in GuiPcs
         \/ t \notin {Main, Gui} /\ p \in {"user"} \cup SyscallPcs,
         pc' = [pc EXCEPT ![t] = p]
  PROVE  pc' \in [Tids -> OpenPcs \cup SyscallPcs] /\ PcOwners'
  BY BootTidsAreTids DEF IInv, TypeOK, Supporting, PcOwners, GuiPcs, OpenPcs, SyscallPcs

\* Steps that write neither the thread states nor the queue, the lists and
\* the heap.
LEMMA FlagsPreserve ==
  ASSUME IInv, TypeRest', PcOwners',
         UNCHANGED <<current, runq, st, heap, all, wfp, toFree, nextId>>,
         st[current] = "running" \/ pc' = pc
  PROVE  IInv'
  <1>1. TypeOK'
    BY DEF IInv, TypeOK, TypeRest
  <1>2. RunQueueExact'
    BY DEF IInv, RunQueueExact
  <1>3. CpuOwner'
    BY DEF IInv, CpuOwner
  <1>4. SchedulableIsLive' /\ WaitTargetPending'
    BY DEF IInv, SchedulableIsLive, WaitTargetPending
  <1>5. Supporting'
    BY DEF IInv, Supporting, PcOwners
  <1> QED BY <1>1, <1>2, <1>3, <1>4, <1>5 DEF IInv

\* Processes make system calls; neither the boot nor the GUI thread does.
LEMMA CallerIsProcess ==
  ASSUME IInv, NEW t \in Tids, current = t, pc[t] \in {"user", "read", "wait"}
  PROVE  t \notin {Main, Gui} /\ st[t] = "running"
  BY BootTidsAreTids DEF IInv, Supporting, CpuOwner, GuiPcs

-----------------------------------------------------------------------------
(* One lemma for every action that does more than schedule().              *)

LEMMA GuiBlockPreserves == IInv /\ GuiBlock => IInv'
  <1> SUFFICES ASSUME IInv, GuiBlock PROVE IInv'
    OBVIOUS
  <1>1. /\ current = Gui /\ pc[Gui] = "armed" /\ st[Gui] = "running" /\ Gui \in Tids
        /\ Gui # Main
    BY BootTidsAreTids DEF GuiBlock, GuiOnly, GuiAt, IInv, CpuOwner
  <1>2. /\ st' = [st EXCEPT ![Gui] = "blocked"]
        /\ pc' = [pc EXCEPT ![Gui] = "asleep"]
        /\ UNCHANGED <<current, runq, heap, all, parent, wfp, toFree, nextId,
                       waitArg, guiPtr, alarm, complete, halted>>
    BY DEF GuiBlock, GuiOnly
  <1>3. pc' \in [Tids -> OpenPcs \cup SyscallPcs] /\ PcOwners'
    BY <1>1, <1>2, PcMove DEF GuiPcs
  <1>4. TypeOK'
    BY <1>1, <1>2, <1>3 DEF IInv, TypeOK, States
  <1>5. RunQueueExact'
    BY <1>1, <1>2 DEF IInv, RunQueueExact, TypeOK
  <1>6. CpuOwner'
    BY <1>1, <1>2 DEF IInv, CpuOwner, TypeOK
  <1>7. SchedulableIsLive'
    BY <1>1, <1>2 DEF IInv, SchedulableIsLive, TypeOK, Alive, Ready
  <1>8. WaitTargetPending'
    <2>1. wfp[Gui] = NoPid
      BY DEF IInv, Supporting
    <2> QED BY <1>1, <1>2, <2>1 DEF IInv, WaitTargetPending, TypeOK, Alive, Ready
  <1>9. Supporting'
    BY <1>1, <1>2, <1>3 DEF IInv, Supporting, TypeOK, PcOwners, Alive, Ready
  <1> QED BY <1>4, <1>5, <1>6, <1>7, <1>8, <1>9 DEF IInv

LEMMA SysForkPreserves ==
  ASSUME IInv, NEW t \in Tids, SysFork(t)
  PROVE  IInv'
  <1> DEFINE n == nextId
  <1>1. /\ n \in Tids /\ n > Gui /\ n # Main /\ n # Gui /\ n + 1 \in Gui + 1 .. MaxTid + 1
        /\ Gui \in Nat
    BY BootAssumption DEF SysFork, IInv, TypeOK, Tids, Gui, Main
  <1>2. st[n] = "unborn" /\ current = t /\ pc[t] = "user" /\ t # n
    BY <1>1 DEF SysFork, InUser, IInv, Supporting, CpuOwner, Tids
  <1>3. /\ nextId' = n + 1
        /\ st' = [st EXCEPT ![n] = "runnable"]
        /\ heap' = [heap EXCEPT ![n] = "live"]
        /\ parent' = [parent EXCEPT ![n] = t]
        /\ wfp' = [wfp EXCEPT ![n] = NoPid]
        /\ pc' = [pc EXCEPT ![n] = "user"]
        /\ all' = all \cup {n}
        /\ runq' = Append(runq, n)
        /\ UNCHANGED <<current, toFree, waitArg, guiPtr, alarm, complete, halted>>
    BY DEF SysFork
  <1>4. pc' \in [Tids -> OpenPcs \cup SyscallPcs] /\ PcOwners'
    BY <1>1, <1>3, PcMove
  <1>5. Queued(runq', st')
    BY <1>1, <1>2, <1>3, RunQueueIsQueued, EnqueueQueued DEF IInv, TypeOK
  <1> HIDE DEF n
  <1>6. TypeOK'
    <2>1. runq' \in Seq(Tids)
      BY <1>5 DEF Queued
    <2>2. NoPid \in Tids
      BY BootTidsAreTids DEF NoPid, Main
    <2> QED BY <1>1, <1>3, <1>4, <2>1, <2>2 DEF IInv, TypeOK, States, HeapView
  <1>7. RunQueueExact'
    BY <1>5 DEF Queued, RunQueueExact
  <1>8. CpuOwner'
    BY <1>1, <1>2, <1>3 DEF IInv, CpuOwner, TypeOK
  <1>9. SchedulableIsLive'
    BY <1>1, <1>3 DEF IInv, SchedulableIsLive, TypeOK
  <1>10. WaitTargetPending'
    <2> SUFFICES ASSUME NEW x \in Tids, st'[x] = "blocked", wfp'[x] # NoPid
                 PROVE  wfp'[x] \in all' /\ st'[wfp'[x]] \in Alive
      BY DEF WaitTargetPending
    <2>1. x # n /\ st[x] = "blocked" /\ wfp'[x] = wfp[x]
      BY <1>1, <1>3 DEF IInv, TypeOK
    <2>2. wfp[x] \in all /\ st[wfp[x]] \in Alive
      BY <2>1 DEF IInv, WaitTargetPending
    <2> QED BY <1>1, <1>2, <1>3, <2>1, <2>2 DEF IInv, TypeOK, Alive, Ready
  <1>11. Supporting'
    <2>1. \A x \in Tids : st'[x] = "unborn" <=> x >= nextId'
      BY <1>1, <1>3 DEF IInv, Supporting, TypeOK, Tids, n
    <2>2. /\ \A x \in Tids : st'[x] \in Alive => x \in all'
          /\ \A x \in all' : st'[x] # "unborn"
      BY <1>1, <1>3 DEF IInv, Supporting, TypeOK
    <2>3. /\ st'[Main] \in Ready /\ wfp'[Gui] = NoPid
          /\ toFree' # Nobody => st'[toFree'] = "terminated"
      BY <1>1, <1>2, <1>3, BootTidsAreTids DEF IInv, Supporting, TypeOK
    <2> QED BY <1>4, <2>1, <2>2, <2>3 DEF Supporting, PcOwners
  <1> QED BY <1>6, <1>7, <1>8, <1>9, <1>10, <1>11 DEF IInv

\* Reaping an ended thread disturbs no thread that is still scheduled.
LEMMA ReapPreserves ==
  ASSUME IInv, NEW p \in Tids, st[p] = "terminated", Reap(p),
         TypeRest', PcOwners', st[current] = "running",
         UNCHANGED <<current, runq, st, wfp, toFree, nextId>>
  PROVE  IInv'
  <1>1. all' = all \ {p} /\ heap' = Free(heap, {p})
    BY DEF Reap
  <1>2. /\ heap' \in [Tids -> HeapView]
        /\ \A t \in Tids : t # p => heap'[t] = heap[t]
    BY <1>1, FreeOnly DEF IInv, TypeOK
  <1>3. TypeOK'
    BY <1>1, <1>2 DEF IInv, TypeOK, TypeRest
  <1>4. RunQueueExact'
    BY DEF IInv, RunQueueExact
  <1>5. CpuOwner'
    BY DEF IInv, CpuOwner
  <1>6. SchedulableIsLive'
    BY <1>2 DEF IInv, SchedulableIsLive, Alive, Ready
  <1>7. WaitTargetPending'
    BY <1>1 DEF IInv, WaitTargetPending, Alive, Ready
  <1>8. Supporting'
    BY <1>1 DEF IInv, Supporting, PcOwners, Alive, Ready
  <1> QED BY <1>3, <1>4, <1>5, <1>6, <1>7, <1>8 DEF IInv

LEMMA SysWaitReapPreserves ==
  ASSUME IInv, NEW t \in Tids, NEW p \in Tids, SysWaitReap(t, p)
  PROVE  IInv'
  <1>1. st[current] = "running"
    BY CallerIsProcess DEF SysWaitReap, InUser
  <1>2. TypeRest' /\ PcOwners'
    BY DEF SysWaitReap, TypeRest, PcOwners, IInv, TypeOK, Supporting
  <1> QED BY <1>1, <1>2, ReapPreserves DEF SysWaitReap

LEMMA SysWaitWokenPreserves ==
  ASSUME IInv, NEW t \in Tids, SysWaitWoken(t)
  PROVE  IInv'
  <1> DEFINE p == waitArg[t]
  <1>1. t \notin {Main, Gui} /\ st[current] = "running"
    BY CallerIsProcess DEF SysWaitWoken
  <1>2. TypeRest' /\ PcOwners'
    <2>1. pc' = [pc EXCEPT ![t] = "user"]
      BY DEF SysWaitWoken
    <2>2. pc' \in [Tids -> OpenPcs \cup SyscallPcs] /\ PcOwners'
      BY <1>1, <2>1, PcMove
    <2> QED BY <2>2 DEF SysWaitWoken, TypeRest, IInv, TypeOK
  <1>3. p \in Tids
    BY DEF IInv, TypeOK
  <1>4. CASE p \in all /\ st[p] = "terminated"
    BY <1>1, <1>2, <1>3, <1>4, ReapPreserves DEF SysWaitWoken
  <1>5. CASE ~(p \in all /\ st[p] = "terminated")
    BY <1>1, <1>2, <1>5, FlagsPreserve DEF SysWaitWoken
  <1> QED BY <1>4, <1>5

LEMMA SysWaitBlockPreserves ==
  ASSUME IInv, NEW t \in Tids, NEW p \in Tids, SysWaitBlock(t, p)
  PROVE  IInv'
  <1> DEFINE s == [st EXCEPT ![t] = "blocked"]
  <1>1. /\ current = t /\ t \notin {Main, Gui} /\ st[t] = "running"
        /\ st \in [Tids -> States] /\ wfp \in [Tids -> Tids]
    BY CallerIsProcess DEF SysWaitBlock, InUser, IInv, TypeOK
  <1>2. /\ p \in all /\ st[p] # "terminated" /\ Schedule(s, runq)
        /\ wfp' = [wfp EXCEPT ![t] = p]
        /\ waitArg' = [waitArg EXCEPT ![t] = p]
        /\ pc' = [pc EXCEPT ![t] = "wait"]
        /\ UNCHANGED <<all, parent, nextId, guiPtr, alarm, complete, halted>>
    BY DEF SysWaitBlock
  <1>3. st[p] \in Alive
    BY <1>1, <1>2 DEF IInv, Supporting, States, Alive, Ready
  <1>4. TypeRest' /\ PcOwners'
    <2>1. pc' \in [Tids -> OpenPcs \cup SyscallPcs] /\ PcOwners'
      BY <1>1, <1>2, PcMove DEF SyscallPcs
    <2> QED BY <1>1, <1>2, <2>1 DEF TypeRest, IInv, TypeOK
  <1>5. Queued(runq, s)
    <2>1. Queued(runq, st)
      BY RunQueueIsQueued DEF IInv, TypeOK
    <2> QED BY <2>1, <1>1 DEF Queued
  <1>6. /\ s \in [Tids -> States]
        /\ \A x \in Tids : s[x] = st[x] \/ (s[x] \in Alive /\ st[x] \in Alive)
        /\ \A x \in Tids : s[x] = "running" => x = current
        /\ \A x \in Tids : st[x] \in Alive => s[x] \in Alive
        /\ \A x \in Tids : x # t => s[x] = st[x]
    BY <1>1 DEF States, Alive, Ready, IInv, CpuOwner
  <1>7. s[Main] \in Ready
    BY <1>1, <1>6, BootTidsAreTids DEF IInv, Supporting
  <1>8. wfp'[Gui] = NoPid
    BY <1>1, <1>2 DEF IInv, Supporting
  <1>9. \A x \in Tids : s[x] = "blocked" /\ wfp'[x] # NoPid =>
          wfp'[x] \in all /\ s[wfp'[x]] \in Alive
    <2> SUFFICES ASSUME NEW x \in Tids, s[x] = "blocked", wfp'[x] # NoPid
                 PROVE  wfp'[x] \in all /\ s[wfp'[x]] \in Alive
      OBVIOUS
    <2>1. CASE x = t
      BY <2>1, <1>1, <1>2, <1>3, <1>6
    <2>2. CASE x # t
      <3>1. st[x] = "blocked" /\ wfp'[x] = wfp[x] /\ wfp[x] \in Tids
        BY <2>2, <1>1, <1>2, <1>6
      <3>2. wfp[x] \in all /\ st[wfp[x]] \in Alive
        BY <3>1 DEF IInv, WaitTargetPending
      <3> QED BY <3>1, <3>2, <1>6
    <2> QED BY <2>1, <2>2
  <1> HIDE DEF s
  <1> QED BY <1>2, <1>4, <1>5, <1>6, <1>7, <1>8, <1>9, SchedulePreserves

\* What an exit does to the thread states, the queue and the books: the thread
\* is gone, its waiters run again, nobody else is affected, and the boot thread
\* at least is there to switch to.
LEMMA ThreadExitEffect ==
  ASSUME IInv, ThreadExit, st[current] = "running", current # Main
  PROVE  /\ heap' = Free(Free(heap, Reclaimed), Zombies)
         /\ all' = all \ Zombies
         /\ parent' = [x \in Tids |-> IF x \in Orphans THEN Adopter ELSE parent[x]]
         /\ wfp' = [x \in Tids |-> IF x \in Waiters THEN NoPid ELSE wfp[x]]
         /\ toFree' = Parked
         /\ UNCHANGED <<nextId, pc, waitArg, guiPtr, alarm, complete, halted>>
         /\ current' \in Tids /\ Queued(runq', st')
         /\ st' \in [Tids -> States] /\ st'[current'] = "running"
         /\ st'[Main] \in Ready
         /\ \A x \in Tids : st'[x] = "running" => x = current'
         /\ \A x \in Tids : st'[x] \in Alive <=> x # current /\ st[x] \in Alive
         /\ \A x \in Tids : st'[x] = "unborn" <=> st[x] = "unborn"
         /\ \A x \in Tids : st'[x] = "blocked" <=> st[x] = "blocked" /\ x \notin Waiters
         /\ \A x \in Tids : st'[x] = "terminated" <=> x = current \/ st[x] = "terminated"
  <1> DEFINE s0 == [st EXCEPT ![current] = "terminated"]
             s1 == [x \in Tids |-> IF x = current THEN "terminated"
                                   ELSE IF x \in Waiters THEN "runnable" ELSE st[x]]
  <1>1. PICK woken \in NewestFirst(Waiters) :
          LET q1 == runq \o woken
              i  == DequeueIndex(q1)
          IN  /\ heap' = Free(Free(heap, Reclaimed), Zombies)
              /\ all' = all \ Zombies
              /\ parent' = [x \in Tids |-> IF x \in Orphans THEN Adopter ELSE parent[x]]
              /\ wfp' = [x \in Tids |-> IF x \in Waiters THEN NoPid ELSE wfp[x]]
              /\ IF q1 = << >>
                   THEN /\ halted' = TRUE
                        /\ st' = s1
                        /\ runq' = q1
                        /\ toFree' = Nobody
                        /\ UNCHANGED current
                   ELSE /\ st' = [s1 EXCEPT ![q1[i]] = "running"]
                        /\ current' = q1[i]
                        /\ runq' = RemoveAt(q1, i)
                        /\ toFree' = Parked
                        /\ UNCHANGED halted
              /\ UNCHANGED <<nextId, pc, waitArg, guiPtr, alarm, complete>>
    BY DEF ThreadExit
  <1> DEFINE q1 == runq \o woken
             i  == DequeueIndex(q1)
  <1>2. /\ st \in [Tids -> States] /\ heap \in [Tids -> HeapView] /\ current \in Tids
        /\ all \subseteq Tids /\ wfp \in [Tids -> Tids] /\ parent \in [Tids -> Tids]
        /\ toFree \in Tids \cup {Nobody} /\ Queued(runq, st)
    BY RunQueueIsQueued DEF IInv, TypeOK
  <1>3. /\ Waiters \subseteq Tids /\ current \notin Waiters
        /\ \A x \in Waiters : st[x] = "blocked"
        /\ Zombies \subseteq all
        /\ \A x \in Zombies : st[x] = "terminated"
    BY <1>2 DEF Waiters, Zombies, Orphans
  <1>4. Queued(runq, s0) /\ s0 \in [Tids -> States]
    BY <1>2 DEF Queued, States
  <1>5. Queued(q1, s1)
    <2>1. Queued(q1, [x \in Tids |-> IF x \in Waiters THEN "runnable" ELSE s0[x]])
      <3>1. \A x \in Waiters : s0[x] # "runnable"
        BY <1>2, <1>3
      <3>2. Waiters \subseteq Tids
        BY <1>3
      <3> HIDE DEF s0
      <3> QED BY <3>1, <3>2, <1>4, WakeAllQueued
    <2>2. s1 = [x \in Tids |-> IF x \in Waiters THEN "runnable" ELSE s0[x]]
      BY <1>2, <1>3
    <2> QED BY <2>1, <2>2
  <1>6. /\ s1 \in [Tids -> States] /\ s1[current] = "terminated"
        /\ \A x \in Tids : s1[x] # "running"
        /\ \A x \in Tids : x # current /\ x \notin Waiters => s1[x] = st[x]
        /\ \A x \in Waiters : s1[x] = "runnable"
    BY <1>2, <1>3 DEF States, IInv, CpuOwner
  <1>7. s1[Main] = "runnable"
    BY <1>2, <1>3, <1>6, BootTidsAreTids DEF IInv, Supporting, Ready
  <1>8. q1 # << >>
    <2>1. \E k \in DOMAIN q1 : q1[k] = Main
      BY <1>5, <1>7, BootTidsAreTids DEF Queued
    <2>2. DOMAIN << >> = {}
      OBVIOUS
    <2> QED BY <2>1, <2>2
  <1>9. /\ heap' = Free(Free(heap, Reclaimed), Zombies)
        /\ all' = all \ Zombies
        /\ parent' = [x \in Tids |-> IF x \in Orphans THEN Adopter ELSE parent[x]]
        /\ wfp' = [x \in Tids |-> IF x \in Waiters THEN NoPid ELSE wfp[x]]
        /\ st' = [s1 EXCEPT ![q1[i]] = "running"]
        /\ current' = q1[i]
        /\ runq' = RemoveAt(q1, i)
        /\ toFree' = Parked
        /\ UNCHANGED <<nextId, pc, waitArg, guiPtr, alarm, complete, halted>>
    BY <1>1, <1>8
  <1> HIDE DEF s0, s1, q1, i
  <1>10. i \in DOMAIN q1
    BY <1>5, <1>8, DequeueIndexInQueue DEF i
  <1>11. current' \in Tids /\ s1[current'] = "runnable" /\ Queued(runq', st')
    BY <1>5, <1>6, <1>9, <1>10, UnlinkQueued
  <1>12. /\ st' \in [Tids -> States] /\ st'[current'] = "running"
         /\ \A x \in Tids : x # current' => st'[x] = s1[x]
    BY <1>6, <1>9, <1>11 DEF States
  <1>13. current' # current /\ st[current'] \in Alive
    BY <1>3, <1>6, <1>11 DEF Alive, Ready
  <1>14. st'[Main] \in Ready /\ \A x \in Tids : st'[x] = "running" => x = current'
    BY <1>6, <1>7, <1>12, BootTidsAreTids DEF Ready
  <1>15. \A x \in Tids : /\ s1[x] \in Alive <=> x # current /\ st[x] \in Alive
                         /\ s1[x] = "unborn" <=> st[x] = "unborn"
                         /\ s1[x] = "blocked" <=> st[x] = "blocked" /\ x \notin Waiters
                         /\ s1[x] = "terminated" <=> x = current \/ st[x] = "terminated"
    BY <1>2, <1>3, <1>6 DEF Alive, Ready
  <1>16. \A x \in Tids : /\ st'[x] \in Alive <=> x # current /\ st[x] \in Alive
                         /\ st'[x] = "unborn" <=> st[x] = "unborn"
                         /\ st'[x] = "blocked" <=> st[x] = "blocked" /\ x \notin Waiters
                         /\ st'[x] = "terminated" <=> x = current \/ st[x] = "terminated"
    BY <1>11, <1>12, <1>13, <1>15 DEF Alive, Ready
  <1> QED BY <1>9, <1>11, <1>12, <1>14, <1>16

LEMMA ThreadExitPreserves ==
  ASSUME IInv, ThreadExit, st[current] = "running", current # Main
  PROVE  IInv'
  <1>2. /\ st \in [Tids -> States] /\ heap \in [Tids -> HeapView] /\ current \in Tids
        /\ all \subseteq Tids /\ wfp \in [Tids -> Tids] /\ parent \in [Tids -> Tids]
        /\ toFree \in Tids \cup {Nobody}
    BY DEF IInv, TypeOK
  <1>3. Zombies \subseteq all /\ \A x \in Zombies : st[x] = "terminated"
    BY DEF Zombies, Orphans
  <1>9. /\ heap' = Free(Free(heap, Reclaimed), Zombies)
        /\ all' = all \ Zombies
        /\ parent' = [x \in Tids |-> IF x \in Orphans THEN Adopter ELSE parent[x]]
        /\ wfp' = [x \in Tids |-> IF x \in Waiters THEN NoPid ELSE wfp[x]]
        /\ toFree' = Parked
        /\ UNCHANGED <<nextId, pc, waitArg, guiPtr, alarm, complete, halted>>
    BY ThreadExitEffect
  <1>11. current' \in Tids /\ Queued(runq', st')
    BY ThreadExitEffect
  <1>12. /\ st' \in [Tids -> States] /\ st'[current'] = "running" /\ st'[Main] \in Ready
         /\ \A x \in Tids : st'[x] = "running" => x = current'
         /\ \A x \in Tids : st'[x] \in Alive <=> x # current /\ st[x] \in Alive
         /\ \A x \in Tids : st'[x] = "unborn" <=> st[x] = "unborn"
         /\ \A x \in Tids : st'[x] = "blocked" <=> st[x] = "blocked" /\ x \notin Waiters
         /\ \A x \in Tids : st'[x] = "terminated" <=> x = current \/ st[x] = "terminated"
    BY ThreadExitEffect
  <1>13. \A x \in Tids : x \notin Reclaimed /\ x \notin Zombies => heap'[x] = heap[x]
    BY <1>2, <1>9, FreeOnly
  <1>14. TypeOK'
    <2>1. heap' \in [Tids -> HeapView]
      BY <1>2, <1>9, FreeOnly
    <2>2. parent' \in [Tids -> Tids] /\ wfp' \in [Tids -> Tids]
      BY <1>2, <1>9, BootTidsAreTids DEF NoPid, Main, Adopter
    <2>3. runq' \in Seq(Tids)
      BY <1>11 DEF Queued
    <2> QED BY <2>1, <2>2, <2>3, <1>2, <1>9, <1>11, <1>12 DEF IInv, TypeOK, Parked
  <1>15. RunQueueExact'
    BY <1>11 DEF RunQueueExact, Queued
  <1>16. CpuOwner'
    BY <1>12 DEF CpuOwner
  <1>17. SchedulableIsLive'
    <2> SUFFICES ASSUME NEW x \in Tids, st'[x] \in Alive
                 PROVE  heap'[x] = "live"
      BY DEF SchedulableIsLive
    <2>1. st[x] \in Alive /\ heap[x] = "live"
      BY <1>12 DEF IInv, SchedulableIsLive
    <2>2. x \notin Reclaimed /\ x \notin Zombies
      BY <2>1, <1>3 DEF IInv, Supporting, Reclaimed, Alive, Ready
    <2> QED BY <2>1, <2>2, <1>13
  <1>18. WaitTargetPending'
    <2> SUFFICES ASSUME NEW x \in Tids, st'[x] = "blocked", wfp'[x] # NoPid
                 PROVE  wfp'[x] \in all' /\ st'[wfp'[x]] \in Alive
      BY DEF WaitTargetPending
    <2>1. st[x] = "blocked" /\ x \notin Waiters /\ wfp'[x] = wfp[x] /\ x \in all
      BY <1>9, <1>12 DEF IInv, Supporting, Alive
    <2>2. wfp[x] # current
      BY <2>1 DEF Waiters
    <2>3. wfp[x] \in all /\ st[wfp[x]] \in Alive /\ wfp[x] \in Tids
      BY <2>1, <1>2 DEF IInv, WaitTargetPending
    <2> QED BY <2>1, <2>2, <2>3, <1>3, <1>9, <1>12 DEF Alive, Ready
  <1>19. Supporting'
    <2>1. st'[Main] \in Ready
      BY <1>12
    <2>2. wfp'[Gui] = NoPid
      BY <1>9, BootTidsAreTids DEF IInv, Supporting
    <2>3. \A x \in Tids : st'[x] \in Alive => x \in all'
      BY <1>3, <1>9, <1>12 DEF IInv, Supporting, Alive, Ready
    <2>4. /\ \A x \in all' : st'[x] # "unborn"
          /\ \A x \in Tids : st'[x] = "unborn" <=> x >= nextId'
      BY <1>2, <1>9, <1>12 DEF IInv, Supporting
    <2>5. toFree' # Nobody => st'[toFree'] = "terminated"
      BY <1>2, <1>9, <1>12 DEF Parked
    <2>6. \A t \in Tids : (pc'[t] = "main" <=> t = Main) /\ (pc'[t] \in GuiPcs <=> t = Gui)
      BY <1>9 DEF IInv, Supporting
    <2> QED BY <2>1, <2>2, <2>3, <2>4, <2>5, <2>6 DEF Supporting
  <1> QED BY <1>14, <1>15, <1>16, <1>17, <1>18, <1>19 DEF IInv

-----------------------------------------------------------------------------
(* Custody: who frees a dead thread.  One lemma per kind of step again.    *)

\* What waitpid in progress requires of the thread states s and of the wfp, pc
\* and waitArg it is given.
WaitersServed(s, w, c, a) ==
  \A t \in Tids : c[t] = "wait" =>
    /\ a[t] \in all' /\ parent'[a[t]] = t
    /\ IF s[t] = "blocked" THEN w[t] = a[t] ELSE s[a[t]] = "terminated"

\* A waiter's child is a thread.
LEMMA WaitedAreTids ==
  ASSUME IInv, Custody, NEW t \in Tids, pc[t] = "wait"
  PROVE  /\ waitArg[t] \in all /\ waitArg[t] \in Tids /\ parent[waitArg[t]] = t
         /\ t # Main
         /\ st[t] = "blocked" => wfp[t] = waitArg[t]
         /\ st[t] # "blocked" => st[waitArg[t]] = "terminated"
  BY DEF Custody, IInv, TypeOK, Supporting

\* schedule() frees the parked thread and nothing else.
LEMMA ScheduleCustody ==
  ASSUME IInv, Custody, NEW s \in [Tids -> States], NEW q, Queued(q, s), Schedule(s, q),
         \A t \in Tids : s[t] = st[t] \/ (s[t] \in Alive /\ st[t] \in Alive),
         \A t \in Tids : s[t] = "running" => t = current,
         s[Main] \in Ready,
         UNCHANGED <<all, parent>>,
         WaitersServed(s, wfp', pc', waitArg')
  PROVE  Custody'
  <1>1. /\ current \in Tids /\ heap \in [Tids -> HeapView] /\ all \subseteq Tids
        /\ toFree \in Tids \cup {Nobody} /\ st \in [Tids -> States]
        /\ parent \in [Tids -> Tids]
    BY DEF IInv, TypeOK
  <1>2. /\ st' \in [Tids -> States]
        /\ \A t \in Tids : s[t] \in Ready => st'[t] \in Ready
        /\ \A t \in Tids : s[t] \notin Ready => st'[t] = s[t]
        /\ heap' = Free(heap, Reclaimed)
        /\ toFree' = Nobody
    BY <1>1, ScheduleSwitches
  <1>3. /\ \A t \in Tids : st'[t] \in Alive <=> st[t] \in Alive
        /\ \A t \in Tids : st'[t] = "terminated" <=> st[t] = "terminated"
        /\ \A t \in Tids : s[t] = "terminated" <=> st[t] = "terminated"
        /\ \A t \in Tids : st'[t] = "blocked" <=> s[t] = "blocked"
    BY <1>2 DEF Alive, Ready
  <1>4. /\ \A t \in Tids : t # toFree => heap'[t] = heap[t]
        /\ toFree # Nobody => heap'[toFree] = "freed" /\ parent[toFree] = Main
        /\ Nobody \notin Tids
    BY <1>1, <1>2, BootTidsAreTids DEF Free, Reclaimed, Custody
  <1>5. NoDoubleFree'
    BY <1>1, <1>4 DEF Custody, NoDoubleFree
  <1>6. /\ \A t \in all' : st'[parent'[t]] \in Alive
        /\ \A t \in Tids \ {Main} : parent'[t] # t
    BY <1>1, <1>3 DEF Custody
  <1>7. \A t \in all' : st'[t] = "terminated" /\ parent'[t] # Main => heap'[t] = "live"
    BY <1>1, <1>3, <1>4 DEF Custody
  <1>8. \A t \in Tids : st'[t] = "terminated" /\ heap'[t] = "live" =>
          t \in all' /\ parent'[t] # Main
    BY <1>1, <1>3, <1>4 DEF Custody
  <1>9. WaitersServed(st', wfp', pc', waitArg')
    BY <1>1, <1>3 DEF WaitersServed
  <1> QED BY <1>2, <1>5, <1>6, <1>7, <1>8, <1>9 DEF Custody, WaitersServed

\* schedule() entered with the states as they are.
LEMMA PlainScheduleCustody ==
  ASSUME IInv, Custody, Schedule(st, runq), UNCHANGED <<all, parent, wfp, waitArg>>,
         \A t \in Tids : pc'[t] = "wait" => pc[t] = "wait"
  PROVE  Custody'
  <1>1. st \in [Tids -> States] /\ Queued(runq, st)
    BY RunQueueIsQueued DEF IInv, TypeOK
  <1>2. (\A t \in Tids : st[t] = "running" => t = current) /\ st[Main] \in Ready
    BY DEF IInv, CpuOwner, Supporting
  <1>3. WaitersServed(st, wfp', pc', waitArg')
    BY DEF Custody, WaitersServed
  <1> QED BY <1>1, <1>2, <1>3, ScheduleCustody

\* The GUI thread is not in waitpid, so waking it serves no waiter.
LEMMA WakeCustody ==
  ASSUME IInv, Custody, WakeGuiAndSchedule, UNCHANGED <<all, parent, wfp, waitArg, pc>>
  PROVE  Custody'
  <1>1. CASE ~GuiSleeping
    BY <1>1, PlainScheduleCustody DEF WakeGuiAndSchedule
  <1>2. CASE GuiSleeping
    <2> DEFINE s == [st EXCEPT ![guiPtr] = "runnable"]
               q == Append(runq, guiPtr)
    <2>1. /\ st \in [Tids -> States] /\ Queued(runq, st)
          /\ guiPtr = Gui /\ st[Gui] = "blocked" /\ Gui \in Tids /\ pc[Gui] # "wait"
      BY <1>2, RunQueueIsQueued, BootTidsAreTids
      DEF IInv, TypeOK, GuiSleeping, Supporting, GuiPcs
    <2>2. Queued(q, s)
      BY <2>1, EnqueueQueued
    <2>3. Schedule(s, q)
      BY <1>2 DEF WakeGuiAndSchedule
    <2>4. /\ s \in [Tids -> States]
          /\ \A t \in Tids : t # Gui => s[t] = st[t]
          /\ s[Gui] \in Alive /\ st[Gui] \in Alive /\ s[Gui] # "running"
      BY <2>1 DEF States, Alive, Ready
    <2> HIDE DEF s, q
    <2>5. \A t \in Tids : s[t] = "running" => t = current
      BY <2>4 DEF IInv, CpuOwner
    <2>6. s[Main] \in Ready
      BY <2>4, BootTidsAreTids DEF IInv, Supporting
    <2>7. WaitersServed(s, wfp', pc', waitArg')
      <3> SUFFICES ASSUME NEW t \in Tids, pc[t] = "wait"
                   PROVE  /\ waitArg[t] \in all /\ parent[waitArg[t]] = t
                          /\ IF s[t] = "blocked" THEN wfp[t] = waitArg[t]
                                                 ELSE s[waitArg[t]] = "terminated"
        BY DEF WaitersServed
      <3>1. t # Gui /\ s[t] = st[t]
        BY <2>1, <2>4
      <3>2. st[waitArg[t]] = "terminated" => s[waitArg[t]] = "terminated"
        BY WaitedAreTids, <2>1, <2>4
      <3> QED BY <3>1, <3>2, WaitedAreTids
    <2> QED BY <2>2, <2>3, <2>4, <2>5, <2>6, <2>7, ScheduleCustody
  <1> QED BY <1>1, <1>2

\* Steps that change no thread's life: at most whether one outside waitpid
\* sleeps.
LEMMA FlagsCustody ==
  ASSUME IInv, Custody, UNCHANGED <<heap, all, parent, toFree, wfp, waitArg>>,
         \A t \in Tids : pc'[t] = "wait" => pc[t] = "wait" /\ st'[t] = st[t],
         \A t \in Tids : st'[t] = st[t] \/ (st'[t] \in Alive /\ st[t] \in Alive)
  PROVE  Custody'
  <1>1. all \subseteq Tids /\ parent \in [Tids -> Tids] /\ waitArg \in [Tids -> Tids]
    BY DEF IInv, TypeOK
  <1>2. \A t \in Tids : st'[t] \in Alive <=> st[t] \in Alive
    OBVIOUS
  <1>3. \A t \in Tids : st'[t] = "terminated" <=> st[t] = "terminated"
    BY DEF Alive, Ready
  <1>4. NoDoubleFree'
    BY DEF Custody, NoDoubleFree
  <1>5. /\ \A t \in all' : st'[parent'[t]] \in Alive
        /\ \A t \in all' : st'[t] = "terminated" /\ parent'[t] # Main => heap'[t] = "live"
        /\ \A t \in Tids : st'[t] = "terminated" /\ heap'[t] = "live" =>
             t = toFree' \/ (t \in all' /\ parent'[t] # Main)
    BY <1>1, <1>2, <1>3 DEF Custody
  <1>6. \A t \in Tids : pc'[t] = "wait" =>
          /\ waitArg'[t] \in all' /\ parent'[waitArg'[t]] = t
          /\ IF st'[t] = "blocked" THEN wfp'[t] = waitArg'[t]
                                   ELSE st'[waitArg'[t]] = "terminated"
    BY <1>1, <1>3 DEF Custody
  <1> QED BY <1>4, <1>5, <1>6 DEF Custody

\* A parent reaps its own zombie: nobody else waits for it, and it is neither
\* parked nor freed.
LEMMA ReapCustody ==
  ASSUME IInv, Custody, NEW p \in all, st[p] = "terminated", parent[p] # Main,
         Reap(p), UNCHANGED <<st, parent, toFree, wfp, waitArg>>,
         \A t \in Tids : pc'[t] = "wait" => pc[t] = "wait" /\ t # parent[p]
  PROVE  Custody'
  <1>1. /\ all \subseteq Tids /\ parent \in [Tids -> Tids] /\ waitArg \in [Tids -> Tids]
        /\ heap \in [Tids -> HeapView] /\ p \in Tids
    BY DEF IInv, TypeOK
  <1>2. /\ all' = all \ {p} /\ p # toFree
        /\ heap'[p] = "freed"
        /\ \A t \in Tids : t # p => heap'[t] = heap[t]
    <2>1. heap[p] = "live" /\ p # toFree
      BY <1>1, BootTidsAreTids DEF Custody
    <2> QED BY <1>1, <2>1 DEF Reap, Free
  <1>3. NoDoubleFree'
    BY <1>1, <1>2 DEF Custody, NoDoubleFree
  <1>4. toFree' # Nobody => heap'[toFree'] = "live" /\ parent'[toFree'] = Main
    BY <1>2 DEF Custody, IInv, TypeOK
  <1>5. /\ \A t \in all' : st'[parent'[t]] \in Alive
        /\ \A t \in all' : st'[t] = "terminated" /\ parent'[t] # Main => heap'[t] = "live"
        /\ \A t \in Tids : st'[t] = "terminated" /\ heap'[t] = "live" =>
             t = toFree' \/ (t \in all' /\ parent'[t] # Main)
    BY <1>1, <1>2 DEF Custody
  <1>6. \A t \in Tids : pc'[t] = "wait" =>
          /\ waitArg'[t] \in all' /\ parent'[waitArg'[t]] = t
          /\ IF st'[t] = "blocked" THEN wfp'[t] = waitArg'[t]
                                   ELSE st'[waitArg'[t]] = "terminated"
    BY <1>1, <1>2 DEF Custody
  <1>7. \A t \in Tids \ {Main} : parent'[t] # t
    BY DEF Custody
  <1> QED BY <1>3, <1>4, <1>5, <1>6, <1>7 DEF Custody

LEMMA SysWaitReapCustody ==
  ASSUME AnyPid = FALSE, IInv, Custody, NEW t \in Tids, NEW p \in Tids, SysWaitReap(t, p)
  PROVE  Custody'
  <1>1. t # Main /\ pc[t] = "user"
    BY CallerIsProcess DEF SysWaitReap, InUser
  <1>2. p \in all /\ parent[p] = t /\ st[p] = "terminated"
    BY DEF SysWaitReap, MayWaitFor
  <1> QED BY <1>1, <1>2, ReapCustody DEF SysWaitReap

LEMMA SysWaitWokenCustody ==
  ASSUME IInv, Custody, NEW t \in Tids, SysWaitWoken(t)
  PROVE  Custody'
  <1> DEFINE p == waitArg[t]
  <1>1. current = t /\ pc[t] = "wait" /\ t # Main /\ st[t] = "running"
    BY CallerIsProcess DEF SysWaitWoken
  <1>2. p \in all /\ parent[p] = t /\ st[p] = "terminated"
    BY <1>1, WaitedAreTids
  <1>3. /\ Reap(p) /\ pc' = [pc EXCEPT ![t] = "user"]
        /\ UNCHANGED <<st, parent, toFree, wfp, waitArg>>
    BY <1>2 DEF SysWaitWoken
  <1>4. \A x \in Tids : pc'[x] = "wait" => pc[x] = "wait" /\ x # parent[p]
    BY <1>1, <1>2, <1>3 DEF IInv, TypeOK
  <1> HIDE DEF p
  <1> QED BY <1>1, <1>2, <1>3, <1>4, ReapCustody

LEMMA SysWaitBlockCustody ==
  ASSUME AnyPid = FALSE, IInv, Custody, NEW t \in Tids, NEW p \in Tids, SysWaitBlock(t, p)
  PROVE  Custody'
  <1> DEFINE s == [st EXCEPT ![t] = "blocked"]
  <1>1. /\ current = t /\ t \notin {Main, Gui} /\ st[t] = "running"
        /\ st \in [Tids -> States] /\ wfp \in [Tids -> Tids]
        /\ waitArg \in [Tids -> Tids] /\ pc[t] = "user"
    BY CallerIsProcess DEF SysWaitBlock, InUser, IInv, TypeOK
  <1>2. /\ p \in all /\ parent[p] = t /\ Schedule(s, runq)
        /\ wfp' = [wfp EXCEPT ![t] = p]
        /\ waitArg' = [waitArg EXCEPT ![t] = p]
        /\ pc' = [pc EXCEPT ![t] = "wait"]
        /\ UNCHANGED <<all, parent>>
    BY DEF SysWaitBlock, MayWaitFor
  <1>3. Queued(runq, s)
    <2>1. Queued(runq, st)
      BY RunQueueIsQueued DEF IInv, TypeOK
    <2> QED BY <2>1, <1>1 DEF Queued
  <1>4. /\ s \in [Tids -> States]
        /\ \A x \in Tids : s[x] = st[x] \/ (s[x] \in Alive /\ st[x] \in Alive)
        /\ \A x \in Tids : s[x] = "running" => x = current
        /\ \A x \in Tids : x # t => s[x] = st[x]
        /\ s[t] = "blocked"
    BY <1>1 DEF States, Alive, Ready, IInv, CpuOwner
  <1>5. s[Main] \in Ready
    BY <1>1, <1>4, BootTidsAreTids DEF IInv, Supporting
  <1> HIDE DEF s
  <1>6. WaitersServed(s, wfp', pc', waitArg')
    <2> SUFFICES ASSUME NEW x \in Tids, pc'[x] = "wait"
                 PROVE  /\ waitArg'[x] \in all /\ parent[waitArg'[x]] = x
                        /\ IF s[x] = "blocked" THEN wfp'[x] = waitArg'[x]
                                               ELSE s[waitArg'[x]] = "terminated"
      BY <1>2 DEF WaitersServed
    <2>1. CASE x = t
      BY <2>1, <1>1, <1>2, <1>4
    <2>2. CASE x # t
      <3>1. pc[x] = "wait" /\ waitArg'[x] = waitArg[x] /\ wfp'[x] = wfp[x] /\ s[x] = st[x]
        BY <2>2, <1>1, <1>2, <1>4 DEF IInv, TypeOK
      <3>2. st[waitArg[x]] = "terminated" => s[waitArg[x]] = "terminated"
        BY <3>1, <1>1, <1>4, WaitedAreTids
      <3> QED BY <3>1, <3>2, WaitedAreTids
    <2> QED BY <2>1, <2>2
  <1> QED BY <1>2, <1>3, <1>4, <1>5, <1>6, ScheduleCustody

LEMMA SysForkCustody ==
  ASSUME IInv, Custody, NEW t \in Tids, SysFork(t)
  PROVE  Custody'
  <1> DEFINE n == nextId
  <1>1. /\ n \in Tids /\ n # Main /\ st[n] = "unborn" /\ current = t /\ t # n
        /\ st[t] = "running" /\ n \notin all
    <2>1. n \in Tids /\ n # Main
      BY BootAssumption DEF SysFork, IInv, TypeOK, Tids, Gui, Main
    <2>2. st[n] = "unborn" /\ current = t /\ st[t] = "running"
      BY <2>1, CallerIsProcess DEF SysFork, InUser, IInv, Supporting, Tids
    <2> QED BY <2>1, <2>2 DEF IInv, Supporting
  <1>2. /\ st' = [st EXCEPT ![n] = "runnable"]
        /\ heap' = [heap EXCEPT ![n] = "live"]
        /\ parent' = [parent EXCEPT ![n] = t]
        /\ wfp' = [wfp EXCEPT ![n] = NoPid]
        /\ pc' = [pc EXCEPT ![n] = "user"]
        /\ all' = all \cup {n}
        /\ UNCHANGED <<toFree, waitArg>>
    BY DEF SysFork
  <1>3. /\ st \in [Tids -> States] /\ heap \in [Tids -> HeapView] /\ all \subseteq Tids
        /\ parent \in [Tids -> Tids] /\ wfp \in [Tids -> Tids] /\ waitArg \in [Tids -> Tids]
        /\ toFree \in Tids \cup {Nobody} /\ pc \in [Tids -> OpenPcs \cup SyscallPcs]
    BY DEF IInv, TypeOK
  <1> HIDE DEF n
  <1>4. /\ \A x \in Tids : x # n => /\ st'[x] = st[x] /\ heap'[x] = heap[x]
                                    /\ parent'[x] = parent[x] /\ wfp'[x] = wfp[x]
                                    /\ pc'[x] = pc[x]
        /\ st'[n] = "runnable" /\ heap'[n] = "live" /\ parent'[n] = t /\ pc'[n] = "user"
        /\ \A x \in Tids : st[x] \in Alive => st'[x] \in Alive
        /\ st'[t] \in Alive
    BY <1>1, <1>2, <1>3 DEF Alive, Ready
  <1>5. NoDoubleFree'
    BY <1>1, <1>4 DEF Custody, NoDoubleFree
  <1>6. toFree' # Nobody => heap'[toFree'] = "live" /\ parent'[toFree'] = Main
    <2>1. toFree # Nobody => toFree \in Tids /\ toFree # n
      BY <1>1, <1>3 DEF IInv, Supporting
    <2> QED BY <2>1, <1>2, <1>4 DEF Custody
  <1>7. \A x \in all' : st'[parent'[x]] \in Alive
    BY <1>1, <1>2, <1>3, <1>4 DEF Custody
  <1>8. \A x \in Tids \ {Main} : parent'[x] # x
    BY <1>1, <1>4 DEF Custody
  <1>9. \A x \in all' : st'[x] = "terminated" /\ parent'[x] # Main => heap'[x] = "live"
    BY <1>1, <1>2, <1>3, <1>4 DEF Custody
  <1>10. \A x \in Tids : st'[x] = "terminated" /\ heap'[x] = "live" =>
           x = toFree' \/ (x \in all' /\ parent'[x] # Main)
    BY <1>1, <1>2, <1>4 DEF Custody
  <1>11. \A x \in Tids : pc'[x] = "wait" =>
           /\ waitArg'[x] \in all' /\ parent'[waitArg'[x]] = x
           /\ IF st'[x] = "blocked" THEN wfp'[x] = waitArg'[x]
                                    ELSE st'[waitArg'[x]] = "terminated"
    <2> SUFFICES ASSUME NEW x \in Tids, pc'[x] = "wait"
                 PROVE  /\ waitArg[x] \in all' /\ parent'[waitArg[x]] = x
                        /\ IF st'[x] = "blocked" THEN wfp'[x] = waitArg[x]
                                                 ELSE st'[waitArg[x]] = "terminated"
      BY <1>2
    <2>1. x # n /\ pc[x] = "wait"
      BY <1>4
    <2>2. waitArg[x] \in all /\ waitArg[x] # n /\ waitArg[x] \in Tids
      BY <2>1, <1>1, WaitedAreTids
    <2> QED BY <2>1, <2>2, <1>2, <1>4, WaitedAreTids
  <1> QED BY <1>5, <1>6, <1>7, <1>8, <1>9, <1>10, <1>11 DEF Custody

\* The exit of a thread: its zombies are freed here and nowhere else, its other
\* children pass to the boot thread, its waiter finds it, and it is parked
\* exactly if its parent will not come for it.
LEMMA ThreadExitCustody ==
  ASSUME IInv, Custody, ThreadExit, st[current] = "running", current # Main,
         pc[current] # "wait"
  PROVE  Custody'
  <1>1. /\ st \in [Tids -> States] /\ heap \in [Tids -> HeapView] /\ current \in Tids
        /\ all \subseteq Tids /\ wfp \in [Tids -> Tids] /\ parent \in [Tids -> Tids]
        /\ toFree \in Tids \cup {Nobody} /\ waitArg \in [Tids -> Tids]
        /\ Main \in Tids /\ Nobody \notin Tids
    BY BootTidsAreTids DEF IInv, TypeOK
  <1>2. /\ heap' = Free(Free(heap, Reclaimed), Zombies)
        /\ all' = all \ Zombies
        /\ parent' = [x \in Tids |-> IF x \in Orphans THEN Main ELSE parent[x]]
        /\ wfp' = [x \in Tids |-> IF x \in Waiters THEN NoPid ELSE wfp[x]]
        /\ toFree' = IF parent[current] = Main THEN current ELSE Nobody
        /\ UNCHANGED <<pc, waitArg>>
    BY ThreadExitEffect DEF Adopter, Parked
  <1>3. /\ st' \in [Tids -> States] /\ st'[Main] \in Alive
        /\ \A x \in Tids : st'[x] \in Alive <=> x # current /\ st[x] \in Alive
        /\ \A x \in Tids : st'[x] = "blocked" <=> st[x] = "blocked" /\ x \notin Waiters
        /\ \A x \in Tids : st'[x] = "terminated" <=> x = current \/ st[x] = "terminated"
    BY ThreadExitEffect DEF Alive
  <1>4. /\ \A x \in Tids : x \in Waiters <=> x \in all /\ st[x] = "blocked" /\ wfp[x] = current
        /\ \A x \in Tids : x \in Orphans <=> x \in all /\ parent[x] = current
        /\ \A x \in Tids : x \in Zombies <=> x \in Orphans /\ st[x] = "terminated"
    BY <1>1 DEF Waiters, Zombies, Orphans
  <1>5. /\ current \in all /\ heap[current] = "live" /\ current # toFree
        /\ current \notin Zombies /\ current \notin Orphans
    <2>1. st[current] \in Alive
      BY DEF Alive, Ready
    <2>2. current \in all /\ heap[current] = "live"
      BY <2>1, <1>1 DEF IInv, Supporting, SchedulableIsLive
    <2>3. current # toFree
      BY <1>1 DEF IInv, Supporting
    <2>4. current \notin Zombies /\ current \notin Orphans
      BY <1>1, <1>4 DEF Custody
    <2> QED BY <2>2, <2>3, <2>4
  <1>6. \A x \in Zombies : x \in Tids /\ x # toFree /\ heap[x] = "live"
    BY <1>1, <1>4 DEF Custody, Zombies, Orphans
  <1>7. /\ \A x \in Tids : x # toFree /\ x \notin Zombies => heap'[x] = heap[x]
        /\ \A x \in Zombies : heap'[x] = "freed"
        /\ toFree # Nobody => heap'[toFree] = "freed" /\ parent[toFree] = Main
    BY <1>1, <1>2, <1>6 DEF Free, Reclaimed, Custody
  <1> HIDE DEF Waiters, Orphans, Zombies
  <1>8. NoDoubleFree'
    BY <1>1, <1>7 DEF Custody, NoDoubleFree
  <1>9. toFree' # Nobody => heap'[toFree'] = "live" /\ parent'[toFree'] = Main
    BY <1>1, <1>2, <1>5, <1>7
  <1>10. \A x \in all' : st'[parent'[x]] \in Alive
    <2> SUFFICES ASSUME NEW x \in all, x \notin Zombies
                 PROVE  st'[parent'[x]] \in Alive
      BY <1>2
    <2>1. CASE x \in Orphans
      BY <2>1, <1>1, <1>2, <1>3
    <2>2. CASE x \notin Orphans
      BY <2>2, <1>1, <1>2, <1>3, <1>4 DEF Custody
    <2> QED BY <2>1, <2>2
  <1>11. \A x \in Tids \ {Main} : parent'[x] # x
    BY <1>1, <1>2 DEF Custody
  <1>12. \A x \in all' : st'[x] = "terminated" /\ parent'[x] # Main => heap'[x] = "live"
    <2> SUFFICES ASSUME NEW x \in all, x \notin Zombies, st'[x] = "terminated", parent'[x] # Main
                 PROVE  heap'[x] = "live"
      BY <1>2
    <2>1. x \in Tids /\ x \notin Orphans /\ parent[x] # Main
      BY <1>1, <1>2
    <2>2. x # toFree /\ heap'[x] = heap[x]
      BY <2>1, <1>1, <1>7
    <2> QED BY <2>1, <2>2, <1>3, <1>5 DEF Custody
  <1>13. \A x \in Tids : st'[x] = "terminated" /\ heap'[x] = "live" =>
           x = toFree' \/ (x \in all' /\ parent'[x] # Main)
    <2> SUFFICES ASSUME NEW x \in Tids, st'[x] = "terminated", heap'[x] = "live", x # toFree'
                 PROVE  x \in all' /\ parent'[x] # Main
      OBVIOUS
    <2>1. x # toFree /\ x \notin Zombies /\ heap[x] = "live"
      BY <1>1, <1>7
    <2>2. CASE x = current
      BY <2>2, <1>2, <1>5
    <2>3. CASE x # current
      <3>1. st[x] = "terminated" /\ x \in all /\ parent[x] # Main
        BY <2>1, <2>3, <1>3 DEF Custody
      <3>2. x \notin Orphans
        BY <3>1, <2>1, <1>4
      <3> QED BY <3>1, <3>2, <2>1, <1>2
    <2> QED BY <2>2, <2>3
  <1>14. \A x \in Tids : pc'[x] = "wait" =>
           /\ waitArg'[x] \in all' /\ parent'[waitArg'[x]] = x
           /\ IF st'[x] = "blocked" THEN wfp'[x] = waitArg'[x]
                                    ELSE st'[waitArg'[x]] = "terminated"
    <2> SUFFICES ASSUME NEW x \in Tids, pc[x] = "wait"
                 PROVE  /\ waitArg[x] \in all' /\ parent'[waitArg[x]] = x
                        /\ IF st'[x] = "blocked" THEN wfp'[x] = waitArg[x]
                                                 ELSE st'[waitArg[x]] = "terminated"
      BY <1>2
    <2>1. /\ waitArg[x] \in all /\ waitArg[x] \in Tids /\ parent[waitArg[x]] = x /\ x # current
          /\ st[x] = "blocked" => wfp[x] = waitArg[x]
          /\ st[x] # "blocked" => st[waitArg[x]] = "terminated"
      BY WaitedAreTids
    <2>2. waitArg[x] \notin Orphans /\ waitArg[x] \notin Zombies
      BY <2>1, <1>4
    <2>3. waitArg[x] \in all' /\ parent'[waitArg[x]] = x
      BY <2>1, <2>2, <1>2
    <2>4. CASE st'[x] = "blocked"
      BY <2>1, <2>3, <2>4, <1>2, <1>3
    <2>5. CASE st'[x] # "blocked"
      <3>1. st[x] # "blocked" \/ x \in Waiters
        BY <2>5, <1>3
      <3>2. waitArg[x] = current \/ st[waitArg[x]] = "terminated"
        BY <3>1, <2>1, <1>4
      <3> QED BY <3>2, <2>1, <2>3, <2>5, <1>3
    <2> QED BY <2>3, <2>4, <2>5
  <1> QED BY <1>8, <1>9, <1>10, <1>11, <1>12, <1>13, <1>14 DEF Custody

-----------------------------------------------------------------------------
(* The theorems.                                                           *)

\* Every step of the scheduler preserves the invariant.
LEMMA NextIInv == IInv /\ [Next]_vars => IInv'
  <1> SUFFICES ASSUME IInv, [Next]_vars PROVE IInv'
    OBVIOUS
  <1>1. TypeRest /\ PcOwners
    BY DEF IInv, TypeOK, TypeRest, Supporting, PcOwners
  <1>2. pc[current] # "asleep" => st[current] = "running"
    BY DEF IInv, CpuOwner
  <1>3. CASE TimerIrq
    <2>1. TypeRest' /\ PcOwners'
      BY <1>1, <1>3 DEF TimerIrq, TypeRest, PcOwners
    <2>2. CASE alarm = "due"
      BY <2>1, <2>2, <1>3, WakePreserves DEF TimerIrq
    <2>3. CASE alarm # "due"
      BY <2>1, <2>3, <1>3, PlainSchedulePreserves DEF TimerIrq
    <2> QED BY <2>2, <2>3
  <1>4. CASE InputIrq
    BY <1>1, <1>4, WakePreserves DEF InputIrq, TypeRest, PcOwners
  <1>5. CASE Tick
    BY <1>1, <1>5, FlagsPreserve DEF Tick, TypeRest, PcOwners
  <1>6. CASE MainYield
    BY <1>1, <1>6, PlainSchedulePreserves DEF MainYield, TypeRest, PcOwners
  <1>7. CASE MainHalt
    BY <1>1, <1>7, FlagsPreserve DEF MainHalt, TypeRest, PcOwners
  <1>8. CASE HltLoop \/ UNCHANGED vars
    BY <1>1, <1>8, FlagsPreserve DEF HltLoop, vars, TypeRest, PcOwners
  <1>9. CASE GuiStep
    <2> USE BootTidsAreTids
    <2>1. ASSUME NEW from, NEW to, GuiOnly(from, to), to \in GuiPcs
          PROVE  /\ pc' \in [Tids -> OpenPcs \cup SyscallPcs] /\ PcOwners'
                 /\ UNCHANGED <<all, parent, wfp, nextId, waitArg, halted>>
                 /\ current = Gui /\ pc[Gui] = from
      BY <2>1, PcMove DEF GuiOnly, GuiAt
    <2>2. CASE GuiStart
      <3>0. PICK to \in {"poll", "leave"} : GuiOnly("start", to)
        BY <2>2 DEF GuiStart
      <3>1. GuiOnly("start", to) /\ to \in GuiPcs
        BY <3>0 DEF GuiPcs
      <3>2. TypeRest' /\ PcOwners' /\ st[current] = "running"
        BY <2>1, <2>2, <3>1, <1>1, <1>2 DEF GuiStart, TypeRest
      <3> QED BY <2>1, <2>2, <3>1, <3>2, FlagsPreserve DEF GuiStart
    <2>3. CASE GuiQuit
      <3>1. GuiOnly("poll", "poll") /\ "poll" \in GuiPcs
        BY <2>3 DEF GuiQuit, GuiPcs
      <3>2. TypeRest' /\ PcOwners' /\ st[current] = "running"
        BY <2>1, <2>3, <3>1, <1>1, <1>2 DEF GuiQuit, TypeRest
      <3> QED BY <2>1, <2>3, <3>1, <3>2, FlagsPreserve DEF GuiQuit
    <2>4. CASE GuiShutdown
      <3>1. UNCHANGED <<current, runq, st, heap, all, parent, wfp, toFree, nextId,
                        pc, waitArg, guiPtr, alarm, complete>> /\ halted' = TRUE
        BY <2>4 DEF GuiShutdown
      <3>2. TypeRest' /\ PcOwners'
        BY <3>1, <1>1 DEF TypeRest, PcOwners
      <3> QED BY <3>1, <3>2, FlagsPreserve
    <2>5. CASE GuiArm
      <3>1. GuiOnly("poll", "armed") /\ "armed" \in GuiPcs
        BY <2>5 DEF GuiArm, GuiPcs
      <3>2. TypeRest' /\ PcOwners' /\ st[current] = "running"
        BY <2>1, <2>5, <3>1, <1>1, <1>2 DEF GuiArm, TypeRest
      <3> QED BY <2>1, <2>5, <3>1, <3>2, FlagsPreserve DEF GuiArm
    <2>6. CASE GuiBlock
      BY <2>6, GuiBlockPreserves
    <2>7. CASE GuiSleep
      <3>1. GuiOnly("asleep", "poll") /\ "poll" \in GuiPcs
        BY <2>7 DEF GuiSleep, GuiPcs
      <3>2. TypeRest' /\ PcOwners'
        BY <2>1, <2>7, <3>1, <1>1 DEF GuiSleep, TypeRest
      <3> QED BY <2>1, <2>7, <3>1, <3>2, PlainSchedulePreserves DEF GuiSleep
    <2>8. CASE GuiLeave
      BY <2>8, <1>2, ThreadExitPreserves DEF GuiLeave, GuiAt
    <2> QED BY <1>9, <2>2, <2>3, <2>4, <2>5, <2>6, <2>7, <2>8 DEF GuiStep
  <1>10. ASSUME NEW t \in Tids, Syscall(t)
         PROVE  IInv'
    <2>1. CASE SysYield(t)
      BY <2>1, <1>1, PlainSchedulePreserves DEF SysYield, TypeRest, PcOwners
    <2>2. CASE SysReadWait(t)
      <3>1. pc' \in [Tids -> OpenPcs \cup SyscallPcs] /\ PcOwners'
        BY <2>2, CallerIsProcess, PcMove DEF SysReadWait, SyscallPcs
      <3> QED BY <2>2, <3>1, <1>1, PlainSchedulePreserves DEF SysReadWait, TypeRest
    <2>3. CASE SysReadDone(t)
      <3>1. pc' \in [Tids -> OpenPcs \cup SyscallPcs] /\ PcOwners' /\ st[current] = "running"
        BY <2>3, CallerIsProcess, PcMove DEF SysReadDone
      <3> QED BY <2>3, <3>1, <1>1, FlagsPreserve DEF SysReadDone, TypeRest
    <2>4. CASE SysFork(t)
      BY <2>4, SysForkPreserves
    <2>5. CASE SysExit(t)
      BY <2>5, CallerIsProcess, ThreadExitPreserves DEF SysExit, InUser
    <2>6. CASE SysWaitWoken(t)
      BY <2>6, SysWaitWokenPreserves
    <2>7. ASSUME NEW p \in Tids, SysWaitReap(t, p) \/ SysWaitBlock(t, p)
          PROVE  IInv'
      BY <2>7, SysWaitReapPreserves, SysWaitBlockPreserves
    <2> QED BY <1>10, <2>1, <2>2, <2>3, <2>4, <2>5, <2>6, <2>7 DEF Syscall
  <1> QED BY <1>3, <1>4, <1>5, <1>6, <1>7, <1>8, <1>9, <1>10 DEF Next

\* In the state in which interrupts are enabled nobody has ended or waits.
LEMMA InitCustody == Init => Custody
  BY BootTidsAreTids, BootAssumption
  DEF Init, Custody, NoDoubleFree, Alive, Ready, GuiPcs, BootTids, Tids, Main, Gui, Nobody

\* With processes that wait only for their own children, every step hands dead
\* threads over as Custody says.
LEMMA NextCustody ==
  ASSUME AnyPid = FALSE
  PROVE  IInv /\ Custody /\ [Next]_vars => Custody'
  <1> SUFFICES ASSUME IInv, Custody, [Next]_vars PROVE Custody'
    OBVIOUS
  <1> USE BootTidsAreTids
  <1>1. /\ pc \in [Tids -> OpenPcs \cup SyscallPcs] /\ st \in [Tids -> States]
        /\ pc[Gui] # "wait" /\ \A t \in Tids : st'[t] = st[t] \/ ~UNCHANGED st
    BY DEF IInv, TypeOK, Supporting, GuiPcs
  <1>2. pc[current] # "asleep" => st[current] = "running"
    BY DEF IInv, CpuOwner
  <1>3. CASE TimerIrq
    <2>1. CASE alarm = "due"
      BY <2>1, <1>3, WakeCustody DEF TimerIrq
    <2>2. CASE alarm # "due"
      BY <2>2, <1>3, PlainScheduleCustody DEF TimerIrq
    <2> QED BY <2>1, <2>2
  <1>4. CASE InputIrq
    BY <1>4, WakeCustody DEF InputIrq
  <1>5. CASE Tick \/ MainHalt \/ GuiShutdown \/ HltLoop \/ UNCHANGED vars
    <2>1. UNCHANGED <<st, heap, all, parent, toFree, wfp, waitArg, pc>>
      BY <1>5 DEF Tick, MainHalt, GuiShutdown, HltLoop, vars
    <2> QED BY <2>1, FlagsCustody
  <1>6. CASE MainYield
    BY <1>6, PlainScheduleCustody DEF MainYield
  <1>7. ASSUME NEW from, NEW to, GuiOnly(from, to), to \in GuiPcs
        PROVE  /\ UNCHANGED <<all, parent, wfp, waitArg>>
               /\ \A t \in Tids : pc'[t] = "wait" => pc[t] = "wait" /\ t # Gui
    BY <1>1, <1>7 DEF GuiOnly, GuiPcs
  <1>8. CASE GuiStart \/ GuiQuit \/ GuiArm
    <2>1. PICK from \in GuiPcs, to \in GuiPcs : GuiOnly(from, to)
      BY <1>8 DEF GuiStart, GuiQuit, GuiArm, GuiPcs
    <2>2. UNCHANGED <<st, heap, toFree>>
      BY <1>8 DEF GuiStart, GuiQuit, GuiArm
    <2> QED BY <2>1, <2>2, <1>7, FlagsCustody
  <1>9. CASE GuiBlock
    <2>1. /\ GuiOnly("armed", "asleep") /\ "asleep" \in GuiPcs
          /\ st' = [st EXCEPT ![Gui] = "blocked"] /\ UNCHANGED <<heap, toFree>>
          /\ current = Gui /\ pc[Gui] = "armed"
      BY <1>9 DEF GuiBlock, GuiOnly, GuiAt, GuiPcs
    <2>2. /\ st[Gui] = "running"
          /\ \A t \in Tids : t # Gui => st'[t] = st[t]
          /\ st'[Gui] \in Alive /\ st[Gui] \in Alive
      BY <2>1, <1>1, <1>2 DEF Alive, Ready
    <2> QED BY <2>1, <2>2, <1>7, FlagsCustody
  <1>10. CASE GuiSleep
    <2>1. GuiOnly("asleep", "poll") /\ "poll" \in GuiPcs /\ Schedule(st, runq)
      BY <1>10 DEF GuiSleep, GuiPcs
    <2> QED BY <2>1, <1>7, PlainScheduleCustody
  <1>11. CASE GuiLeave
    BY <1>11, <1>2, ThreadExitCustody DEF GuiLeave, GuiAt
  <1>12. ASSUME NEW t \in Tids, Syscall(t)
         PROVE  Custody'
    <2>1. CASE SysYield(t)
      BY <2>1, PlainScheduleCustody DEF SysYield
    <2>2. CASE SysReadWait(t)
      BY <2>2, <1>1, PlainScheduleCustody DEF SysReadWait
    <2>3. CASE SysReadDone(t)
      BY <2>3, <1>1, FlagsCustody DEF SysReadDone
    <2>4. CASE SysFork(t)
      BY <2>4, SysForkCustody
    <2>5. CASE SysExit(t)
      BY <2>5, CallerIsProcess, ThreadExitCustody DEF SysExit, InUser
    <2>6. CASE SysWaitWoken(t)
      BY <2>6, SysWaitWokenCustody
    <2>7. ASSUME NEW p \in Tids, SysWaitReap(t, p) \/ SysWaitBlock(t, p)
          PROVE  Custody'
      BY <2>7, SysWaitReapCustody, SysWaitBlockCustody
    <2> QED BY <1>12, <2>1, <2>2, <2>3, <2>4, <2>5, <2>6, <2>7 DEF Syscall
  <1> QED
    BY <1>3, <1>4, <1>5, <1>6, <1>8, <1>9, <1>10, <1>11, <1>12 DEF Next, GuiStep

\* The inductive invariant holds throughout every run of the kernel.
THEOREM Invariance == Spec => []IInv
  BY InitIInv, NextIInv, PTL DEF Spec

\* Every variable keeps its type.
THEOREM TypeCorrect == Spec => []TypeOK
  <1>1. IInv => TypeOK
    BY DEF IInv
  <1> QED BY <1>1, Invariance, PTL

\* The run queue always holds exactly the RUNNABLE threads, each once, and one
\* thread owns the CPU: enqueue, dequeue, the exit-time wake-up and the IRQ-side
\* GUI wake-up never lose a thread or link one twice, and schedule() never
\* returns to a blocked caller.
THEOREM QueueAndCpuCorrect == Spec => []QueueAndCpu
  <1>1. IInv => QueueAndCpu
    BY DEF IInv, QueueAndCpu
  <1> QED BY <1>1, Invariance, PTL

\* No thread that can still run has had its stack or TCB freed, whatever pids
\* processes wait for.
THEOREM NoLiveThreadFreed == Spec => []SchedulableIsLive
  <1>1. IInv => SchedulableIsLive
    BY DEF IInv
  <1> QED BY <1>1, Invariance, PTL

\* A thread blocked in waitpid still has a wake-up to come.
THEOREM NoMissedExit == Spec => []WaitTargetPending
  <1>1. IInv => WaitTargetPending
    BY DEF IInv
  <1> QED BY <1>1, Invariance, PTL

\* As long as processes wait only for children they forked, the reaper in
\* schedule(), waitpid and the reaping of orphans at exit never free the same
\* stack and TCB, nor one that still runs.
THEOREM FreesCorrect ==
  ASSUME AnyPid = FALSE
  PROVE  Spec => []FreesSafe
  <1>1. IInv /\ Custody /\ [Next]_vars => Custody'
    BY NextCustody
  <1>2. IInv /\ Custody => FreesSafe
    <2> SUFFICES ASSUME IInv, Custody PROVE FreesSafe
      OBVIOUS
    <2>1. toFree # Nobody => toFree # current
      BY DEF IInv, Supporting, CpuOwner
    <2> QED BY <2>1 DEF IInv, Supporting, Custody, FreesSafe, DeferredFreeIsSafe
  <1> QED BY <1>1, <1>2, InitIInv, NextIInv, InitCustody, PTL DEF Spec

\* Under the same condition a waiter that is woken finds its child dead and
\* whole, and every other zombie has a parent that can still reap it: no exit
\* status is lost, and no stack is.
THEOREM ZombiesCorrect ==
  ASSUME AnyPid = FALSE
  PROVE  Spec => []ZombiesKept
  <1>1. IInv /\ Custody /\ [Next]_vars => Custody'
    BY NextCustody
  <1>2. IInv /\ Custody => ZombiesKept
    <2> SUFFICES ASSUME IInv, Custody PROVE WokenFindsZombie /\ ZombieHasParent
      BY DEF ZombiesKept
    <2>1. WokenFindsZombie
      <3> SUFFICES ASSUME NEW t \in Tids, pc[t] = "wait", st[t] \in Ready
                   PROVE  /\ waitArg[t] \in all
                          /\ st[waitArg[t]] = "terminated"
                          /\ heap[waitArg[t]] = "live"
        BY DEF WokenFindsZombie
      <3> QED BY WaitedAreTids DEF Ready, Custody
    <2>2. ZombieHasParent
      BY DEF Custody, ZombieHasParent
    <2> QED BY <2>1, <2>2
  <1> QED BY <1>1, <1>2, InitIInv, NextIInv, InitCustody, PTL DEF Spec

=============================================================================
