------------------------- MODULE ObjectManagerProofs -------------------------
(***************************************************************************)
(* Machine-checked proofs about ObjectManager, for every set of clients,   *)
(* every finite set of slots and every queue limit.                        *)
(***************************************************************************)
EXTENDS ObjectManager, TLAPS, FiniteSetTheorems, FunctionTheorems

USE DEF clientVars, queueVars, workerVars

\* The distinct entries of the deque are as many as the keys of the map:
\* Queue::assert_invariant never fails where the two agree.
LEMMA AssertInvariantHolds ==
    ASSUME TypeOK, QueueIndexed
    PROVE  InvariantHolds
<1> DEFINE n == Len(queue)
           f == [i \in 1..n |-> queue[i].slot]
<1>1. n \in Nat /\ DOMAIN queue = 1..n
  BY DEF TypeOK
<1>2. f \in [1..n -> QueuedSlots]
  BY <1>1 DEF QueuedSlots
<1>3. ASSUME NEW i \in 1..n, NEW j \in 1..n, f[i] = f[j]
      PROVE  i = j
  <2>1. base + i - 1 = base + j - 1
    BY <1>1, <1>3 DEF QueueIndexed
  <2> QED BY <2>1 DEF TypeOK
<1>4. \A t \in QueuedSlots : \E i \in 1..n : f[i] = t
  BY <1>1 DEF QueuedSlots
<1> HIDE DEF f
<1>5. f \in Bijection(1..n, QueuedSlots)
  <2>1. \A i, j \in 1..n : f[i] = f[j] => i = j
    BY <1>3
  <2> QED
    BY <1>2, <1>4, <2>1 DEF Bijection, Injection, Surjection, IsInjective
<1>6. IsFiniteSet(1..n) /\ Cardinality(1..n) = n
  <2>1. Cardinality(1..n) = IF 1 > n THEN 0 ELSE n - 1 + 1
    BY <1>1, FS_Interval, SMTT(30)
  <2> QED
    BY <1>1, <2>1, FS_Interval, SMTT(40)
<1>7. ExistsBijection(1..n, QueuedSlots)
  BY <1>5 DEF ExistsBijection
<1>8. Cardinality(QueuedSlots) = n
  BY <1>6, <1>7, FS_Bijection
<1> QED
  BY <1>8 DEF InvariantHolds, QueueIndexed

\* A request of a client differs from the placeholder for none.
LEMMA RequestFacts ==
    ASSUME NEW r \in Request
    PROVE  /\ r # NoReq
           /\ r.op \in OpType /\ r.slot \in Slots /\ r.cb \in BOOLEAN
<1>1. r.op \in OpType /\ r.slot \in Slots /\ r.cb \in BOOLEAN
  BY DEF Request
<1>2. NoReq.op = "None"
  BY DEF NoReq
<1> QED
  BY <1>1, <1>2 DEF OpType

\* Nobody holds a callback of a client that has none to wait for.
LEMMA NotHeld ==
    ASSUME IndInv, NEW c \in Clients, c \notin Accepted
    PROVE  c \notin task.cbs /\ \A i \in DOMAIN queue : c \notin queue[i].cbs
<1>1. CASE task = NoTask
  BY <1>1 DEF IndInv, NoTask, QueueInv, EntryInv
<1>2. CASE task # NoTask
  BY <1>2 DEF IndInv, TaskEntryInv, QueueInv, EntryInv
<1> QED
  BY <1>1, <1>2

\* A step that leaves queue and task alone keeps what is known of their entries
\* when no callback is answered, no request changes and no page goes away.
LEMMA EntriesKept ==
    ASSUME IndInv, queue' = queue, task' = task,
           \A d \in Accepted : d \in Accepted' /\ req'[d] = req[d],
           \A t \in Slots : page[t] => page'[t]
    PROVE  QueueInv' /\ TaskEntryInv'
<1>1. ASSUME NEW i \in DOMAIN queue
      PROVE  EntryInv(queue[i])'
  <2>1. EntryInv(queue[i]) /\ queue[i] \in QueueEntry
    BY DEF IndInv, QueueInv, TypeOK
  <2> QED
    BY <2>1 DEF EntryInv, QueueEntry
<1>2. ASSUME task # NoTask
      PROVE  EntryInv(task)'
  <2>1. EntryInv(task) /\ task \in QueueEntry
    BY <1>2 DEF IndInv, TaskEntryInv, TypeOK
  <2> QED
    BY <2>1 DEF EntryInv, QueueEntry
<1> QED
  BY <1>1, <1>2 DEF QueueInv, TaskEntryInv

\* What is being delivered stays true for callbacks of unchanged requests.
LEMMA OutcomeKept ==
    ASSUME IndInv, UNCHANGED <<wpc, task, res>>,
           \A d \in Accepted : req'[d] = req[d] /\ (d \in written => d \in written'),
           \A t \in Slots : page[t] => page'[t]
    PROVE  OutcomeInv'
<1> SUFFICES ASSUME wpc = "deliver", res = "ok", NEW d \in task.cbs
             PROVE  page'[req'[d].slot] /\ (req'[d].op = "Flush" => d \in written')
  BY DEF OutcomeInv
<1>1. EntryInv(task) /\ task \in QueueEntry
  BY DEF IndInv, TaskInv, TaskEntryInv, TypeOK
<1>2. d \in Accepted /\ req[d].slot \in Slots
  BY <1>1 DEF EntryInv, QueueEntry
<1> QED
  BY <1>2 DEF IndInv, OutcomeInv

\* Such a step loses no callback either when it accepts none.
LEMMA HoldersKept ==
    ASSUME IndInv, queue' = queue, task' = task,
           Accepted' \subseteq Accepted
    PROVE  HolderInv'
  BY DEF IndInv, HolderInv

\* A call only changes what its client says of itself.
LEMMA CallStep ==
    ASSUME IndInv, NEW c \in Clients, NEW r \in Requests, Call(c, r)
    PROVE  IndInv'
<1>0. r \in Request /\ (r.op = "Init" => r.cb) /\ r # NoReq
      /\ r.op \in OpType /\ r.slot \in Slots /\ r.cb \in BOOLEAN
  BY RequestFacts DEF Requests
<1>a. TypeOK /\ ClientInv
  BY DEF IndInv
<1>b. \A d \in Clients : d # c =>
        /\ pc'[d] = pc[d] /\ req'[d] = req[d]
        /\ result'[d] = result[d]
        /\ d \in written' <=> d \in written
  BY <1>a DEF Call, TypeOK
<1>c. c \notin Accepted /\ c \notin Accepted'
  BY <1>a DEF Call, Accepted, TypeOK
<1>d. Accepted' = Accepted /\ Accepted \subseteq Clients \ {c}
  <2>1. ASSUME NEW d \in Clients
        PROVE  d \in Accepted' <=> d \in Accepted
    BY <1>b, <1>c DEF Accepted
  <2> QED
    BY <1>c, <2>1 DEF Accepted
<1>e. UNCHANGED <<alive, page, queue, inQueue, base, closed, closer, waiters, tableOps,
                  wpc, task, res, aborted>>
  BY DEF Call
<1>1. TypeOK'
  <2>1. pc' \in [Clients -> {"idle", "lock", "wait", "notify", "recv"}]
    BY <1>a DEF Call, TypeOK
  <2>2. req' \in [Clients -> Request \cup {NoReq}]
    BY <1>0, <1>a DEF Call, TypeOK
  <2>3. result' \in [Clients -> {"none", "ok", "err", "disconnected"}]
    BY <1>a DEF Call, TypeOK
  <2>4. calls' \in [Clients -> Nat]
    BY <1>a DEF Call, TypeOK
  <2>5. written' \in SUBSET Clients
    BY <1>a DEF Call, TypeOK
  <2> QED
    BY <1>a, <1>e, <2>1, <2>2, <2>3, <2>4, <2>5 DEF TypeOK
<1>2. QueueIndexed'
  BY <1>e DEF QueueIndexed, IndexedSlots, QueuedSlots, IndInv
<1>3. NeverAborts'
  BY <1>e DEF NeverAborts, IndInv
<1>4. ClientInv'
  BY <1>0, <1>a, SMTT(40) DEF Call, TypeOK, ClientInv, NothingToFlush, OpType
<1>5. WaitersInv'
  BY <1>a, <1>b DEF Call, WaitersInv, TypeOK, IndInv
<1>6. QueueInv' /\ TaskEntryInv'
  BY <1>b, <1>d, <1>e, EntriesKept
<1>7. TaskInv' /\ OutcomeInv'
  <2>1. TaskInv'
    BY <1>e DEF TaskInv, IndInv
  <2>2. OutcomeInv'
    BY <1>b, <1>d, <1>e, OutcomeKept
  <2> QED
    BY <2>1, <2>2
<1>8. HolderInv'
  BY <1>d, <1>e, HoldersKept
<1>9. CloserInv'
  BY <1>e DEF CloserInv, IndInv
<1>10. InitOkMeansResident' /\ FlushOkMeansWritten' /\ NeverDisconnected'
  <2>1. result'[c] = "none" \/ (result'[c] = "ok" /\ req'[c].op = "Flush" /\ c \in written')
    BY <1>0, <1>a DEF Call, TypeOK, NothingToFlush, ClientInv
  <2> QED
    BY <1>b, <1>e, <2>1 DEF InitOkMeansResident, FlushOkMeansWritten,
                            NeverDisconnected, IndInv
<1> QED
  BY <1>1, <1>2, <1>3, <1>4, <1>5, <1>6, <1>7, <1>8, <1>9, <1>10 DEF IndInv

\* The map leads from a queued slot to its entry.
LEMMA PositionOfEntry ==
    ASSUME TypeOK, QueueIndexed, NEW s \in IndexedSlots
    PROVE  Position(s) \in DOMAIN queue /\ queue[Position(s)].slot = s
<1>1. PICK i \in DOMAIN queue : queue[i].slot = s
  BY DEF QueueIndexed, QueuedSlots
<1>2. inQueue[s] = base + i - 1 /\ i \in Nat /\ base \in Nat
  BY <1>1 DEF QueueIndexed, TypeOK
<1>3. Position(s) = i
  BY <1>2 DEF Position
<1> QED
  BY <1>1, <1>3

\* No two entries are about the same slot.
LEMMA OneEntryPerSlot ==
    ASSUME TypeOK, QueueIndexed, NEW i \in DOMAIN queue, NEW j \in DOMAIN queue,
           queue[i].slot = queue[j].slot
    PROVE  i = j
<1>1. base + i - 1 = base + j - 1
  BY DEF QueueIndexed
<1> QED
  BY <1>1 DEF TypeOK

\* No check of Inner::enqueue fails.
LEMMA EnqueueNeverAborts ==
    ASSUME IndInv, NEW c \in Clients, pc[c] = "lock"
    PROVE  EnqueueAborts(c) = FALSE
<1> DEFINE r == req[c]
<1>1. /\ ~closed /\ req[c] \in Request
      /\ r.op = "Flush" => page[r.slot]
  BY DEF IndInv, ClientInv, TypeOK
<1>2. InvariantHolds
  BY AssertInvariantHolds DEF IndInv
<1>3. ASSUME ~AlreadyInit(r), r.slot \in IndexedSlots
      PROVE  /\ Position(r.slot) \in DOMAIN queue
             /\ ~(r.op = "Init" /\ queue[Position(r.slot)].op = "Flush")
  <2>1. /\ Position(r.slot) \in DOMAIN queue
        /\ queue[Position(r.slot)].slot = r.slot
    BY <1>3, PositionOfEntry DEF IndInv
  <2>2. EntryInv(queue[Position(r.slot)])
    BY <2>1 DEF IndInv, QueueInv
  <2> QED
    BY <1>3, <2>1, <2>2 DEF EntryInv, AlreadyInit
<1> QED
  BY <1>1, <1>2, <1>3 DEF EnqueueAborts

\* Inner::enqueue returns Err(None).
LEMMA EnqueueUnneededStep ==
    ASSUME IndInv, NEW c \in Clients, Enqueue(c), EnqueueUnneeded(c)
    PROVE  IndInv'
<1>a. TypeOK /\ ClientInv
  BY DEF IndInv
<1>b. \A d \in Clients : d # c =>
        pc'[d] = pc[d] /\ result'[d] = result[d]
  BY <1>a DEF EnqueueUnneeded, TypeOK
<1>c. /\ pc[c] = "lock" /\ pc'[c] = "recv" /\ result'[c] = "ok"
      /\ req[c].op = "Init" /\ page[req[c].slot]
  BY <1>a DEF Enqueue, EnqueueUnneeded, TypeOK, AlreadyInit
<1>d. Accepted' = Accepted
  <2>1. req' = req
    BY DEF Enqueue
  <2> QED
    BY <1>b, <1>c, <2>1 DEF Accepted
<1>e. UNCHANGED <<alive, page, queue, inQueue, base, closed, closer, waiters,
                  req, calls, tableOps, wpc, task, res, written>>
  BY DEF Enqueue, EnqueueUnneeded
<1>1. TypeOK'
  <2>1. pc' \in [Clients -> {"idle", "lock", "wait", "notify", "recv"}]
    BY <1>a DEF EnqueueUnneeded, TypeOK
  <2>2. result' \in [Clients -> {"none", "ok", "err", "disconnected"}]
    BY <1>a DEF EnqueueUnneeded, TypeOK
  <2>3. aborted' \in BOOLEAN
    BY <1>c, EnqueueNeverAborts DEF Enqueue
  <2> QED
    BY <1>a, <1>e, <2>1, <2>2, <2>3 DEF TypeOK
<1>2. QueueIndexed'
  BY <1>e DEF QueueIndexed, IndexedSlots, QueuedSlots, IndInv
<1>3. NeverAborts'
  BY <1>c, EnqueueNeverAborts DEF NeverAborts, Enqueue
<1>4. ClientInv'
  BY <1>a, <1>b, <1>c, <1>e DEF ClientInv
<1>5. WaitersInv'
  BY <1>a, <1>b, <1>c, <1>e DEF WaitersInv, TypeOK, IndInv
<1>6. QueueInv' /\ TaskEntryInv'
  BY <1>d, <1>e, EntriesKept
<1>7. TaskInv' /\ OutcomeInv'
  BY <1>e DEF TaskInv, OutcomeInv, IndInv
<1>8. HolderInv'
  BY <1>d, <1>e, HoldersKept
<1>9. CloserInv'
  BY <1>e DEF CloserInv, IndInv
<1>10. InitOkMeansResident' /\ FlushOkMeansWritten' /\ NeverDisconnected'
  BY <1>b, <1>c, <1>e DEF InitOkMeansResident, FlushOkMeansWritten,
                          NeverDisconnected, IndInv
<1> QED
  BY <1>1, <1>2, <1>3, <1>4, <1>5, <1>6, <1>7, <1>8, <1>9, <1>10 DEF IndInv

\* Inner::enqueue finds the queue full and waits.
LEMMA EnqueueWaitStep ==
    ASSUME IndInv, NEW c \in Clients, Enqueue(c), EnqueueWait(c)
    PROVE  IndInv'
<1>a. TypeOK /\ ClientInv
  BY DEF IndInv
<1>b. \A d \in Clients : d # c => pc'[d] = pc[d]
  BY <1>a DEF EnqueueWait, TypeOK
<1>c. pc[c] = "lock" /\ pc'[c] = "wait" /\ waiters' = Append(waiters, c)
  BY <1>a DEF Enqueue, EnqueueWait, TypeOK
<1>e. UNCHANGED <<alive, page, queue, inQueue, base, closed, closer, result,
                  req, calls, tableOps, wpc, task, res, written>>
  BY DEF Enqueue, EnqueueWait
<1>d. Accepted' = Accepted
  BY <1>b, <1>c, <1>e DEF Accepted
<1>1. TypeOK'
  <2>1. pc' \in [Clients -> {"idle", "lock", "wait", "notify", "recv"}]
    BY <1>a DEF EnqueueWait, TypeOK
  <2>2. waiters' \in Seq(Clients)
    BY <1>a, <1>c DEF TypeOK
  <2>3. aborted' \in BOOLEAN
    BY <1>c, EnqueueNeverAborts DEF Enqueue
  <2> QED
    BY <1>a, <1>e, <2>1, <2>2, <2>3 DEF TypeOK
<1>2. QueueIndexed'
  BY <1>e DEF QueueIndexed, IndexedSlots, QueuedSlots, IndInv
<1>3. NeverAborts'
  BY <1>c, EnqueueNeverAborts DEF NeverAborts, Enqueue
<1>4. ClientInv'
  BY <1>a, <1>b, <1>c, <1>e DEF ClientInv
<1>5. WaitersInv'
  <2>1. \A i \in DOMAIN waiters : waiters[i] # c
    BY <1>c DEF IndInv, WaitersInv
  <2>2. waiters \in Seq(Clients)
    BY <1>a DEF TypeOK
  <2> QED
    BY <1>b, <1>c, <2>1, <2>2 DEF WaitersInv, IndInv
<1>6. QueueInv' /\ TaskEntryInv'
  BY <1>d, <1>e, EntriesKept
<1>7. TaskInv' /\ OutcomeInv'
  BY <1>e DEF TaskInv, OutcomeInv, IndInv
<1>8. HolderInv'
  BY <1>d, <1>e, HoldersKept
<1>9. CloserInv'
  BY <1>e DEF CloserInv, IndInv
<1>10. InitOkMeansResident' /\ FlushOkMeansWritten' /\ NeverDisconnected'
  BY <1>e DEF InitOkMeansResident, FlushOkMeansWritten, NeverDisconnected, IndInv
<1> QED
  BY <1>1, <1>2, <1>3, <1>4, <1>5, <1>6, <1>7, <1>8, <1>9, <1>10 DEF IndInv

\* Inner::enqueue adds an entry for a slot that has none.
LEMMA EnqueuePushStep ==
    ASSUME IndInv, NEW c \in Clients, Enqueue(c), EnqueuePush(c)
    PROVE  IndInv'
<1> DEFINE s == req[c].slot
           n == Len(queue)
           e == [slot |-> s, op |-> req[c].op, cbs |-> Callback(c)]
<1>a. TypeOK /\ ClientInv /\ QueueIndexed
  BY DEF IndInv
<1>b. \A d \in Clients : d # c => pc'[d] = pc[d]
  BY <1>a DEF EnqueuePush, TypeOK
<1>c. /\ pc[c] = "lock" /\ pc'[c] = "notify" /\ result[c] = "none"
      /\ req[c] \in Request /\ s \in Slots /\ req[c].op \in OpType
      /\ req[c].op = "Flush" => page[s]
  <2>1. pc[c] = "lock" /\ pc'[c] = "notify"
    BY <1>a DEF Enqueue, EnqueuePush, TypeOK
  <2>2. req[c] \in Request /\ result[c] = "none" /\ (req[c].op = "Flush" => page[s])
    BY <1>a, <2>1 DEF ClientInv, TypeOK
  <2> QED
    BY <2>1, <2>2, RequestFacts
<1>e. UNCHANGED <<alive, page, base, closed, closer, waiters, result,
                  req, calls, tableOps, wpc, task, res, written>>
  BY DEF Enqueue, EnqueuePush
<1>f. /\ Callback(c) \subseteq {c} /\ (req[c].cb => c \in Callback(c))
      /\ (c \in Callback(c) => req[c].cb)
  BY DEF Callback
<1>d. Accepted' = Accepted \cup Callback(c) /\ c \notin Accepted
  BY <1>b, <1>c, <1>e, <1>f DEF Accepted
<1>q. /\ n \in Nat /\ DOMAIN queue = 1..n /\ DOMAIN queue' = 1..(n+1)
      /\ queue'[n+1] = e
      /\ \A i \in 1..n : queue'[i] = queue[i]
      /\ s \notin IndexedSlots /\ inQueue'[s] = base + n
      /\ \A t \in Slots \ {s} : inQueue'[t] = inQueue[t]
  BY <1>a, <1>c DEF EnqueuePush, TypeOK
<1>r. e \in QueueEntry /\ e.slot = s /\ e.op = req[c].op /\ e.cbs = Callback(c)
  BY <1>c, <1>f DEF QueueEntry
<1> HIDE DEF e
<1>1. TypeOK'
  <2>1. pc' \in [Clients -> {"idle", "lock", "wait", "notify", "recv"}]
    BY <1>a DEF EnqueuePush, TypeOK
  <2>2. queue' \in Seq(QueueEntry)
    BY <1>a, <1>r DEF TypeOK, EnqueuePush, e
  <2>3. inQueue' \in [Slots -> Nat \cup {Absent}]
    <3>1. base + n \in Nat
      BY <1>a, <1>q DEF TypeOK
    <3> QED
      BY <1>a, <3>1 DEF TypeOK, EnqueuePush
  <2>4. aborted' \in BOOLEAN
    BY <1>c, EnqueueNeverAborts DEF Enqueue
  <2> QED
    BY <1>a, <1>e, <2>1, <2>2, <2>3, <2>4 DEF TypeOK
<1>2. QueueIndexed'
  <2>1. IndexedSlots' = IndexedSlots \cup {s}
    BY <1>a, <1>c, <1>q DEF IndexedSlots, TypeOK, Absent
  <2>2. QueuedSlots' = QueuedSlots \cup {s}
    BY <1>q, <1>r DEF QueuedSlots
  <2>3. \A i \in 1..n : queue[i].slot # s
    BY <1>a, <1>q DEF QueueIndexed, QueuedSlots
  <2>4. \A i \in 1..(n+1) : inQueue'[queue'[i].slot] = base' + i - 1
    <3> SUFFICES ASSUME NEW i \in 1..(n+1)
                 PROVE  inQueue'[queue'[i].slot] = base' + i - 1
      OBVIOUS
    <3>1. CASE i = n + 1
      BY <3>1, <1>a, <1>e, <1>q, <1>r DEF TypeOK
    <3>2. CASE i \in 1..n
      <4>1. queue[i].slot \in Slots \ {s}
        <5>1. queue[i] \in QueueEntry
          BY <3>2, <1>a, <1>q DEF TypeOK
        <5> QED
          BY <3>2, <5>1, <2>3 DEF QueueEntry
      <4>2. inQueue'[queue'[i].slot] = inQueue[queue[i].slot]
        BY <3>2, <4>1, <1>q
      <4> QED
        BY <3>2, <4>2, <1>a, <1>e, <1>q DEF QueueIndexed
    <3> QED
      BY <3>1, <3>2, <1>q
  <2> QED
    BY <1>a, <1>q, <2>1, <2>2, <2>4 DEF QueueIndexed
<1>3. NeverAborts'
  BY <1>c, EnqueueNeverAborts DEF NeverAborts, Enqueue
<1>4. ClientInv'
  BY <1>a, <1>b, <1>c, <1>e DEF ClientInv
<1>5. WaitersInv'
  BY <1>a, <1>b, <1>c, <1>e DEF WaitersInv, TypeOK, IndInv
<1>6. QueueInv'
  <2>1. ASSUME NEW i \in 1..n
        PROVE  EntryInv(queue[i])'
    BY <1>q, <1>d, <1>e DEF EntryInv, IndInv, QueueInv
  <2>2. ASSUME NEW i, i = n + 1
        PROVE  EntryInv(queue[i])'
    BY <2>2, <1>q, <1>r, <1>c, <1>d, <1>e, <1>f DEF EntryInv
  <2> QED
    BY <1>q, <2>1, <2>2 DEF QueueInv
<1>7. TaskInv' /\ OutcomeInv'
  BY <1>e DEF TaskInv, OutcomeInv, IndInv
<1>8. TaskEntryInv'
  BY <1>d, <1>e DEF TaskEntryInv, EntryInv, IndInv
<1>9. HolderInv'
  <2>1. c \notin task.cbs
    BY <1>d, NotHeld
  <2>2. ASSUME NEW d \in Accepted'
        PROVE  d \in task.cbs \/ \E i \in 1..(n+1) : d \in queue'[i].cbs
    BY <1>d, <1>f, <1>q, <1>r DEF IndInv, HolderInv
  <2>3. ASSUME NEW i \in 1..(n+1)
        PROVE  queue'[i].cbs \cap task.cbs = {}
    BY <1>d, <1>f, <1>q, <1>r, <2>1, SMTT(40) DEF IndInv, HolderInv
  <2> QED
    BY <1>e, <1>q, <2>2, <2>3 DEF HolderInv
<1>10. CloserInv'
  BY <1>e DEF CloserInv, IndInv
<1>11. InitOkMeansResident' /\ FlushOkMeansWritten' /\ NeverDisconnected'
  BY <1>e DEF InitOkMeansResident, FlushOkMeansWritten, NeverDisconnected, IndInv
<1> QED
  BY <1>1, <1>2, <1>3, <1>4, <1>5, <1>6, <1>7, <1>8, <1>9, <1>10, <1>11 DEF IndInv

\* Inner::enqueue joins the entry that its slot has.
LEMMA EnqueueCoalesceStep ==
    ASSUME IndInv, NEW c \in Clients, Enqueue(c), EnqueueCoalesce(c)
    PROVE  IndInv'
<1> DEFINE s == req[c].slot
           k == Position(s)
           e == JoinedEntry(queue[k], c)
<1>a. TypeOK /\ ClientInv /\ QueueIndexed
  BY DEF IndInv
<1>b. \A d \in Clients : d # c => pc'[d] = pc[d]
  BY <1>a DEF EnqueueCoalesce, TypeOK
<1>c. /\ pc[c] = "lock" /\ pc'[c] = "notify" /\ result[c] = "none"
      /\ req[c] \in Request /\ s \in Slots /\ req[c].op \in OpType
      /\ req[c].op = "Flush" => page[s]
  <2>1. pc[c] = "lock" /\ pc'[c] = "notify"
    BY <1>a DEF Enqueue, EnqueueCoalesce, TypeOK
  <2>2. req[c] \in Request /\ result[c] = "none" /\ (req[c].op = "Flush" => page[s])
    BY <1>a, <2>1 DEF ClientInv, TypeOK
  <2> QED
    BY <2>1, <2>2, RequestFacts
<1>e. UNCHANGED <<alive, page, inQueue, base, closed, closer, waiters, result,
                  req, calls, tableOps, wpc, task, res, written>>
  BY DEF Enqueue, EnqueueCoalesce
<1>f. /\ Callback(c) \subseteq {c} /\ (req[c].cb => c \in Callback(c))
      /\ (c \in Callback(c) => req[c].cb)
  BY DEF Callback
<1>d. Accepted' = Accepted \cup Callback(c) /\ c \notin Accepted
  BY <1>b, <1>c, <1>e, <1>f DEF Accepted
<1>k. k \in DOMAIN queue /\ queue[k].slot = s /\ queue[k] \in QueueEntry
  BY <1>a, PositionOfEntry DEF EnqueueCoalesce, TypeOK
<1>q. /\ DOMAIN queue' = DOMAIN queue /\ queue'[k] = e
      /\ \A i \in DOMAIN queue \ {k} : queue'[i] = queue[i]
  <2>1. queue' = [queue EXCEPT ![k] = JoinedEntry(queue[k], c)]
    BY <1>k DEF EnqueueCoalesce
  <2> QED
    BY <1>k, <2>1
<1>r. e \in QueueEntry /\ e.slot = s /\ e.cbs = queue[k].cbs \cup Callback(c)
      /\ e.op = CoalescedOp(req[c].op, queue[k].op)
  <2>1. CoalescedOp(req[c].op, queue[k].op) \in OpType
    BY <1>c, <1>k DEF QueueEntry, CoalescedOp
  <2> QED
    BY <1>f, <1>k, <2>1 DEF QueueEntry, JoinedEntry
<1> HIDE DEF e, k
<1>1. TypeOK'
  <2>1. pc' \in [Clients -> {"idle", "lock", "wait", "notify", "recv"}]
    BY <1>a DEF EnqueueCoalesce, TypeOK
  <2>2. queue' \in Seq(QueueEntry)
    <3>1. queue' = [queue EXCEPT ![k] = e]
      BY <1>k, <1>q DEF EnqueueCoalesce, k
    <3> QED
      BY <3>1, <1>a, <1>k, <1>r DEF TypeOK
  <2>3. aborted' \in BOOLEAN
    BY <1>c, EnqueueNeverAborts DEF Enqueue
  <2> QED
    BY <1>a, <1>e, <2>1, <2>2, <2>3 DEF TypeOK
<1>2. QueueIndexed'
  <2>1. \A i \in DOMAIN queue : queue'[i].slot = queue[i].slot
    BY <1>k, <1>q, <1>r
  <2>2. QueuedSlots' = QueuedSlots /\ IndexedSlots' = IndexedSlots
    BY <1>e, <1>q, <2>1 DEF QueuedSlots, IndexedSlots
  <2> QED
    BY <1>a, <1>e, <1>q, <2>1, <2>2 DEF QueueIndexed
<1>3. NeverAborts'
  BY <1>c, EnqueueNeverAborts DEF NeverAborts, Enqueue
<1>4. ClientInv'
  BY <1>a, <1>b, <1>c, <1>e DEF ClientInv
<1>5. WaitersInv'
  BY <1>a, <1>b, <1>c, <1>e DEF WaitersInv, TypeOK, IndInv
<1>6. QueueInv'
  <2>1. ASSUME NEW i \in DOMAIN queue \ {k}
        PROVE  EntryInv(queue[i])'
    BY <1>q, <1>d, <1>e DEF EntryInv, IndInv, QueueInv
  <2>2. ASSUME NEW i, i = k
        PROVE  EntryInv(queue[i])'
    <3>1. EntryInv(queue[i])
      BY <2>2, <1>k DEF IndInv, QueueInv
    <3> QED
      BY <2>2, <1>q, <1>r, <1>c, <1>d, <1>e, <1>f, <1>k, <3>1 DEF EntryInv, CoalescedOp
  <2> QED
    BY <1>q, <2>1, <2>2 DEF QueueInv
<1>7. TaskInv' /\ OutcomeInv'
  BY <1>e DEF TaskInv, OutcomeInv, IndInv
<1>8. TaskEntryInv'
  BY <1>d, <1>e DEF TaskEntryInv, EntryInv, IndInv
<1>9. HolderInv'
  <2>1. c \notin task.cbs
    BY <1>d, NotHeld
  <2>2. \A i \in DOMAIN queue : queue[i].cbs \subseteq queue'[i].cbs
    BY <1>k, <1>q, <1>r
  <2>3. ASSUME NEW d \in Accepted'
        PROVE  d \in task.cbs \/ \E i \in DOMAIN queue : d \in queue'[i].cbs
    <3>1. CASE d \in Accepted
      BY <3>1, <2>2 DEF IndInv, HolderInv
    <3>2. CASE d \in Callback(c)
      BY <3>2, <1>k, <1>q, <1>r
    <3> QED
      BY <3>1, <3>2, <1>d
  <2>4. ASSUME NEW i \in DOMAIN queue
        PROVE  queue'[i].cbs \cap task.cbs = {}
    BY <1>d, <1>f, <1>q, <1>r, <2>1 DEF IndInv, HolderInv
  <2> QED
    BY <1>e, <1>q, <2>3, <2>4 DEF HolderInv
<1>10. CloserInv'
  BY <1>e DEF CloserInv, IndInv
<1>11. InitOkMeansResident' /\ FlushOkMeansWritten' /\ NeverDisconnected'
  BY <1>e DEF InitOkMeansResident, FlushOkMeansWritten, NeverDisconnected, IndInv
<1> QED
  BY <1>1, <1>2, <1>3, <1>4, <1>5, <1>6, <1>7, <1>8, <1>9, <1>10, <1>11 DEF IndInv

\* enqueued.notify_one: a caller without callback is done.
LEMMA NotifyStep ==
    ASSUME IndInv, NEW c \in Clients, Notify(c)
    PROVE  IndInv'
<1>a. TypeOK /\ ClientInv
  BY DEF IndInv
<1>b. \A d \in Clients : d # c =>
        /\ pc'[d] = pc[d] /\ req'[d] = req[d]
        /\ d \in written' <=> d \in written
  BY <1>a DEF Notify, TypeOK
<1>c. /\ pc[c] = "notify" /\ req[c] \in Request
      /\ req[c].cb => pc'[c] = "recv" /\ req'[c] = req[c]
                      /\ (c \in written' <=> c \in written)
      /\ ~req[c].cb => pc'[c] = "idle" /\ req'[c] = NoReq /\ result[c] = "none"
  BY <1>a DEF Notify, TypeOK, ClientInv, AfterCall
<1>e. UNCHANGED <<alive, page, queue, inQueue, base, closed, closer, waiters,
                  result, calls, tableOps, task, res, aborted>>
  BY DEF Notify
<1>n. NoReq.cb = FALSE /\ NoReq.op = "None"
  BY DEF NoReq
<1>d. Accepted' = Accepted /\ \A d \in Accepted : req'[d] = req[d]
  BY <1>b, <1>c, <1>e, <1>n DEF Accepted
<1>1. TypeOK'
  <2>1. pc' \in [Clients -> {"idle", "lock", "wait", "notify", "recv"}]
    BY <1>a DEF Notify, TypeOK, AfterCall
  <2>2. req' \in [Clients -> Request \cup {NoReq}]
    BY <1>a DEF Notify, TypeOK
  <2>3. wpc' \in {"lock", "wait", "handle", "run", "deliver", "exited"}
    BY <1>a DEF Notify, TypeOK
  <2>4. written' \in SUBSET Clients
    BY <1>a DEF Notify, TypeOK
  <2> QED
    BY <1>a, <1>e, <2>1, <2>2, <2>3, <2>4 DEF TypeOK
<1>2. QueueIndexed'
  BY <1>e DEF QueueIndexed, IndexedSlots, QueuedSlots, IndInv
<1>3. NeverAborts'
  BY <1>e DEF NeverAborts, IndInv
<1>4. ClientInv'
  BY <1>a, <1>b, <1>c, <1>e, <1>n, RequestFacts DEF ClientInv
<1>5. WaitersInv'
  BY <1>a, <1>b, <1>c, <1>e DEF WaitersInv, TypeOK, IndInv
<1>6. QueueInv' /\ TaskEntryInv'
  BY <1>d, <1>e, EntriesKept
<1>7. TaskInv' /\ OutcomeInv'
  <2>1. TaskInv'
    BY <1>e DEF Notify, TaskInv, IndInv
  <2>2. CASE wpc' = wpc
    <3>1. \A d \in Accepted : d \in written => d \in written'
      BY <1>b, <1>c DEF Accepted
    <3> QED
      BY <2>1, <2>2, <3>1, <1>d, <1>e, OutcomeKept
  <2>3. CASE wpc' = "lock"
    BY <2>1, <2>3 DEF OutcomeInv
  <2> QED
    BY <2>2, <2>3 DEF Notify
<1>8. HolderInv'
  BY <1>d, <1>e, HoldersKept
<1>9. CloserInv'
  BY <1>e DEF CloserInv, IndInv
<1>10. InitOkMeansResident' /\ FlushOkMeansWritten' /\ NeverDisconnected'
  BY <1>b, <1>c, <1>e DEF InitOkMeansResident, FlushOkMeansWritten,
                          NeverDisconnected, IndInv
<1> QED
  BY <1>1, <1>2, <1>3, <1>4, <1>5, <1>6, <1>7, <1>8, <1>9, <1>10 DEF IndInv

\* The caller takes the answer from its channel.
LEMMA ReceiveStep ==
    ASSUME IndInv, NEW c \in Clients, Receive(c)
    PROVE  IndInv'
<1>a. TypeOK /\ ClientInv
  BY DEF IndInv
<1>b. \A d \in Clients : d # c =>
        /\ pc'[d] = pc[d] /\ req'[d] = req[d] /\ result'[d] = result[d]
        /\ d \in written' <=> d \in written
  BY <1>a DEF Receive, TypeOK
<1>c. /\ pc[c] = "recv" /\ result[c] # "none"
      /\ pc'[c] = "idle" /\ req'[c] = NoReq /\ result'[c] = "none"
  BY <1>a DEF Receive, TypeOK
<1>e. UNCHANGED <<alive, page, queue, inQueue, base, closed, closer, waiters,
                  calls, tableOps, wpc, task, res, aborted>>
  BY DEF Receive
<1>n. NoReq.cb = FALSE /\ NoReq.op = "None"
  BY DEF NoReq
<1>d. Accepted' = Accepted /\ \A d \in Accepted : d # c /\ d \in Clients
  BY <1>b, <1>c, <1>e, <1>n DEF Accepted
<1>1. TypeOK'
  <2>1. pc' \in [Clients -> {"idle", "lock", "wait", "notify", "recv"}]
    BY <1>a DEF Receive, TypeOK
  <2>2. req' \in [Clients -> Request \cup {NoReq}]
    BY <1>a DEF Receive, TypeOK
  <2>3. result' \in [Clients -> {"none", "ok", "err", "disconnected"}]
    BY <1>a DEF Receive, TypeOK
  <2>4. written' \in SUBSET Clients
    BY <1>a DEF Receive, TypeOK
  <2> QED
    BY <1>a, <1>e, <2>1, <2>2, <2>3, <2>4 DEF TypeOK
<1>2. QueueIndexed'
  BY <1>e DEF QueueIndexed, IndexedSlots, QueuedSlots, IndInv
<1>3. NeverAborts'
  BY <1>e DEF NeverAborts, IndInv
<1>4. ClientInv'
  BY <1>a, <1>b, <1>c, <1>e, <1>n DEF ClientInv
<1>5. WaitersInv'
  BY <1>a, <1>b, <1>c, <1>e DEF WaitersInv, TypeOK, IndInv
<1>6. QueueInv' /\ TaskEntryInv'
  BY <1>b, <1>d, <1>e, EntriesKept
<1>7. TaskInv' /\ OutcomeInv'
  <2>1. TaskInv'
    BY <1>e DEF TaskInv, IndInv
  <2>2. OutcomeInv'
    BY <1>b, <1>d, <1>e, OutcomeKept
  <2> QED
    BY <2>1, <2>2
<1>8. HolderInv'
  BY <1>d, <1>e, HoldersKept
<1>9. CloserInv'
  BY <1>e DEF CloserInv, IndInv
<1>10. InitOkMeansResident' /\ FlushOkMeansWritten' /\ NeverDisconnected'
  BY <1>b, <1>c, <1>e DEF InitOkMeansResident, FlushOkMeansWritten,
                          NeverDisconnected, IndInv
<1> QED
  BY <1>1, <1>2, <1>3, <1>4, <1>5, <1>6, <1>7, <1>8, <1>9, <1>10 DEF IndInv

\* Inner::dequeue pops the front entry.
LEMMA WorkerDequeueStep ==
    ASSUME IndInv, WorkerDequeue
    PROVE  IndInv'
<1> DEFINE n == Len(queue)
           s == queue[1].slot
<1>a. TypeOK /\ ClientInv /\ QueueIndexed /\ WaitersInv
  BY DEF IndInv
<1>e. UNCHANGED <<alive, page, closed, closer, req, result, calls, tableOps,
                  res, written>>
  BY DEF WorkerDequeue
<1>q. /\ n \in Nat \ {0} /\ DOMAIN queue = 1..n /\ DOMAIN queue' = 1..(n-1)
      /\ 1 \in DOMAIN queue /\ Head(queue) = queue[1]
      /\ \A i \in 1..(n-1) : queue'[i] = queue[i+1]
  BY <1>a DEF WorkerDequeue, TypeOK
<1>r. /\ queue[1] \in QueueEntry /\ s \in Slots /\ task' = queue[1]
      /\ wpc = "lock" /\ wpc' = "handle" /\ task = NoTask
  <2>1. queue[1] \in QueueEntry
    BY <1>a, <1>q DEF TypeOK
  <2> QED
    BY <2>1, <1>q DEF WorkerDequeue, QueueEntry, IndInv, TaskInv
<1>i. /\ inQueue'[s] = Absent
      /\ \A t \in Slots \ {s} : inQueue'[t] = inQueue[t]
  BY <1>a, <1>q, <1>r DEF WorkerDequeue, TypeOK
<1>w. /\ Woken \subseteq Clients
      /\ \A d \in Woken : pc[d] = "wait" /\ \E i \in DOMAIN waiters : d = waiters[i]
  BY <1>a DEF Woken, WaitersInv, TypeOK
<1>b. \A d \in Clients :
        /\ d \in Woken => pc[d] = "wait" /\ pc'[d] = "lock"
        /\ d \notin Woken => pc'[d] = pc[d]
  BY <1>w DEF WorkerDequeue
<1>d. Accepted' = Accepted
  BY <1>b, <1>e DEF Accepted
<1>1. TypeOK'
  <2>1. pc' \in [Clients -> {"idle", "lock", "wait", "notify", "recv"}]
    BY <1>a DEF WorkerDequeue, TypeOK
  <2>2. waiters' \in Seq(Clients)
    BY <1>a DEF WorkerDequeue, StillWaiting, TypeOK
  <2>3. queue' \in Seq(QueueEntry)
    BY <1>a DEF WorkerDequeue, TypeOK
  <2>4. inQueue' \in [Slots -> Nat \cup {Absent}]
    BY <1>a DEF WorkerDequeue, TypeOK
  <2>5. base' \in Nat
    BY <1>a DEF WorkerDequeue, BaseAfterPop, TypeOK
  <2>6. aborted' \in BOOLEAN
    BY DEF WorkerDequeue, InvariantHolds
  <2> QED
    BY <1>a, <1>e, <1>r, <2>1, <2>2, <2>3, <2>4, <2>5, <2>6 DEF TypeOK
<1>2. QueueIndexed'
  <2>1. \A i \in 1..(n-1) : queue[i+1].slot # s /\ queue[i+1].slot \in Slots
    <3> TAKE i \in 1..(n-1)
    <3>1. i + 1 \in DOMAIN queue /\ i + 1 # 1
      BY <1>q
    <3>2. queue[i+1] \in QueueEntry
      BY <3>1, <1>a DEF TypeOK
    <3> QED
      BY <3>1, <3>2, <1>a, <1>q, OneEntryPerSlot DEF QueueEntry
  <2>2. IndexedSlots' = IndexedSlots \ {s}
    BY <1>a, <1>i, <1>r DEF IndexedSlots
  <2>3. QueuedSlots' = QueuedSlots \ {s}
    <3>1. ASSUME NEW t \in QueuedSlots \ {s}
          PROVE  t \in QueuedSlots'
      <4>1. PICK i \in 1..n : t = queue[i].slot
        BY <1>q DEF QueuedSlots
      <4>2. i - 1 \in 1..(n-1) /\ queue'[i-1] = queue[i]
        BY <4>1, <1>q
      <4> QED
        BY <4>1, <4>2, <1>q DEF QueuedSlots
    <3>2. ASSUME NEW t \in QueuedSlots'
          PROVE  t \in QueuedSlots \ {s}
      <4>1. PICK i \in 1..(n-1) : t = queue'[i].slot
        BY <1>q DEF QueuedSlots
      <4>2. i + 1 \in DOMAIN queue /\ t = queue[i+1].slot
        BY <4>1, <1>q
      <4> QED
        BY <4>1, <4>2, <2>1 DEF QueuedSlots
    <3> QED
      BY <3>1, <3>2
  <2>4. ASSUME NEW i \in 1..(n-1)
        PROVE  inQueue'[queue'[i].slot] = base' + i - 1
    <3>1. inQueue'[queue'[i].slot] = inQueue[queue[i+1].slot]
      BY <1>i, <1>q, <2>1
    <3>2. inQueue[queue[i+1].slot] = base + (i + 1) - 1
      BY <1>a, <1>q DEF QueueIndexed
    <3>3. base' = base + 1
      BY <1>q DEF WorkerDequeue, BaseAfterPop
    <3> QED
      BY <3>1, <3>2, <3>3, <1>a DEF TypeOK
  <2> QED
    BY <1>a, <1>q, <2>2, <2>3, <2>4 DEF QueueIndexed
<1>3. NeverAborts'
  <2>1. InvariantHolds
    BY <1>a, AssertInvariantHolds
  <2>2. inQueue[queue[1].slot] = base
    <3>1. inQueue[queue[1].slot] = base + 1 - 1
      BY <1>a, <1>q DEF QueueIndexed
    <3> QED
      BY <3>1, <1>a DEF TypeOK
  <2>3. aborted' = (~InvariantHolds \/ inQueue[queue[1].slot] # base)
    BY <1>q DEF WorkerDequeue
  <2> QED
    BY <2>1, <2>2, <2>3 DEF NeverAborts
<1>4. ClientInv'
  BY <1>a, <1>b, <1>e DEF ClientInv
<1>5. WaitersInv'
  <2>1. CASE waiters = <<>>
    BY <1>a, <1>b, <1>w, <2>1 DEF WorkerDequeue, StillWaiting, WaitersInv
  <2>2. CASE waiters # <<>>
    <3>1. /\ waiters' = Tail(waiters) /\ Woken = {waiters[1]}
          /\ Len(waiters) \in Nat /\ DOMAIN waiters = 1..Len(waiters)
          /\ DOMAIN waiters' = 1..(Len(waiters) - 1)
          /\ \A i \in 1..(Len(waiters) - 1) : waiters'[i] = waiters[i+1]
      BY <1>a, <2>2 DEF WorkerDequeue, StillWaiting, Woken, TypeOK
    <3>2. ASSUME NEW i \in 1..(Len(waiters) - 1)
          PROVE  pc'[waiters'[i]] = "wait"
      <4>1. i + 1 \in DOMAIN waiters /\ i + 1 # 1 /\ 1 \in DOMAIN waiters
        BY <3>1
      <4>2. waiters[i+1] # waiters[1] /\ waiters[i+1] \in Clients
        BY <1>a, <4>1 DEF WaitersInv, TypeOK
      <4> QED
        BY <1>a, <1>b, <3>1, <4>1, <4>2 DEF WaitersInv
    <3>3. ASSUME NEW i \in 1..(Len(waiters) - 1), NEW j \in 1..(Len(waiters) - 1),
                 waiters'[i] = waiters'[j]
          PROVE  i = j
      <4>1. /\ i + 1 \in DOMAIN waiters /\ j + 1 \in DOMAIN waiters
            /\ waiters[i+1] = waiters[j+1]
        BY <3>1, <3>3
      <4> QED
        BY <1>a, <4>1 DEF WaitersInv
    <3> QED
      BY <3>1, <3>2, <3>3 DEF WaitersInv
  <2> QED
    BY <2>1, <2>2
<1>6. QueueInv' /\ TaskEntryInv'
  <2>1. ASSUME NEW i \in 1..(n-1)
        PROVE  EntryInv(queue[i])'
    <3>1. i + 1 \in DOMAIN queue /\ queue'[i] = queue[i+1]
      BY <1>q
    <3> QED
      BY <3>1, <1>d, <1>e DEF EntryInv, IndInv, QueueInv
  <2>2. EntryInv(task)'
    BY <1>d, <1>e, <1>q, <1>r DEF EntryInv, IndInv, QueueInv
  <2> QED
    BY <1>q, <2>1, <2>2 DEF QueueInv, TaskEntryInv
<1>7. TaskInv' /\ OutcomeInv'
  <2>1. queue[1] # NoTask
    BY <1>r DEF QueueEntry, NoTask, OpType
  <2> QED
    BY <1>r, <2>1 DEF TaskInv, OutcomeInv
<1>8. HolderInv'
  <2>1. task.cbs = {}
    BY <1>r DEF NoTask
  <2>2. ASSUME NEW d \in Accepted'
        PROVE  d \in task'.cbs \/ \E i \in 1..(n-1) : d \in queue'[i].cbs
    <3>1. PICK j \in 1..n : d \in queue[j].cbs
      BY <2>1, <1>d, <1>q DEF IndInv, HolderInv
    <3>2. j = 1 \/ (j - 1 \in 1..(n-1) /\ queue'[j-1] = queue[j])
      BY <1>q
    <3> QED
      BY <3>1, <3>2, <1>r
  <2>3. ASSUME NEW i \in 1..(n-1)
        PROVE  queue'[i].cbs \cap task'.cbs = {}
    <3>1. i + 1 \in DOMAIN queue /\ i + 1 # 1 /\ queue'[i] = queue[i+1]
      BY <1>q
    <3>2. queue[i+1].slot # queue[1].slot
      BY <3>1, <1>a, <1>q, OneEntryPerSlot
    <3>3. EntryInv(queue[i+1]) /\ EntryInv(queue[1])
      BY <3>1, <1>q DEF IndInv, QueueInv
    <3> QED
      BY <3>1, <3>2, <3>3, <1>r DEF EntryInv
  <2> QED
    BY <1>q, <2>2, <2>3 DEF HolderInv
<1>9. CloserInv'
  BY <1>e DEF CloserInv, IndInv
<1>10. InitOkMeansResident' /\ FlushOkMeansWritten' /\ NeverDisconnected'
  BY <1>e DEF InitOkMeansResident, FlushOkMeansWritten, NeverDisconnected, IndInv
<1> QED
  BY <1>1, <1>2, <1>3, <1>4, <1>5, <1>6, <1>7, <1>8, <1>9, <1>10 DEF IndInv

\* Nobody is in a call once the queue is closed.
LEMMA ClosedIsIdle ==
    ASSUME IndInv, closed
    PROVE  /\ \A c \in Clients : pc[c] = "idle"
           /\ Accepted = {} /\ waiters = <<>>
           /\ \A i \in DOMAIN queue : queue[i].cbs = {}
           /\ task.cbs = {}
<1>1. \A c \in Clients : pc[c] = "idle"
  BY DEF IndInv, ClientInv
<1>2. Accepted = {}
  BY <1>1 DEF Accepted
<1>3. waiters = <<>>
  <2>1. waiters \in Seq(Clients) /\ \A i \in DOMAIN waiters : pc[waiters[i]] = "wait"
    BY DEF IndInv, WaitersInv, TypeOK
  <2>2. ASSUME waiters # <<>>
        PROVE  1 \in DOMAIN waiters /\ waiters[1] \in Clients
    BY <2>1, <2>2
  <2> QED
    BY <1>1, <2>1, <2>2
<1>4. ASSUME NEW i \in DOMAIN queue
      PROVE  queue[i].cbs = {}
  BY <1>2 DEF IndInv, QueueInv, EntryInv
<1>5. task.cbs = {}
  <2>1. CASE task = NoTask
    BY <2>1 DEF NoTask
  <2>2. CASE task # NoTask
    BY <1>2, <2>2 DEF IndInv, TaskEntryInv, EntryInv
  <2> QED
    BY <2>1, <2>2
<1> QED
  BY <1>1, <1>2, <1>3, <1>4, <1>5

\* Inner::dequeue waits.
LEMMA WorkerWaitStep ==
    ASSUME IndInv, WorkerWait
    PROVE  IndInv'
<1>e. UNCHANGED <<alive, page, queue, inQueue, base, closed, closer, waiters,
                  pc, req, result, calls, tableOps, task, res, written>>
  BY DEF WorkerWait
<1>i. aborted' = FALSE /\ wpc = "lock" /\ wpc' = "wait"
  <2>1. InvariantHolds
    BY AssertInvariantHolds DEF IndInv
  <2> QED
    BY <2>1 DEF WorkerWait
<1>d. Accepted' = Accepted
  BY <1>e DEF Accepted
<1>1. TypeOK'
  BY <1>e, <1>i DEF TypeOK, IndInv
<1>2. QueueIndexed'
  BY <1>e DEF QueueIndexed, IndexedSlots, QueuedSlots, IndInv
<1>3. NeverAborts'
  BY <1>i DEF NeverAborts
<1>4. ClientInv'
  BY <1>e DEF ClientInv, IndInv
<1>5. WaitersInv'
  BY <1>e DEF WaitersInv, IndInv
<1>6. QueueInv' /\ TaskEntryInv'
  BY <1>d, <1>e, EntriesKept
<1>7. TaskInv' /\ OutcomeInv'
  BY <1>e, <1>i DEF TaskInv, OutcomeInv, IndInv
<1>8. HolderInv'
  BY <1>d, <1>e, HoldersKept
<1>9. CloserInv'
  BY <1>e DEF CloserInv, IndInv
<1>10. InitOkMeansResident' /\ FlushOkMeansWritten' /\ NeverDisconnected'
  BY <1>e DEF InitOkMeansResident, FlushOkMeansWritten, NeverDisconnected, IndInv
<1> QED
  BY <1>1, <1>2, <1>3, <1>4, <1>5, <1>6, <1>7, <1>8, <1>9, <1>10 DEF IndInv

\* The worker leaves and drops the queue: nobody waits for what is in it.
LEMMA WorkerExitStep ==
    ASSUME IndInv, WorkerExit
    PROVE  IndInv'
<1>a. TypeOK /\ ClientInv
  BY DEF IndInv
<1>b. /\ \A c \in Clients : pc[c] = "idle"
      /\ Accepted = {} /\ waiters = <<>>
      /\ UNION {queue[i].cbs : i \in DOMAIN queue} = {}
  BY ClosedIsIdle DEF WorkerExit
<1>c. pc' = pc /\ result' = result /\ waiters' = <<>>
  BY <1>a, <1>b DEF WorkerExit, Disconnected, TypeOK
<1>e. UNCHANGED <<alive, page, closed, closer, waiters, pc, req, result, calls,
                  tableOps, task, res, written, aborted>>
  BY <1>b, <1>c DEF WorkerExit
<1>q. queue' = <<>> /\ base' = 0 /\ inQueue' = [s \in Slots |-> Absent]
  BY DEF WorkerExit
<1>w. wpc = "lock" /\ wpc' = "exited" /\ task = NoTask
  BY DEF WorkerExit, IndInv, TaskInv
<1>d. Accepted' = Accepted
  BY <1>e DEF Accepted
<1>1. TypeOK'
  BY <1>a, <1>e, <1>q, <1>w DEF TypeOK
<1>2. QueueIndexed'
  BY <1>q DEF QueueIndexed, IndexedSlots, QueuedSlots
<1>3. NeverAborts'
  BY <1>e DEF NeverAborts, IndInv
<1>4. ClientInv'
  BY <1>e DEF ClientInv, IndInv
<1>5. WaitersInv'
  BY <1>e DEF WaitersInv, IndInv
<1>6. QueueInv' /\ TaskEntryInv'
  BY <1>e, <1>q, <1>w DEF QueueInv, TaskEntryInv
<1>7. TaskInv' /\ OutcomeInv'
  BY <1>e, <1>w DEF TaskInv, OutcomeInv
<1>8. HolderInv'
  BY <1>b, <1>d, <1>q DEF HolderInv
<1>9. CloserInv'
  BY <1>e DEF CloserInv, IndInv
<1>10. InitOkMeansResident' /\ FlushOkMeansWritten' /\ NeverDisconnected'
  BY <1>e DEF InitOkMeansResident, FlushOkMeansWritten, NeverDisconnected, IndInv
<1> QED
  BY <1>1, <1>2, <1>3, <1>4, <1>5, <1>6, <1>7, <1>8, <1>9, <1>10 DEF IndInv

\* handle_task upgrades its slot; a dead one has nobody waiting.
LEMMA HandleUpgradeStep ==
    ASSUME IndInv, HandleUpgrade
    PROVE  IndInv'
<1>a. TypeOK /\ ClientInv
  BY DEF IndInv
<1>t. /\ wpc = "handle" /\ task # NoTask /\ task \in QueueEntry /\ EntryInv(task)
      /\ \A i \in DOMAIN queue : queue[i].cbs \cap task.cbs = {}
  BY <1>a DEF HandleUpgrade, IndInv, TaskInv, TaskEntryInv, TypeOK, HolderInv
<1>u. \/ wpc' = "run" /\ task' = task /\ result' = result
      \/ wpc' = "lock" /\ task' = NoTask /\ result' = result /\ task.cbs = {}
  <2>1. ASSUME ~alive[task.slot], NEW c \in task.cbs
        PROVE  FALSE
    <3>1. c \in Clients /\ c \in Accepted /\ req[c].slot = task.slot
      BY <1>t, <2>1 DEF EntryInv, QueueEntry
    <3>2. pc[c] # "idle"
      BY <3>1 DEF Accepted
    <3> QED
      BY <1>a, <2>1, <3>1, <3>2 DEF ClientInv
  <2>2. ASSUME task.cbs = {}
        PROVE  Disconnected(task.cbs) = result
    BY <1>a, <2>2 DEF Disconnected, TypeOK
  <2> QED
    BY <2>1, <2>2 DEF HandleUpgrade
<1>e. UNCHANGED <<alive, page, queue, inQueue, base, closed, closer, waiters,
                  pc, req, result, calls, tableOps, res, written, aborted>>
  BY <1>u DEF HandleUpgrade
<1>d. Accepted' = Accepted
  BY <1>e DEF Accepted
<1>1. TypeOK'
  BY <1>a, <1>e, <1>u DEF TypeOK
<1>2. QueueIndexed'
  BY <1>e DEF QueueIndexed, IndexedSlots, QueuedSlots, IndInv
<1>3. NeverAborts'
  BY <1>e DEF NeverAborts, IndInv
<1>4. ClientInv'
  BY <1>e DEF ClientInv, IndInv
<1>5. WaitersInv'
  BY <1>e DEF WaitersInv, IndInv
<1>6. QueueInv' /\ TaskEntryInv'
  <2>1. QueueInv'
    BY <1>d, <1>e DEF IndInv, QueueInv, EntryInv
  <2>2. TaskEntryInv'
    BY <1>d, <1>e, <1>t, <1>u DEF TaskEntryInv, EntryInv
  <2> QED
    BY <2>1, <2>2
<1>7. TaskInv' /\ OutcomeInv'
  BY <1>t, <1>u DEF TaskInv, OutcomeInv
<1>8. HolderInv'
  <2>1. NoTask.cbs = {}
    BY DEF NoTask
  <2> QED
    BY <1>d, <1>e, <1>u, <2>1 DEF HolderInv, IndInv
<1>9. CloserInv'
  BY <1>e DEF CloserInv, IndInv
<1>10. InitOkMeansResident' /\ FlushOkMeansWritten' /\ NeverDisconnected'
  BY <1>e DEF InitOkMeansResident, FlushOkMeansWritten, NeverDisconnected, IndInv
<1> QED
  BY <1>1, <1>2, <1>3, <1>4, <1>5, <1>6, <1>7, <1>8, <1>9, <1>10 DEF IndInv

\* handle_task faults its page in, or fails to.
LEMMA HandleInitStep ==
    ASSUME IndInv, NEW read \in {"ok", "err"}, HandleInit(read)
    PROVE  IndInv'
<1> DEFINE s == task.slot
           ok == page[s] \/ read = "ok"
<1>a. TypeOK /\ ClientInv
  BY DEF IndInv
<1>t. /\ wpc = "run" /\ task.op = "Init" /\ task # NoTask /\ task \in QueueEntry
      /\ s \in Slots /\ EntryInv(task)
  <2>1. task # NoTask /\ task \in QueueEntry
    BY <1>a DEF HandleInit, IndInv, TaskInv, TypeOK
  <2> QED
    BY <2>1 DEF HandleInit, IndInv, TaskEntryInv, QueueEntry
<1>e. UNCHANGED <<alive, queue, inQueue, base, closed, closer, waiters, pc, req,
                  result, calls, tableOps, task, written, aborted>>
  BY DEF HandleInit
<1>p. /\ page' = [page EXCEPT ![s] = ok] /\ ok \in BOOLEAN
      /\ res' = (IF ok THEN "ok" ELSE "err") /\ wpc' = "deliver"
  BY <1>a, <1>t DEF HandleInit, TypeOK
<1>m. \A t \in Slots : page[t] => page'[t]
  BY <1>a, <1>p, <1>t DEF TypeOK
<1>d. Accepted' = Accepted
  BY <1>e DEF Accepted
<1>1. TypeOK'
  <2>1. page' \in [Slots -> BOOLEAN]
    BY <1>a, <1>p DEF TypeOK
  <2> QED
    BY <1>a, <1>e, <1>p, <2>1 DEF TypeOK
<1>2. QueueIndexed'
  BY <1>e DEF QueueIndexed, IndexedSlots, QueuedSlots, IndInv
<1>3. NeverAborts'
  BY <1>e DEF NeverAborts, IndInv
<1>4. ClientInv'
  BY <1>a, <1>e, <1>m, RequestFacts DEF ClientInv, TypeOK
<1>5. WaitersInv'
  BY <1>e DEF WaitersInv, IndInv
<1>6. QueueInv' /\ TaskEntryInv'
  BY <1>d, <1>e, <1>m, EntriesKept
<1>7. TaskInv' /\ OutcomeInv'
  <2>1. TaskInv'
    BY <1>e, <1>p, <1>t DEF TaskInv
  <2>2. ASSUME res' = "ok"
        PROVE  page'[s]
    BY <2>2, <1>a, <1>p, <1>t DEF TypeOK
  <2>3. \A c \in task.cbs : req[c].slot = s /\ req[c].op # "Flush"
    BY <1>t DEF EntryInv
  <2> QED
    BY <2>1, <2>2, <2>3, <1>e DEF OutcomeInv
<1>8. HolderInv'
  BY <1>d, <1>e, HoldersKept
<1>9. CloserInv'
  BY <1>e DEF CloserInv, IndInv
<1>10. InitOkMeansResident' /\ FlushOkMeansWritten' /\ NeverDisconnected'
  <2>1. ASSUME NEW c \in Clients, result[c] = "ok"
        PROVE  req[c].slot \in Slots
    BY <2>1, <1>a, RequestFacts DEF ClientInv, TypeOK
  <2> QED
    BY <2>1, <1>e, <1>m DEF InitOkMeansResident, FlushOkMeansWritten,
                            NeverDisconnected, IndInv
<1> QED
  BY <1>1, <1>2, <1>3, <1>4, <1>5, <1>6, <1>7, <1>8, <1>9, <1>10 DEF IndInv

\* handle_task writes its page back, or fails to.
LEMMA HandleFlushStep ==
    ASSUME IndInv, NEW write \in {"ok", "err"}, HandleFlush(write)
    PROVE  IndInv'
<1> DEFINE s == task.slot
<1>a. TypeOK /\ ClientInv
  BY DEF IndInv
<1>t. /\ wpc = "run" /\ task.op = "Flush" /\ task # NoTask /\ task \in QueueEntry
      /\ s \in Slots /\ EntryInv(task) /\ page[s]
  <2>1. task # NoTask /\ task \in QueueEntry /\ task.op = "Flush"
    BY <1>a DEF HandleFlush, IndInv, TaskInv, TypeOK
  <2> QED
    BY <2>1 DEF HandleFlush, IndInv, TaskEntryInv, QueueEntry, EntryInv
<1>e. UNCHANGED <<alive, page, queue, inQueue, base, closed, closer, waiters,
                  pc, req, result, calls, tableOps, task>>
  BY DEF HandleFlush
<1>p. /\ aborted' = FALSE /\ res' = write /\ wpc' = "deliver"
      /\ written \subseteq written' /\ written' \subseteq Clients
      /\ write = "ok" => Asking(s) \subseteq written'
  BY <1>a, <1>t DEF HandleFlush, TypeOK, Asking
<1>d. Accepted' = Accepted
  BY <1>e DEF Accepted
<1>1. TypeOK'
  BY <1>a, <1>e, <1>p DEF TypeOK
<1>2. QueueIndexed'
  BY <1>e DEF QueueIndexed, IndexedSlots, QueuedSlots, IndInv
<1>3. NeverAborts'
  BY <1>p DEF NeverAborts
<1>4. ClientInv'
  BY <1>e DEF ClientInv, IndInv
<1>5. WaitersInv'
  BY <1>e DEF WaitersInv, IndInv
<1>6. QueueInv' /\ TaskEntryInv'
  BY <1>d, <1>e, EntriesKept
<1>7. TaskInv' /\ OutcomeInv'
  <2>1. TaskInv'
    BY <1>e, <1>p, <1>t DEF TaskInv
  <2>2. \A c \in task.cbs : req[c].slot = s /\ c \in Asking(s)
    BY <1>t DEF EntryInv, Accepted, Asking
  <2> QED
    BY <2>1, <2>2, <1>e, <1>p, <1>t DEF OutcomeInv
<1>8. HolderInv'
  BY <1>d, <1>e, HoldersKept
<1>9. CloserInv'
  BY <1>e DEF CloserInv, IndInv
<1>10. InitOkMeansResident' /\ FlushOkMeansWritten' /\ NeverDisconnected'
  BY <1>e, <1>p DEF InitOkMeansResident, FlushOkMeansWritten,
                    NeverDisconnected, IndInv
<1> QED
  BY <1>1, <1>2, <1>3, <1>4, <1>5, <1>6, <1>7, <1>8, <1>9, <1>10 DEF IndInv

\* handle_task calls one callback.
LEMMA DeliverStep ==
    ASSUME IndInv, NEW c \in Clients, Deliver(c)
    PROVE  IndInv'
<1>a. TypeOK /\ ClientInv
  BY DEF IndInv
<1>t. /\ wpc = "deliver" /\ c \in task.cbs /\ task # NoTask /\ task \in QueueEntry
      /\ EntryInv(task) /\ res \in {"ok", "err"} /\ c \in Accepted
  <2>1. task # NoTask /\ wpc = "deliver" /\ c \in task.cbs
    BY DEF Deliver, IndInv, TaskInv
  <2>2. task \in QueueEntry /\ EntryInv(task) /\ res \in {"ok", "err"}
    BY <1>a, <2>1 DEF IndInv, TaskInv, TaskEntryInv, TypeOK
  <2> QED
    BY <2>1, <2>2 DEF EntryInv
<1>e. UNCHANGED <<alive, page, queue, inQueue, base, closed, closer, waiters,
                  pc, req, calls, tableOps, wpc, res, written, aborted>>
  BY DEF Deliver
<1>b. /\ result'[c] = res
      /\ \A d \in Clients : d # c => result'[d] = result[d]
  BY <1>a DEF Deliver, TypeOK
<1>d. Accepted' = Accepted \ {c}
  BY <1>b, <1>e, <1>t DEF Accepted
<1>k. /\ task' \in QueueEntry /\ task'.slot = task.slot /\ task'.op = task.op
      /\ task'.cbs = task.cbs \ {c} /\ task' # NoTask
  <2>1. /\ task' \in QueueEntry /\ task'.slot = task.slot /\ task'.op = task.op
        /\ task'.cbs = task.cbs \ {c}
    BY <1>t DEF Deliver, QueueEntry
  <2> QED
    BY <2>1 DEF QueueEntry, NoTask, OpType
<1>h. /\ \A i \in DOMAIN queue : c \notin queue[i].cbs
      /\ \A i \in DOMAIN queue : queue[i].cbs \cap task.cbs = {}
  BY <1>t DEF IndInv, HolderInv
<1>1. TypeOK'
  <2>1. result' \in [Clients -> {"none", "ok", "err", "disconnected"}]
    BY <1>a, <1>t DEF Deliver, TypeOK
  <2> QED
    BY <1>a, <1>e, <1>k, <2>1 DEF TypeOK
<1>2. QueueIndexed'
  BY <1>e DEF QueueIndexed, IndexedSlots, QueuedSlots, IndInv
<1>3. NeverAborts'
  BY <1>e DEF NeverAborts, IndInv
<1>4. ClientInv'
  <2>1. pc[c] \in {"notify", "recv"} /\ req[c].cb
    BY <1>t DEF Accepted
  <2> QED
    BY <1>a, <1>b, <1>e, <2>1 DEF ClientInv
<1>5. WaitersInv'
  BY <1>e DEF WaitersInv, IndInv
<1>6. QueueInv' /\ TaskEntryInv'
  <2>1. ASSUME NEW i \in DOMAIN queue
        PROVE  EntryInv(queue[i])'
    BY <1>d, <1>e, <1>h DEF IndInv, QueueInv, EntryInv
  <2>2. EntryInv(task)'
    BY <1>d, <1>e, <1>k, <1>t DEF EntryInv
  <2> QED
    BY <1>e, <2>1, <2>2 DEF QueueInv, TaskEntryInv
<1>7. TaskInv' /\ OutcomeInv'
  <2>1. TaskInv'
    BY <1>e, <1>k, <1>t DEF TaskInv
  <2> QED
    BY <2>1, <1>e, <1>k DEF OutcomeInv, IndInv
<1>8. HolderInv'
  BY <1>d, <1>e, <1>h, <1>k DEF HolderInv, IndInv
<1>9. CloserInv'
  BY <1>e DEF CloserInv, IndInv
<1>10. InitOkMeansResident' /\ FlushOkMeansWritten' /\ NeverDisconnected'
  <2>1. res = "ok" => /\ page[req[c].slot]
                      /\ req[c].op = "Flush" => c \in written
    BY <1>t DEF IndInv, OutcomeInv
  <2> QED
    BY <1>b, <1>e, <1>t, <2>1 DEF InitOkMeansResident, FlushOkMeansWritten,
                                  NeverDisconnected, IndInv
<1> QED
  BY <1>1, <1>2, <1>3, <1>4, <1>5, <1>6, <1>7, <1>8, <1>9, <1>10 DEF IndInv

\* handle_task has called all callbacks.
LEMMA TaskDoneStep ==
    ASSUME IndInv, TaskDone
    PROVE  IndInv'
<1>e. UNCHANGED <<alive, page, queue, inQueue, base, closed, closer, waiters,
                  pc, req, result, calls, tableOps, written, aborted>>
  BY DEF TaskDone
<1>t. wpc' = "lock" /\ task' = NoTask /\ res' = "none" /\ task.cbs = {} /\ NoTask.cbs = {}
  BY DEF TaskDone, NoTask
<1>d. Accepted' = Accepted
  BY <1>e DEF Accepted
<1>1. TypeOK'
  BY <1>e, <1>t DEF TypeOK, IndInv
<1>2. QueueIndexed'
  BY <1>e DEF QueueIndexed, IndexedSlots, QueuedSlots, IndInv
<1>3. NeverAborts'
  BY <1>e DEF NeverAborts, IndInv
<1>4. ClientInv'
  BY <1>e DEF ClientInv, IndInv
<1>5. WaitersInv'
  BY <1>e DEF WaitersInv, IndInv
<1>6. QueueInv' /\ TaskEntryInv'
  BY <1>d, <1>e, <1>t DEF QueueInv, TaskEntryInv, EntryInv, IndInv
<1>7. TaskInv' /\ OutcomeInv'
  BY <1>t DEF TaskInv, OutcomeInv
<1>8. HolderInv'
  BY <1>d, <1>e, <1>t DEF HolderInv, IndInv
<1>9. CloserInv'
  BY <1>e DEF CloserInv, IndInv
<1>10. InitOkMeansResident' /\ FlushOkMeansWritten' /\ NeverDisconnected'
  BY <1>e DEF InitOkMeansResident, FlushOkMeansWritten, NeverDisconnected, IndInv
<1> QED
  BY <1>1, <1>2, <1>3, <1>4, <1>5, <1>6, <1>7, <1>8, <1>9, <1>10 DEF IndInv

\* A slot that nobody asks about loses its page table.
LEMMA UnmapStep ==
    ASSUME IndInv, NEW s \in Slots, Unmap(s)
    PROVE  IndInv'
<1>a. TypeOK /\ ClientInv
  BY DEF IndInv
<1>e. UNCHANGED <<page, queue, inQueue, base, closed, closer, waiters, pc, req,
                  result, calls, wpc, task, res, written, aborted>>
  BY DEF Unmap
<1>d. Accepted' = Accepted
  BY <1>e DEF Accepted
<1>1. TypeOK'
  <2>1. alive' \in [Slots -> BOOLEAN] /\ tableOps' \in Nat
    BY <1>a DEF Unmap, TypeOK
  <2> QED
    BY <1>a, <1>e, <2>1 DEF TypeOK
<1>2. QueueIndexed'
  BY <1>e DEF QueueIndexed, IndexedSlots, QueuedSlots, IndInv
<1>3. NeverAborts'
  BY <1>e DEF NeverAborts, IndInv
<1>4. ClientInv'
  <2>1. \A c \in Clients : pc[c] # "idle" => req[c].slot # s
    BY DEF Unmap, InUse
  <2>2. \A t : t # s /\ alive[t] => alive'[t]
    BY <1>a DEF Unmap, TypeOK
  <2> QED
    BY <1>a, <1>e, <2>1, <2>2 DEF ClientInv
<1>5. WaitersInv'
  BY <1>e DEF WaitersInv, IndInv
<1>6. QueueInv' /\ TaskEntryInv'
  BY <1>d, <1>e, EntriesKept
<1>7. TaskInv' /\ OutcomeInv'
  BY <1>e DEF TaskInv, OutcomeInv, IndInv
<1>8. HolderInv'
  BY <1>d, <1>e, HoldersKept
<1>9. CloserInv'
  BY <1>e DEF CloserInv, IndInv
<1>10. InitOkMeansResident' /\ FlushOkMeansWritten' /\ NeverDisconnected'
  BY <1>e DEF InitOkMeansResident, FlushOkMeansWritten, NeverDisconnected, IndInv
<1> QED
  BY <1>1, <1>2, <1>3, <1>4, <1>5, <1>6, <1>7, <1>8, <1>9, <1>10 DEF IndInv

\* A new slot is made where neither queue nor worker know one.
LEMMA MapSlotStep ==
    ASSUME IndInv, NEW s \in Slots, MapSlot(s)
    PROVE  IndInv'
<1>a. TypeOK /\ ClientInv
  BY DEF IndInv
<1>e. UNCHANGED <<queue, inQueue, base, closed, closer, waiters, pc, req,
                  result, calls, wpc, task, res, written, aborted>>
  BY DEF MapSlot
<1>p. /\ ~alive[s] /\ ~Referenced(s)
      /\ \A t \in Slots \ {s} : alive'[t] = alive[t] /\ page'[t] = page[t]
      /\ alive'[s]
  BY <1>a DEF MapSlot, TypeOK
<1>u. \A c \in Clients : pc[c] # "idle" => req[c].slot \in Slots \ {s}
  BY <1>a, <1>p, RequestFacts DEF ClientInv, TypeOK
<1>d. Accepted' = Accepted
  BY <1>e DEF Accepted
<1>1. TypeOK'
  <2>1. alive' \in [Slots -> BOOLEAN] /\ page' \in [Slots -> BOOLEAN]
    BY <1>a DEF MapSlot, TypeOK
  <2>2. tableOps' \in Nat
    BY <1>a DEF MapSlot, TypeOK
  <2> QED
    BY <1>a, <1>e, <2>1, <2>2 DEF TypeOK
<1>2. QueueIndexed'
  BY <1>e DEF QueueIndexed, IndexedSlots, QueuedSlots, IndInv
<1>3. NeverAborts'
  BY <1>e DEF NeverAborts, IndInv
<1>4. ClientInv'
  BY <1>a, <1>e, <1>p, <1>u DEF ClientInv
<1>5. WaitersInv'
  BY <1>e DEF WaitersInv, IndInv
<1>6. QueueInv' /\ TaskEntryInv'
  <2>1. ASSUME NEW i \in DOMAIN queue
        PROVE  EntryInv(queue[i])'
    <3>1. queue[i] \in QueueEntry
      BY <1>a DEF TypeOK
    <3>2. queue[i].slot \in Slots \ {s}
      BY <1>p, <3>1 DEF Referenced, QueuedSlots, QueueEntry
    <3> QED
      BY <1>d, <1>e, <1>p, <3>2 DEF IndInv, QueueInv, EntryInv
  <2>2. ASSUME task # NoTask
        PROVE  EntryInv(task)'
    <3>1. task.slot \in Slots \ {s}
      BY <1>a, <1>p, <2>2 DEF Referenced, QueueEntry, TypeOK
    <3> QED
      BY <1>d, <1>e, <1>p, <2>2, <3>1 DEF IndInv, TaskEntryInv, EntryInv
  <2> QED
    BY <1>e, <2>1, <2>2 DEF QueueInv, TaskEntryInv
<1>7. TaskInv' /\ OutcomeInv'
  <2>1. TaskInv'
    BY <1>e DEF TaskInv, IndInv
  <2>2. ASSUME wpc = "deliver", NEW c \in task.cbs
        PROVE  req[c].slot \in Slots \ {s}
    <3>1. c \in Accepted
      BY <2>2 DEF IndInv, TaskInv, TaskEntryInv, EntryInv
    <3> QED
      BY <1>u, <3>1 DEF Accepted
  <2> QED
    BY <2>1, <2>2, <1>e, <1>p DEF OutcomeInv, IndInv
<1>8. HolderInv'
  BY <1>d, <1>e, HoldersKept
<1>9. CloserInv'
  BY <1>e DEF CloserInv, IndInv
<1>10. InitOkMeansResident' /\ FlushOkMeansWritten' /\ NeverDisconnected'
  <2>1. ASSUME NEW c \in Clients, result[c] = "ok"
        PROVE  req[c].slot \in Slots \ {s}
    BY <2>1, <1>a, <1>u DEF ClientInv
  <2> QED
    BY <2>1, <1>e, <1>p DEF InitOkMeansResident, FlushOkMeansWritten,
                            NeverDisconnected, IndInv
<1> QED
  BY <1>1, <1>2, <1>3, <1>4, <1>5, <1>6, <1>7, <1>8, <1>9, <1>10 DEF IndInv

\* The last IoMMU goes, with its page table.
LEMMA CloseStep ==
    ASSUME IndInv, Close
    PROVE  IndInv'
<1>e. UNCHANGED <<page, queue, inQueue, base, waiters, pc, req, result, calls,
                  tableOps, wpc, task, res, written, aborted>>
  BY DEF Close
<1>c. /\ closed' = TRUE /\ closer' = "notify" /\ alive' = [s \in Slots |-> FALSE]
      /\ \A c \in Clients : pc[c] = "idle"
  BY DEF Close
<1>d. Accepted' = Accepted
  BY <1>e DEF Accepted
<1>1. TypeOK'
  BY <1>c, <1>e DEF TypeOK, IndInv
<1>2. QueueIndexed'
  BY <1>e DEF QueueIndexed, IndexedSlots, QueuedSlots, IndInv
<1>3. NeverAborts'
  BY <1>e DEF NeverAborts, IndInv
<1>4. ClientInv'
  BY <1>c, <1>e DEF ClientInv, IndInv
<1>5. WaitersInv'
  BY <1>e DEF WaitersInv, IndInv
<1>6. QueueInv' /\ TaskEntryInv'
  BY <1>d, <1>e, EntriesKept
<1>7. TaskInv' /\ OutcomeInv'
  BY <1>e DEF TaskInv, OutcomeInv, IndInv
<1>8. HolderInv'
  BY <1>d, <1>e, HoldersKept
<1>9. CloserInv'
  BY <1>c DEF CloserInv
<1>10. InitOkMeansResident' /\ FlushOkMeansWritten' /\ NeverDisconnected'
  BY <1>e DEF InitOkMeansResident, FlushOkMeansWritten, NeverDisconnected, IndInv
<1> QED
  BY <1>1, <1>2, <1>3, <1>4, <1>5, <1>6, <1>7, <1>8, <1>9, <1>10 DEF IndInv

\* Inner::close notifies both condvars.
LEMMA CloseNotifyStep ==
    ASSUME IndInv, CloseNotify
    PROVE  IndInv'
<1>a. TypeOK
  BY DEF IndInv
<1>b. (\A c \in Clients : pc[c] = "idle") /\ waiters = <<>> /\ closed
  <2>1. closed
    BY DEF IndInv, CloserInv, CloseNotify
  <2> QED
    BY <2>1, ClosedIsIdle
<1>e. UNCHANGED <<alive, page, queue, inQueue, base, closed, waiters, pc, req,
                  result, calls, tableOps, task, res, written, aborted>>
  BY <1>a, <1>b DEF CloseNotify, TypeOK
<1>c. /\ closer' = "join" /\ wpc' = IF wpc = "wait" THEN "lock" ELSE wpc
  BY DEF CloseNotify
<1>d. Accepted' = Accepted
  BY <1>e DEF Accepted
<1>1. TypeOK'
  BY <1>a, <1>c, <1>e DEF TypeOK
<1>2. QueueIndexed'
  BY <1>e DEF QueueIndexed, IndexedSlots, QueuedSlots, IndInv
<1>3. NeverAborts'
  BY <1>e DEF NeverAborts, IndInv
<1>4. ClientInv'
  BY <1>e DEF ClientInv, IndInv
<1>5. WaitersInv'
  BY <1>e DEF WaitersInv, IndInv
<1>6. QueueInv' /\ TaskEntryInv'
  BY <1>d, <1>e, EntriesKept
<1>7. TaskInv' /\ OutcomeInv'
  BY <1>c, <1>e DEF TaskInv, OutcomeInv, IndInv
<1>8. HolderInv'
  BY <1>d, <1>e, HoldersKept
<1>9. CloserInv'
  BY <1>b, <1>c, <1>e DEF CloserInv
<1>10. InitOkMeansResident' /\ FlushOkMeansWritten' /\ NeverDisconnected'
  BY <1>e DEF InitOkMeansResident, FlushOkMeansWritten, NeverDisconnected, IndInv
<1> QED
  BY <1>1, <1>2, <1>3, <1>4, <1>5, <1>6, <1>7, <1>8, <1>9, <1>10 DEF IndInv

\* The join returns.
LEMMA JoinStep ==
    ASSUME IndInv, Join
    PROVE  IndInv'
<1>e. UNCHANGED <<alive, page, queue, inQueue, base, closed, waiters, pc, req,
                  result, calls, tableOps, wpc, task, res, written, aborted>>
  BY DEF Join
<1>c. closer = "join" /\ closer' = "done"
  BY DEF Join
<1>d. Accepted' = Accepted
  BY <1>e DEF Accepted
<1>1. TypeOK'
  BY <1>c, <1>e DEF TypeOK, IndInv
<1>2. QueueIndexed'
  BY <1>e DEF QueueIndexed, IndexedSlots, QueuedSlots, IndInv
<1>3. NeverAborts'
  BY <1>e DEF NeverAborts, IndInv
<1>4. ClientInv'
  BY <1>e DEF ClientInv, IndInv
<1>5. WaitersInv'
  BY <1>e DEF WaitersInv, IndInv
<1>6. QueueInv' /\ TaskEntryInv'
  BY <1>d, <1>e, EntriesKept
<1>7. TaskInv' /\ OutcomeInv'
  BY <1>e DEF TaskInv, OutcomeInv, IndInv
<1>8. HolderInv'
  BY <1>d, <1>e, HoldersKept
<1>9. CloserInv'
  BY <1>c, <1>e DEF CloserInv, IndInv
<1>10. InitOkMeansResident' /\ FlushOkMeansWritten' /\ NeverDisconnected'
  BY <1>e DEF InitOkMeansResident, FlushOkMeansWritten, NeverDisconnected, IndInv
<1> QED
  BY <1>1, <1>2, <1>3, <1>4, <1>5, <1>6, <1>7, <1>8, <1>9, <1>10 DEF IndInv

\* Nothing changes.
LEMMA StutterStep ==
    ASSUME IndInv, UNCHANGED vars
    PROVE  IndInv'
<1>e. UNCHANGED <<alive, page, queue, inQueue, base, closed, closer, waiters, pc,
                  req, result, calls, tableOps, wpc, task, res, written,
                  aborted>>
  BY DEF vars
<1>d. Accepted' = Accepted
  BY <1>e DEF Accepted
<1>1. TypeOK'
  BY <1>e DEF TypeOK, IndInv
<1>2. QueueIndexed'
  BY <1>e DEF QueueIndexed, IndexedSlots, QueuedSlots, IndInv
<1>3. NeverAborts'
  BY <1>e DEF NeverAborts, IndInv
<1>4. ClientInv'
  BY <1>e DEF ClientInv, IndInv
<1>5. WaitersInv'
  BY <1>e DEF WaitersInv, IndInv
<1>6. QueueInv' /\ TaskEntryInv'
  BY <1>d, <1>e, EntriesKept
<1>7. TaskInv' /\ OutcomeInv'
  BY <1>e DEF TaskInv, OutcomeInv, IndInv
<1>8. HolderInv'
  BY <1>d, <1>e, HoldersKept
<1>9. CloserInv'
  BY <1>e DEF CloserInv, IndInv
<1>10. InitOkMeansResident' /\ FlushOkMeansWritten' /\ NeverDisconnected'
  BY <1>e DEF InitOkMeansResident, FlushOkMeansWritten, NeverDisconnected, IndInv
<1> QED
  BY <1>1, <1>2, <1>3, <1>4, <1>5, <1>6, <1>7, <1>8, <1>9, <1>10 DEF IndInv

\* ObjectManager::new starts in a state of the invariant.
LEMMA InitEstablishes ==
    ASSUME Init
    PROVE  IndInv
<1>n. NoReq.op = "None" /\ NoReq.cb = FALSE /\ NoTask.cbs = {}
  BY DEF NoReq, NoTask
<1>d. Accepted = {}
  BY DEF Init, Accepted
<1>1. TypeOK
  <2>1. MaxCalls \in Nat /\ MaxTableOps \in Nat
    BY ObjectManagerAssumption
  <2>2. queue \in Seq(QueueEntry) /\ waiters \in Seq(Clients) /\ base \in Nat
    BY DEF Init
  <2>3. /\ alive \in [Slots -> BOOLEAN] /\ page \in [Slots -> BOOLEAN]
        /\ inQueue \in [Slots -> Nat \cup {Absent}]
    BY DEF Init
  <2>4. /\ pc \in [Clients -> {"idle", "lock", "wait", "notify", "recv"}]
        /\ req \in [Clients -> Request \cup {NoReq}]
        /\ result \in [Clients -> {"none", "ok", "err", "disconnected"}]
        /\ calls \in [Clients -> Nat] /\ tableOps \in Nat
    BY <2>1 DEF Init
  <2> QED
    BY <2>2, <2>3, <2>4 DEF Init, TypeOK
<1>2. QueueIndexed
  BY DEF Init, QueueIndexed, IndexedSlots, QueuedSlots
<1>3. NeverAborts /\ CloserInv
  BY DEF Init, NeverAborts, CloserInv
<1>4. ClientInv
  BY <1>n DEF Init, ClientInv
<1>5. WaitersInv
  BY DEF Init, WaitersInv
<1>6. QueueInv /\ TaskEntryInv /\ TaskInv /\ OutcomeInv
  BY DEF Init, QueueInv, TaskEntryInv, TaskInv, OutcomeInv
<1>7. HolderInv
  BY <1>d, <1>n DEF Init, HolderInv
<1>8. InitOkMeansResident /\ FlushOkMeansWritten /\ NeverDisconnected
  BY DEF Init, InitOkMeansResident, FlushOkMeansWritten, NeverDisconnected
<1> QED
  BY <1>1, <1>2, <1>3, <1>4, <1>5, <1>6, <1>7, <1>8 DEF IndInv

\* The action lemmas together: every step keeps the invariant.
LEMMA NextPreserves ==
    ASSUME IndInv, [Next]_vars
    PROVE  IndInv'
<1>1. ASSUME NEW c \in Clients, NEW r \in Requests, Call(c, r)
      PROVE  IndInv'
  BY <1>1, CallStep
<1>2. ASSUME NEW c \in Clients, Enqueue(c)
      PROVE  IndInv'
  BY <1>2, EnqueueUnneededStep, EnqueueCoalesceStep, EnqueuePushStep,
     EnqueueWaitStep DEF Enqueue
<1>3. ASSUME NEW c \in Clients, Client(c)
      PROVE  IndInv'
  BY <1>2, <1>3, NotifyStep, ReceiveStep DEF Client
<1>4. ASSUME NEW o \in {"ok", "err"}, HandleInit(o) \/ HandleFlush(o)
      PROVE  IndInv'
  BY <1>4, HandleInitStep, HandleFlushStep
<1>5. ASSUME Worker
      PROVE  IndInv'
  BY <1>4, <1>5, WorkerDequeueStep, WorkerWaitStep, WorkerExitStep,
     HandleUpgradeStep, DeliverStep, TaskDoneStep DEF Worker
<1>6. ASSUME NEW s \in Slots, Unmap(s) \/ MapSlot(s)
      PROVE  IndInv'
  BY <1>6, UnmapStep, MapSlotStep
<1> QED
  BY <1>1, <1>3, <1>5, <1>6, CloseStep, CloseNotifyStep, JoinStep, StutterStep
     DEF Next, Terminated

\* The inductive invariant of the fault/flush service holds, whatever the
\* number of client threads, slots and calls and the queue limit.
THEOREM Invariance == Spec => []IndInv
  BY InitEstablishes, NextPreserves, PTL DEF Spec

\* The state of the manager always has its type.
THEOREM TypeCorrect == Spec => []TypeOK
  BY Invariance, PTL DEF IndInv

\* The deque, the pointer-keyed map and the base of Queue always agree.
THEOREM QueueAlwaysIndexed == Spec => []QueueIndexed
  BY Invariance, PTL DEF IndInv

\* No "unreachable" panic_abort! and no AbortGuard assertion ever fires.
THEOREM NeverAborting == Spec => []NeverAborts
  BY Invariance, PTL DEF IndInv

\* Success answers are true and no callback is dropped uncalled.
THEOREM AnswersTrue ==
    Spec => []AnswersTruthful
<1>1. IndInv => AnswersTruthful
  BY DEF IndInv, AnswersTruthful
<1>2. QED
  BY <1>1, Invariance, PTL

\* The inductive invariant leaves every accepted callback exactly one holder.
LEMMA HeldOnce ==
    ASSUME IndInv
    PROVE  CallbackHeldOnce
<1> SUFFICES ASSUME NEW c \in Clients
             PROVE  IF c \notin Accepted THEN Held(c) = {} /\ c \notin task.cbs
                    ELSE \/ /\ c \in task.cbs /\ Held(c) = {} /\ task.slot = req[c].slot
                         \/ /\ c \notin task.cbs
                            /\ \E i \in DOMAIN queue :
                                 Held(c) = {i} /\ queue[i].slot = req[c].slot
  BY DEF CallbackHeldOnce
<1>1. CASE c \notin Accepted
  BY <1>1, NotHeld DEF Held
<1>2. CASE c \in Accepted /\ c \in task.cbs
  <2>1. Held(c) = {}
    BY <1>2 DEF Held, IndInv, HolderInv
  <2>2. task # NoTask
    BY <1>2 DEF NoTask
  <2>3. task.slot = req[c].slot
    BY <1>2, <2>2 DEF IndInv, TaskEntryInv, EntryInv
  <2> QED
    BY <1>2, <2>1, <2>3
<1>3. CASE c \in Accepted /\ c \notin task.cbs
  <2>1. PICK i \in DOMAIN queue : c \in queue[i].cbs
    BY <1>3 DEF IndInv, HolderInv
  <2>2. \A j \in DOMAIN queue : c \in queue[j].cbs => queue[j].slot = req[c].slot
    BY DEF IndInv, QueueInv, EntryInv
  <2>3. \A j \in DOMAIN queue : c \in queue[j].cbs => j = i
    BY <2>1, <2>2, OneEntryPerSlot DEF IndInv
  <2>4. Held(c) = {i}
    BY <2>1, <2>3 DEF Held
  <2> QED
    BY <1>3, <2>1, <2>2, <2>4
<1> QED
  BY <1>1, <1>2, <1>3

\* Every accepted and uncalled callback is held exactly once, by the entry or
\* the task of its slot.
THEOREM CallbacksHeldOnce == Spec => []CallbackHeldOnce
  BY Invariance, HeldOnce, PTL

(***************************************************************************)
(* ObjectManager implements ObjectService: every step of the queue, the    *)
(* worker and the clients is a step of the abstract service or a stutter.  *)
(***************************************************************************)

USE DEF clientVars, queueVars, workerVars, Service!vars

\* A client is in a call exactly when the service sees its request open.
LEMMA SameAsking ==
    ASSUME IndInv, NEW s
    PROVE  Asking(s) = Service!Asking(s)
  BY DEF IndInv, ClientInv, Asking, Service!Asking

\* Entering Inner::enqueue is Ask, AskNothing (nothing resident) or no step.
LEMMA CallImplements ==
    ASSUME IndInv, NEW c \in Clients, NEW r \in Requests, Call(c, r)
    PROVE  [Service!Next]_(Service!vars)
<1>1. r \in Request /\ req[c] = NoReq
  BY DEF Requests, Call, IndInv, ClientInv
<1>2. CASE ~NothingToFlush(r)
  <2>1. Service!Ask(c, r)
    BY <1>1, <1>2 DEF Call, Service!Ask
  <2> QED
    BY <1>1, <2>1 DEF Service!Next
<1>3. CASE NothingToFlush(r) /\ r.cb
  <2>1. Service!AskNothing(c, r)
    BY <1>1, <1>3 DEF Call, Service!AskNothing, NothingToFlush
  <2> QED
    BY <1>1, <2>1 DEF Service!Next
<1>4. CASE NothingToFlush(r) /\ ~r.cb
  BY <1>4 DEF Call
<1> QED
  BY <1>2, <1>3, <1>4

\* Under the queue lock only a resident init is answered.
LEMMA EnqueueImplements ==
    ASSUME IndInv, NEW c \in Clients, Enqueue(c)
    PROVE  [Service!Next]_(Service!vars)
<1>1. CASE EnqueueUnneeded(c)
  <2>1. /\ req[c] # NoReq /\ req[c].cb /\ result[c] = "none"
        /\ req[c].op = "Init" /\ page[req[c].slot]
    BY <1>1 DEF Enqueue, EnqueueUnneeded, AlreadyInit, IndInv, ClientInv
  <2>2. Service!Answer(c, "ok")
    BY <1>1, <2>1 DEF Enqueue, EnqueueUnneeded, Service!Answer
  <2> QED
    BY <2>2 DEF Service!Next
<1>2. CASE EnqueueCoalesce(c) \/ EnqueuePush(c) \/ EnqueueWait(c)
  BY <1>2 DEF Enqueue, EnqueueCoalesce, EnqueuePush, EnqueueWait
<1> QED
  BY <1>1, <1>2 DEF Enqueue

\* notify_one and recv() are Return or no step of the service.
LEMMA ClientImplements ==
    ASSUME IndInv, NEW c \in Clients, Notify(c) \/ Receive(c)
    PROVE  [Service!Next]_(Service!vars)
<1>a. TypeOK /\ ClientInv
  BY DEF IndInv
<1>1. CASE Notify(c) /\ req[c].cb
  BY <1>1 DEF Notify
<1>2. CASE Notify(c) /\ ~req[c].cb
  <2>1. req[c] # NoReq /\ result[c] = "none"
    BY <1>2, <1>a DEF Notify, ClientInv
  <2>2. result' = [result EXCEPT ![c] = "none"]
    BY <1>2, <1>a, <2>1 DEF Notify, TypeOK
  <2>3. Service!Return(c)
    BY <1>2, <2>1, <2>2 DEF Notify, Service!Return
  <2> QED
    BY <2>3 DEF Service!Next
<1>3. CASE Receive(c)
  <2>1. req[c] # NoReq /\ req[c].cb /\ result[c] # "none"
    BY <1>3, <1>a DEF Receive, ClientInv
  <2>2. Service!Return(c)
    BY <1>3, <2>1 DEF Receive, Service!Return
  <2> QED
    BY <2>2 DEF Service!Next
<1> QED
  BY <1>1, <1>2, <1>3

\* fault_in_exclusive is FaultIn or no step.
LEMMA HandleInitImplements ==
    ASSUME IndInv, NEW read \in {"ok", "err"}, HandleInit(read)
    PROVE  [Service!Next]_(Service!vars)
<1>1. TypeOK /\ task.slot \in Slots
  BY DEF HandleInit, IndInv, TaskInv, TypeOK, QueueEntry
<1>2. CASE page[task.slot] \/ read = "ok"
  <2>1. Service!FaultIn(task.slot)
    BY <1>2 DEF HandleInit, Service!FaultIn
  <2> QED
    BY <1>1, <2>1 DEF Service!Next
<1>3. CASE ~(page[task.slot] \/ read = "ok")
  BY <1>1, <1>3 DEF HandleInit, TypeOK
<1> QED
  BY <1>2, <1>3

\* fault_out is WriteBack or no step.
LEMMA HandleFlushImplements ==
    ASSUME IndInv, NEW write \in {"ok", "err"}, HandleFlush(write)
    PROVE  [Service!Next]_(Service!vars)
<1>1. /\ task.slot \in Slots /\ page[task.slot]
  <2>1. task \in QueueEntry /\ EntryInv(task) /\ task.op = "Flush"
    BY DEF HandleFlush, IndInv, TaskInv, TaskEntryInv, TypeOK
  <2> QED
    BY <2>1 DEF EntryInv, QueueEntry
<1>2. CASE write = "ok"
  <2>1. Service!WriteBack(task.slot)
    BY <1>1, <1>2, SameAsking DEF HandleFlush, Service!WriteBack
  <2> QED
    BY <1>1, <2>1 DEF Service!Next
<1>3. CASE write # "ok"
  BY <1>3 DEF HandleFlush
<1> QED
  BY <1>2, <1>3

\* Calling a callback answers its client, truthfully by OutcomeInv.
LEMMA DeliverImplements ==
    ASSUME IndInv, NEW c \in Clients, Deliver(c)
    PROVE  [Service!Next]_(Service!vars)
<1>1. task # NoTask /\ res \in {"ok", "err"} /\ c \in task.cbs
  BY DEF Deliver, IndInv, TaskInv
<1>2. c \in Accepted
  BY <1>1 DEF IndInv, TaskEntryInv, EntryInv
<1>3. req[c] # NoReq /\ req[c].cb /\ result[c] = "none"
  BY <1>2 DEF Accepted, IndInv, ClientInv
<1>4. res = "ok" => /\ page[req[c].slot]
                    /\ req[c].op = "Flush" => c \in written
  BY <1>1 DEF Deliver, IndInv, OutcomeInv
<1>5. Service!Answer(c, res)
  BY <1>3, <1>4 DEF Deliver, Service!Answer
<1> QED
  BY <1>1, <1>5 DEF Service!Next

\* Dropping a task or the queue answers nobody.
LEMMA DropImplements ==
    ASSUME IndInv, HandleUpgrade \/ WorkerExit
    PROVE  [Service!Next]_(Service!vars)
<1>a. TypeOK
  BY DEF IndInv
<1>1. CASE HandleUpgrade
  <2>1. ASSUME ~alive[task.slot]
        PROVE  task.cbs = {}
    <3>1. task # NoTask
      BY <1>1 DEF HandleUpgrade, IndInv, TaskInv
    <3>2. \A c \in task.cbs : c \in Accepted /\ req[c].slot = task.slot
      BY <3>1 DEF IndInv, TaskEntryInv, EntryInv
    <3>3. \A c \in Accepted : alive[req[c].slot]
      BY DEF Accepted, IndInv, ClientInv
    <3> QED
      BY <2>1, <3>2, <3>3
  <2>2. ASSUME task.cbs = {}
        PROVE  Disconnected(task.cbs) = result
    BY <1>a, <2>2 DEF Disconnected, TypeOK
  <2> QED
    BY <1>1, <2>1, <2>2 DEF HandleUpgrade
<1>2. CASE WorkerExit
  <2>1. UNION {queue[i].cbs : i \in DOMAIN queue} = {}
    BY <1>2, ClosedIsIdle DEF WorkerExit
  <2>2. result' = result
    BY <1>a, <1>2, <2>1 DEF WorkerExit, Disconnected, TypeOK
  <2> QED
    BY <1>2, <2>2 DEF WorkerExit
<1> QED
  BY <1>1, <1>2

\* A reused allocation is Reuse: nobody asks about a dead slot.
LEMMA MapSlotImplements ==
    ASSUME IndInv, NEW s \in Slots, MapSlot(s)
    PROVE  [Service!Next]_(Service!vars)
<1>1. Asking(s) = {}
  BY DEF MapSlot, Asking, IndInv, ClientInv
<1>2. Service!Reuse(s)
  BY <1>1, SameAsking DEF MapSlot, Service!Reuse
<1> QED
  BY <1>2 DEF Service!Next

\* Every step of the manager is a step or a stutter of the service.
LEMMA NextImplements ==
    ASSUME IndInv, [Next]_vars
    PROVE  [Service!Next]_(Service!vars)
<1>1. ASSUME NEW c \in Clients, Client(c)
      PROVE  [Service!Next]_(Service!vars)
  BY <1>1, EnqueueImplements, ClientImplements DEF Client
<1>2. ASSUME WorkerDequeue \/ WorkerWait \/ TaskDone
      PROVE  [Service!Next]_(Service!vars)
  BY <1>2 DEF WorkerDequeue, WorkerWait, TaskDone
<1>3. ASSUME Worker
      PROVE  [Service!Next]_(Service!vars)
  BY <1>2, <1>3, DropImplements, HandleInitImplements, HandleFlushImplements,
     DeliverImplements DEF Worker
<1>4. ASSUME NEW s \in Slots, Unmap(s)
      PROVE  [Service!Next]_(Service!vars)
  BY <1>4 DEF Unmap
<1>5. ASSUME Close \/ CloseNotify \/ Join \/ UNCHANGED vars
      PROVE  [Service!Next]_(Service!vars)
  BY <1>5 DEF Close, CloseNotify, Join, vars
<1> QED
  BY <1>1, <1>3, <1>4, <1>5, CallImplements, MapSlotImplements
     DEF Next, Terminated

\* The object manager, with its bounded queue, coalescing, wake-ups and shutdown,
\* gives every request with a callback exactly one answer, and success answers
\* only when they are true: it implements the abstract service.
THEOREM Implements == Spec => ImplementsService
<1>1. Init => Service!Init
  BY DEF Init, Service!Init
<1> QED
  BY <1>1, Invariance, NextImplements, PTL
     DEF Spec, ImplementsService, Service!Spec
=============================================================================
