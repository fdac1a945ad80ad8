---------------------------- MODULE ObjectManager ----------------------------
(***************************************************************************)
(* The asynchronous fault/flush service of a CpuFabric                     *)
(* (io-mmu/src/cpu_fabric/object_manager.rs): client threads enqueue page  *)
(* faults (Init) and write-backs (Flush) of memory-object pages into a     *)
(* bounded queue with one entry per slot; one worker thread serves it.     *)
(*                                                                         *)
(* Every critical section of the queue mutex is one action.  The condvar   *)
(* "dequeued" is the FIFO `waiters` (parking_lot wakes in FIFO order and   *)
(* never spuriously); on the condvar "enqueued" only the worker waits.     *)
(* A panic_abort! or a failed AbortGuard assertion sets `aborted`, after   *)
(* which nothing happens any more.                                         *)
(*                                                                         *)
(* A slot stands for the allocation of an Arc<ObjectSlot>, so that reusing *)
(* a freed allocation for a new slot is visible to the pointer-keyed map.  *)
(***************************************************************************)
EXTENDS Integers, Sequences, FiniteSets

CONSTANTS Clients,      \* threads calling enqueue_init / enqueue_flush
          Slots,        \* allocations that hold an ObjectSlot
          Ops,          \* the kinds of request they make
          QueueLimit,   \* Inner::queue_limit
          MaxCalls,     \* bound: enqueue calls per client
          MaxTableOps   \* bound: slots unmapped and mapped after start-up

ASSUME ObjectManagerAssumption ==
    /\ IsFiniteSet(Slots)
    /\ Ops \subseteq {"Init", "Flush"}
    /\ QueueLimit \in Nat \ {0}
    /\ MaxCalls \in Nat
    /\ MaxTableOps \in Nat

VARIABLES
    alive,     \* slot -> a page table holds a strong reference to it
    page,      \* slot -> ObjectSlot::page is Some
    queue,     \* Queue::queue, front first
    inQueue,   \* Queue::already_in_queue: slot -> absolute index or Absent
    base,      \* Queue::base
    closed,    \* QueueInner::closed
    closer,    \* where ObjectManager::drop is
    waiters,   \* clients waiting on the condvar Inner::dequeued, FIFO
    pc,        \* client -> where it is in Inner::enqueue and the wait for it
    req,       \* client -> the request it is making
    result,    \* client -> what its callback's channel holds
    calls,     \* client -> enqueue calls left
    tableOps,  \* page-table changes left
    wpc,       \* where the worker is
    task,      \* the QueueEntry the worker handles
    res,       \* the outcome handle_task delivers
    written,   \* history: clients whose slot needs no write-back any more: it
               \* was written since they asked, or nothing was resident
    aborted    \* the process aborted

clientVars == <<pc, req, result, calls>>
queueVars  == <<queue, inQueue, base>>
workerVars == <<wpc, task, res>>
vars == <<alive, page, queueVars, closed, closer, waiters, clientVars, tableOps,
          workerVars, written, aborted>>

Absent == -1

OpType   == {"Init", "Flush"}
Request  == [op : OpType, slot : Slots, cb : BOOLEAN]
NoReq    == [op |-> "None", slot |-> "None", cb |-> FALSE]
QueueEntry == [slot : Slots, op : OpType, cbs : SUBSET Clients]
NoTask   == [slot |-> "None", op |-> "None", cbs |-> {}]

-----------------------------------------------------------------------------
(* Helpers *)

QueuedSlots == {queue[i].slot : i \in DOMAIN queue}

\* The keys of already_in_queue.
IndexedSlots == {s \in Slots : inQueue[s] # Absent}

\* A weak reference keeps the allocation: it cannot be reused while the queue
\* or the worker names it.
Referenced(s) == s \in QueuedSlots \/ task.slot = s

\* A caller holds its IoMMU, hence the page-table entry, until it has returned.
InUse(s) == \E c \in Clients : pc[c] # "idle" /\ req[c].slot = s

\* Queue::assert_invariant
InvariantHolds == Len(queue) = Cardinality(IndexedSlots)

\* The position (1-based) in `queue` that already_in_queue gives for slot s.
Position(s) == inQueue[s] - base + 1

Callback(c) == IF req[c].cb THEN {c} ELSE {}

\* A caller without callback goes on; one with a callback receives from it.
AfterCall(c) == IF req[c].cb THEN "recv" ELSE "idle"

\* Condvar::notify_one on "dequeued": the longest waiter goes for the lock.
Woken == IF waiters = <<>> THEN {} ELSE {Head(waiters)}
StillWaiting == IF waiters = <<>> THEN <<>> ELSE Tail(waiters)

\* The callbacks cs are dropped without being called: their receivers fail.
Disconnected(cs) ==
    [c \in Clients |-> IF c \in cs THEN "disconnected" ELSE result[c]]

-----------------------------------------------------------------------------
(* Client threads: Inner::enqueue *)

\* Inner::enqueue's check before it takes the lock.
NothingToFlush(r) == r.op = "Flush" /\ ~page[r.slot]

\* The only caller of enqueue_init passes a callback; refresh flushes without.
Requests == {r \in Request : r.op \in Ops /\ (r.op = "Init" => r.cb)}

Call(c, r) ==
    /\ pc[c] = "idle"
    /\ ~closed
    /\ alive[r.slot]
    /\ calls[c] > 0
    /\ calls' = [calls EXCEPT ![c] = @ - 1]
    /\ \/ /\ ~NothingToFlush(r)
          /\ pc' = [pc EXCEPT ![c] = "lock"]
          /\ req' = [req EXCEPT ![c] = r]
          /\ UNCHANGED <<result, written>>
       \/ /\ NothingToFlush(r) /\ r.cb         \* SucceedOnDrop answers
          /\ pc' = [pc EXCEPT ![c] = "recv"]
          /\ req' = [req EXCEPT ![c] = r]
          /\ result' = [result EXCEPT ![c] = "ok"]
          /\ written' = written \cup {c}
       \/ /\ NothingToFlush(r) /\ ~r.cb
          /\ UNCHANGED <<pc, req, result, written>>
    /\ UNCHANGED <<alive, page, queueVars, closed, closer, waiters, tableOps,
                   workerVars, aborted>>

\* Mutants: Queue::enqueue without its look at the slot, or with no page needed.
AlreadyInitUnchecked(r) == FALSE
AlreadyInitAssumed(r) == r.op = "Init"

\* Queue::enqueue finds the page resident: the init is no longer necessary.
AlreadyInit(r) == r.op = "Init" /\ page[r.slot]

\* Mutant: a flush that joins a queued init leaves it an init.
CoalescedOpKept(new, old) == old

\* What Queue::enqueue makes of a queued entry that a new request joins.
CoalescedOp(new, old) == IF new = "Flush" THEN "Flush" ELSE old

\* Mutant: the joining callback replaces the ones that wait already.
JoinedEntryReplacing(e, c) ==
    [e EXCEPT !.op = CoalescedOp(req[c].op, e.op), !.cbs = Callback(c)]

\* The queued entry e after client c's request has joined it.
JoinedEntry(e, c) ==
    [e EXCEPT !.op = CoalescedOp(req[c].op, e.op), !.cbs = e.cbs \cup Callback(c)]

\* The panic_abort!s and AbortGuard assertions of one pass of the enqueue loop.
EnqueueAborts(c) ==
    LET r == req[c]
    IN  \/ closed                                   \* worker_thread_died
        \/ ~InvariantHolds
        \/ /\ ~AlreadyInit(r)
           /\ r.slot \in IndexedSlots
           /\ \/ Position(r.slot) \notin DOMAIN queue
              \/ LET old == queue[Position(r.slot)].op
                 IN  \/ r.op = "Init" /\ old = "Flush"
                     \/ r.op = "Flush" /\ old = "Init" /\ ~page[r.slot]

\* Queue::enqueue returns Err(None): the callback succeeds by being dropped and
\* the caller leaves without notifying anyone.
EnqueueUnneeded(c) ==
    /\ AlreadyInit(req[c])
    /\ pc' = [pc EXCEPT ![c] = "recv"]
    /\ result' = [result EXCEPT ![c] = "ok"]
    /\ UNCHANGED <<queueVars, waiters>>

\* Entry::Occupied: the request joins the entry queued for its slot (if there is
\* none at its index, EnqueueAborts holds and nothing else happens).
EnqueueCoalesce(c) ==
    LET r == req[c]
    IN  /\ ~AlreadyInit(r)
        /\ r.slot \in IndexedSlots
        /\ queue' = [queue EXCEPT ![Position(r.slot)] = JoinedEntry(@, c)]
        /\ pc' = [pc EXCEPT ![c] = "notify"]
        /\ UNCHANGED <<inQueue, base, result, waiters>>

\* Entry::Vacant with room: a new entry at the back.
EnqueuePush(c) ==
    LET r == req[c]
    IN  /\ ~AlreadyInit(r)
        /\ r.slot \notin IndexedSlots
        /\ Len(queue) < QueueLimit
        /\ queue' = Append(queue, [slot |-> r.slot, op |-> r.op,
                                   cbs |-> Callback(c)])
        /\ inQueue' = [inQueue EXCEPT ![r.slot] = base + Len(queue)]
        /\ pc' = [pc EXCEPT ![c] = "notify"]
        /\ UNCHANGED <<base, result, waiters>>

\* Entry::Vacant without room: wait on "dequeued", releasing the lock.
EnqueueWait(c) ==
    LET r == req[c]
    IN  /\ ~AlreadyInit(r)
        /\ r.slot \notin IndexedSlots
        /\ Len(queue) >= QueueLimit
        /\ waiters' = Append(waiters, c)
        /\ pc' = [pc EXCEPT ![c] = "wait"]
        /\ UNCHANGED <<queueVars, result>>

\* One pass of the loop of Inner::enqueue, under the lock.
Enqueue(c) ==
    /\ pc[c] = "lock"
    /\ aborted' = EnqueueAborts(c)
    /\ \/ EnqueueUnneeded(c)
       \/ EnqueueCoalesce(c)
       \/ EnqueuePush(c)
       \/ EnqueueWait(c)
    /\ UNCHANGED <<alive, page, closed, closer, req, calls, tableOps,
                   workerVars, written>>

\* enqueued.notify_one, after the lock is released.
Notify(c) ==
    /\ pc[c] = "notify"
    /\ wpc' = IF wpc = "wait" THEN "lock" ELSE wpc
    /\ pc' = [pc EXCEPT ![c] = AfterCall(c)]
    /\ req' = IF req[c].cb THEN req ELSE [req EXCEPT ![c] = NoReq]
    /\ UNCHANGED <<alive, page, queueVars, closed, closer, waiters, result,
                   calls, tableOps, task, res, aborted>>
    /\ written' = IF req[c].cb THEN written ELSE written \ {c}

\* The caller's recv() on the callback's channel returns.
Receive(c) ==
    /\ pc[c] = "recv"
    /\ result[c] # "none"
    /\ pc' = [pc EXCEPT ![c] = "idle"]
    /\ req' = [req EXCEPT ![c] = NoReq]
    /\ result' = [result EXCEPT ![c] = "none"]
    /\ written' = written \ {c}
    /\ UNCHANGED <<alive, page, queueVars, closed, closer, waiters, calls,
                   tableOps, workerVars, aborted>>

-----------------------------------------------------------------------------
(* The worker thread: ObjectManagerWorker::run_worker *)

\* Mutants: the base stays behind, or moves the wrong way.
BaseAfterPopStale == IF Len(queue) = 1 THEN 0 ELSE base
BaseAfterPopDown  == IF Len(queue) = 1 THEN 0 ELSE base - 1

\* Queue::dequeue: the base that goes with the queue that is left.
BaseAfterPop == IF Len(queue) = 1 THEN 0 ELSE base + 1

\* Inner::dequeue pops the front entry and wakes one enqueuer.
WorkerDequeue ==
    /\ wpc = "lock"
    /\ ~closed
    /\ queue # <<>>
    /\ aborted' = (~InvariantHolds \/ inQueue[Head(queue).slot] # base)
    /\ task' = Head(queue)
    /\ queue' = Tail(queue)
    /\ inQueue' = [inQueue EXCEPT ![Head(queue).slot] = Absent]
    /\ base' = BaseAfterPop
    /\ pc' = [c \in Clients |-> IF c \in Woken THEN "lock" ELSE pc[c]]
    /\ waiters' = StillWaiting
    /\ wpc' = "handle"
    /\ UNCHANGED <<alive, page, closed, closer, req, result, calls, tableOps,
                   res, written>>

\* Inner::dequeue finds nothing and waits on "enqueued".
WorkerWait ==
    /\ wpc = "lock"
    /\ ~closed
    /\ queue = <<>>
    /\ aborted' = ~InvariantHolds
    /\ wpc' = "wait"
    /\ UNCHANGED <<alive, page, queueVars, closed, closer, waiters, clientVars,
                   tableOps, task, res, written>>

\* Inner::dequeue returns None; the worker closes once more and drops the last
\* strong reference to Inner, with whatever is still queued.
WorkerExit ==
    /\ wpc = "lock"
    /\ closed
    /\ wpc' = "exited"
    /\ queue' = <<>>
    /\ inQueue' = [s \in Slots |-> Absent]
    /\ base' = 0
    /\ result' = Disconnected(UNION {queue[i].cbs : i \in DOMAIN queue})
    /\ pc' = [c \in Clients |-> IF pc[c] = "wait" THEN "lock" ELSE pc[c]]
    /\ waiters' = <<>>
    /\ UNCHANGED <<alive, page, closed, closer, req, calls, tableOps, task, res,
                   written, aborted>>

\* handle_task: the weak reference is upgraded; a dead slot ends the task and
\* drops its callbacks.
HandleUpgrade ==
    /\ wpc = "handle"
    /\ \/ /\ alive[task.slot]
          /\ wpc' = "run"
          /\ UNCHANGED <<task, result>>
       \/ /\ ~alive[task.slot]
          /\ wpc' = "lock"
          /\ task' = NoTask
          /\ result' = Disconnected(task.cbs)
    /\ UNCHANGED <<alive, page, queueVars, closed, closer, waiters, pc, req,
                   calls, tableOps, res, written, aborted>>

\* Clients whose current request is about slot s.
Asking(s) == {c \in Clients : pc[c] # "idle" /\ req[c].slot = s}

\* handle_task, OpType::Init: get_or_try_init.  `read` is what the object's
\* fault_in_exclusive would do (an error and a caught panic are both "err").
HandleInit(read) ==
    LET s  == task.slot
        ok == page[s] \/ read = "ok"
    IN  /\ wpc = "run"
        /\ task.op = "Init"
        /\ page' = [page EXCEPT ![s] = ok]
        /\ res' = IF ok THEN "ok" ELSE "err"
        /\ wpc' = "deliver"
        /\ UNCHANGED <<alive, queueVars, closed, closer, waiters, clientVars,
                       tableOps, task, written, aborted>>

\* handle_task, OpType::Flush: fault_out of the resident page.
HandleFlush(write) ==
    LET s == task.slot
    IN  /\ wpc = "run"
        /\ task.op = "Flush"
        /\ aborted' = ~page[s]
        /\ res' = write
        /\ written' = IF write = "ok" THEN written \cup Asking(s) ELSE written
        /\ wpc' = "deliver"
        /\ UNCHANGED <<alive, page, queueVars, closed, closer, waiters,
                       clientVars, tableOps, task>>

\* handle_task calls one of the callbacks with the outcome.
Deliver(c) ==
    /\ wpc = "deliver"
    /\ c \in task.cbs
    /\ result' = [result EXCEPT ![c] = res]
    /\ task' = [task EXCEPT !.cbs = @ \ {c}]
    /\ UNCHANGED <<alive, page, queueVars, closed, closer, waiters, pc, req,
                   calls, tableOps, wpc, res, written, aborted>>

\* All callbacks called: handle_task returns to the loop of run_worker.
TaskDone ==
    /\ wpc = "deliver"
    /\ task.cbs = {}
    /\ wpc' = "lock"
    /\ task' = NoTask
    /\ res' = "none"
    /\ UNCHANGED <<alive, page, queueVars, closed, closer, waiters, clientVars,
                   tableOps, written, aborted>>

-----------------------------------------------------------------------------
(* Page tables and the end of the fabric *)

\* The last page table that names slot s lets it go (IoMMU::unmap or drop).
Unmap(s) ==
    /\ alive[s]
    /\ ~InUse(s)
    /\ tableOps > 0
    /\ tableOps' = tableOps - 1
    /\ alive' = [alive EXCEPT ![s] = FALSE]
    /\ UNCHANGED <<page, queueVars, closed, closer, waiters, clientVars,
                   workerVars, written, aborted>>

\* PageSource::new_obj in a free allocation.
MapSlot(s) ==
    /\ ~alive[s]
    /\ ~Referenced(s)
    /\ ~closed
    /\ tableOps > 0
    /\ tableOps' = tableOps - 1
    /\ alive' = [alive EXCEPT ![s] = TRUE]
    /\ page' = [page EXCEPT ![s] = FALSE]
    /\ UNCHANGED <<queueVars, closed, closer, waiters, clientVars, workerVars,
                   written, aborted>>

\* The last IoMMU is dropped, with its page table and its handle of the fabric:
\* ObjectManager::drop runs, and Inner::close sets the flag under the lock ...
Close ==
    /\ closer = "open"
    /\ \A c \in Clients : pc[c] = "idle"
    /\ alive' = [s \in Slots |-> FALSE]
    /\ closed' = TRUE
    /\ closer' = "notify"
    /\ UNCHANGED <<page, queueVars, waiters, clientVars, tableOps, workerVars,
                   written, aborted>>

\* Mutant: close notifies "dequeued" only.
CloseNotifyEnqueuers ==
    /\ closer = "notify"
    /\ closer' = "join"
    /\ pc' = [c \in Clients |-> IF pc[c] = "wait" THEN "lock" ELSE pc[c]]
    /\ waiters' = <<>>
    /\ UNCHANGED <<alive, page, queueVars, closed, req, result, calls, tableOps,
                   workerVars, written, aborted>>

\* ... and notifies both condvars after releasing it.
CloseNotify ==
    /\ closer = "notify"
    /\ closer' = "join"
    /\ wpc' = IF wpc = "wait" THEN "lock" ELSE wpc
    /\ pc' = [c \in Clients |-> IF pc[c] = "wait" THEN "lock" ELSE pc[c]]
    /\ waiters' = <<>>
    /\ UNCHANGED <<alive, page, queueVars, closed, req, result, calls, tableOps,
                   task, res, written, aborted>>

\* The join of the worker thread returns.
Join ==
    /\ closer = "join"
    /\ wpc = "exited"
    /\ closer' = "done"
    /\ UNCHANGED <<alive, page, queueVars, closed, waiters, clientVars,
                   tableOps, workerVars, written, aborted>>

Terminated == closer = "done" /\ UNCHANGED vars

-----------------------------------------------------------------------------

Init ==
    /\ alive = [s \in Slots |-> TRUE]
    /\ page = [s \in Slots |-> FALSE]
    /\ queue = <<>>
    /\ inQueue = [s \in Slots |-> Absent]
    /\ base = 0
    /\ closed = FALSE
    /\ closer = "open"
    /\ waiters = <<>>
    /\ pc = [c \in Clients |-> "idle"]
    /\ req = [c \in Clients |-> NoReq]
    /\ result = [c \in Clients |-> "none"]
    /\ calls = [c \in Clients |-> MaxCalls]
    /\ tableOps = MaxTableOps
    /\ wpc = "lock"
    /\ task = NoTask
    /\ res = "none"
    /\ written = {}
    /\ aborted = FALSE

Client(c) == Enqueue(c) \/ Notify(c) \/ Receive(c)

Worker ==
    \/ WorkerDequeue
    \/ WorkerWait
    \/ WorkerExit
    \/ HandleUpgrade
    \/ \E o \in {"ok", "err"} : HandleInit(o) \/ HandleFlush(o)
    \/ \E c \in Clients : Deliver(c)
    \/ TaskDone

Next ==
    /\ ~aborted
    /\ \/ \E c \in Clients : \E r \in Requests : Call(c, r)
       \/ \E c \in Clients : Client(c)
       \/ Worker
       \/ \E s \in Slots : Unmap(s) \/ MapSlot(s)
       \/ Close
       \/ CloseNotify
       \/ Join
       \/ Terminated

Spec == Init /\ [][Next]_vars

\* Threads that can run do run: a client finishes the call it is in, the worker
\* serves, and a close that began goes on.  Nobody has to call, unmap or close.
Fairness ==
    /\ \A c \in Clients : WF_vars(~aborted /\ Client(c))
    /\ WF_vars(~aborted /\ Worker)
    /\ WF_vars(~aborted /\ (CloseNotify \/ Join))

FairSpec == Spec /\ Fairness

-----------------------------------------------------------------------------
(* Properties *)

\* Types of the state.
TypeOK ==
    /\ alive \in [Slots -> BOOLEAN]
    /\ page \in [Slots -> BOOLEAN]
    /\ queue \in Seq(QueueEntry)
    /\ inQueue \in [Slots -> Nat \cup {Absent}]
    /\ base \in Nat
    /\ closed \in BOOLEAN
    /\ closer \in {"open", "notify", "join", "done"}
    /\ waiters \in Seq(Clients)
    /\ pc \in [Clients -> {"idle", "lock", "wait", "notify", "recv"}]
    /\ req \in [Clients -> Request \cup {NoReq}]
    /\ result \in [Clients -> {"none", "ok", "err", "disconnected"}]
    /\ calls \in [Clients -> Nat]
    /\ tableOps \in Nat
    /\ wpc \in {"lock", "wait", "handle", "run", "deliver", "exited"}
    /\ task \in QueueEntry \cup {NoTask}
    /\ res \in {"none", "ok", "err"}
    /\ written \in SUBSET Clients
    /\ aborted \in BOOLEAN

\* The deque, the pointer-keyed map and the moving base of Queue agree: the map
\* holds exactly the queued slots, each at the absolute index of its one entry,
\* whatever dequeues, base resets and reused allocations came in between.
QueueIndexed ==
    /\ IndexedSlots = QueuedSlots
    /\ \A i \in DOMAIN queue : inQueue[queue[i].slot] = base + i - 1

\* None of the "unreachable" panic_abort!s and AbortGuard assertions of the
\* manager can fire: no request meets a closed queue, an index outside the
\* deque, an init for a slot with a queued flush, or a flush of an absent page.
NeverAborts == ~aborted

\* A callback that was accepted and not called yet is held by exactly one
\* queue entry or by the task in progress, and that one is about the caller's
\* slot; a callback that was called, or never accepted, is held by none.
Held(c) == {i \in DOMAIN queue : c \in queue[i].cbs}
Accepted == {c \in Clients : pc[c] \in {"notify", "recv"} /\ req[c].cb
                              /\ result[c] = "none"}
CallbackHeldOnce ==
    \A c \in Clients :
        IF c \notin Accepted THEN Held(c) = {} /\ c \notin task.cbs
        ELSE \/ /\ c \in task.cbs /\ Held(c) = {} /\ task.slot = req[c].slot
             \/ /\ c \notin task.cbs
                /\ \E i \in DOMAIN queue :
                     Held(c) = {i} /\ queue[i].slot = req[c].slot

\* fault_in_all_memory_objects: when the callback of an init reports success the
\* page is resident, also when the entry was turned into a flush meanwhile.
InitOkMeansResident ==
    \A c \in Clients :
        (result[c] = "ok" /\ req[c].op = "Init") => page[req[c].slot]

\* IoMMU::flush: when the callback of a flush reports success, the slot was
\* written back after the call began, or it had no resident page at that moment;
\* joining an entry that was queued earlier, even as an init, keeps this.
FlushOkMeansWritten ==
    \A c \in Clients :
        (result[c] = "ok" /\ req[c].op = "Flush") => c \in written

\* A caller that waits for its callback always gets an answer, never the
\* RecvError of a callback dropped uncalled ("flusher thread exited").
NeverDisconnected == \A c \in Clients : result[c] # "disconnected"

\* Answers are true whatever requests were coalesced with them: a fault-in that
\* succeeds leaves its page resident, a flush that succeeds was written, and no
\* callback is dropped uncalled.
AnswersTruthful == InitOkMeansResident /\ FlushOkMeansWritten /\ NeverDisconnected

\* A request that Inner::enqueue has accepted is answered and its caller returns:
\* the notification after the unlock reaches the worker, and the worker serves
\* the queue to its end, also while callers that wait for room are forgotten.
AcceptedAnswered ==
    \A c \in Clients : pc[c] \in {"notify", "recv"} ~> pc[c] = "idle"

\* What IoMMU::fault_in_all_memory_objects says of itself, that it waits until
\* all pages are resident, and so returns: every enqueue, and the wait for its
\* callback, ends.  (The clients make a bounded number of calls.)  It does not
\* hold: a caller can wait on "dequeued" for ever (ObjectManager_lostwakeup.cfg).
CallsReturn == <>[](\A c \in Clients : pc[c] = "idle")

\* Dropping the manager ends: Inner::close's notifications after the unlock
\* suffice for the worker to see the flag, and the join returns.
CloseCompletes == closed ~> closer = "done"

-----------------------------------------------------------------------------
(* The inductive strengthening of the safety properties above *)

\* What a client's place in its call says about its request.
ClientInv ==
    \A c \in Clients :
        /\ pc[c] = "idle" <=> req[c] = NoReq
        /\ req[c].op = "Init" => req[c].cb
        /\ pc[c] = "recv" => req[c].cb
        /\ result[c] # "none" => pc[c] \in {"notify", "recv"} /\ req[c].cb
        /\ pc[c] # "idle" => ~closed /\ alive[req[c].slot]
        /\ (pc[c] \in {"lock", "wait"} /\ req[c].op = "Flush")
              => page[req[c].slot]

\* Everyone in the wait queue of "dequeued" waits, and is in it once.
WaitersInv ==
    /\ \A i \in DOMAIN waiters : pc[waiters[i]] = "wait"
    /\ \A i, j \in DOMAIN waiters : waiters[i] = waiters[j] => i = j

\* An entry is about a resident page if it is a flush, and holds callbacks of
\* waiting clients of its slot, of flushes only if it is a flush.
EntryInv(e) ==
    /\ e.op = "Flush" => page[e.slot]
    /\ \A c \in e.cbs : /\ c \in Accepted
                        /\ req[c].slot = e.slot
                        /\ req[c].op = "Flush" => e.op = "Flush"
QueueInv == \A i \in DOMAIN queue : EntryInv(queue[i])

\* The worker has a task exactly while it handles one.
TaskInv ==
    /\ wpc \in {"handle", "run", "deliver"} <=> task # NoTask
    /\ wpc = "deliver" => res \in {"ok", "err"}
TaskEntryInv == task # NoTask => EntryInv(task)

\* A success to deliver is true for everyone it is delivered to.
OutcomeInv ==
    (wpc = "deliver" /\ res = "ok") =>
        \A c \in task.cbs : /\ page[req[c].slot]
                            /\ req[c].op = "Flush" => c \in written

\* No callback is lost or held twice.
HolderInv ==
    /\ \A c \in Accepted :
          c \in task.cbs \/ \E i \in DOMAIN queue : c \in queue[i].cbs
    /\ \A i \in DOMAIN queue : queue[i].cbs \cap task.cbs = {}

CloserInv == closed <=> closer # "open"

IndInv ==
    /\ TypeOK
    /\ QueueIndexed
    /\ NeverAborts
    /\ ClientInv
    /\ WaitersInv
    /\ QueueInv
    /\ TaskInv
    /\ TaskEntryInv
    /\ OutcomeInv
    /\ HolderInv
    /\ CloserInv
    /\ InitOkMeansResident
    /\ FlushOkMeansWritten
    /\ NeverDisconnected

-----------------------------------------------------------------------------
(* Refinement *)

\* The queue, the worker and the two condvars implement the service the page
\* tables rely on: exactly one, true answer per request with a callback.
Service == INSTANCE ObjectService WITH call <- req, answer <- result
ImplementsService == Service!Spec

=============================================================================
