------------------------------- MODULE CpuCore -------------------------------
(***************************************************************************)
(* One emulated core: the halt-reason word other threads write (emu-abi     *)
(* halt_reason.rs), the resume loop (rapid-arm-emu armv9/mod.rs), a compiled*)
(* chunk with its halt checks and memory accesses (jit-compiler-core        *)
(* chunk.rs, ir/mod.rs), and the slot that carries a memory fault out of the*)
(* compiled code (exec_context.rs).                                         *)
(*                                                                          *)
(* Guest code is any sequence of instructions; the halt-check pass, modelled*)
(* in HaltCheckPass, puts a check behind every `HaltCheckEvery`-th          *)
(* safepoint at the latest.  CodeCache::run is not written yet (todo!()):   *)
(* it is modelled as one call of a chunk.                                   *)
(***************************************************************************)
EXTENDS Naturals, FiniteSets

CONSTANTS
    Hosts,            \* host threads that drive the core
    Requests,         \* reasons other threads pass to halt
    Addrs,            \* guest addresses that may fault
    HaltCheckEvery,   \* IrBuilderConfig::halt_check_every
    MaxRequests,      \* bound on halt and try_signal_sync calls
    Debug             \* whether debug assertions are compiled in

\* Reasons: FLUSH_INSN_CACHE, IPI_SYNC, MEMORY_TRAP and INVALID_INSN as in the
\* code, and any other a caller may pass to halt.
None == "none"
Reasons == Requests \cup {"FLUSH_INSN_CACHE", "IPI_SYNC", "MEMORY_TRAP", "INVALID_INSN"}

ASSUME CoreAssumption ==
    /\ HaltCheckEvery \in Nat \ {0} /\ MaxRequests \in Nat /\ Debug \in BOOLEAN
    /\ None \notin Requests \cup Addrs \cup Hosts

Accesses == {"Load", "Store"}        \* MemOp; ldrex loads and strex stores
NoFault == [vaddr |-> None, op |-> None, bus |-> FALSE]
Faults == [vaddr : Addrs, op : Accesses, bus : BOOLEAN] \cup {NoFault}

VARIABLES
    word,       \* AtomicHaltReason
    owner,      \* the thread that holds `executing`, or None
    pc,         \* thread -> where it is in resume or in the chunk
    since,      \* safepoints of the chunk since its last halt check
    reason,     \* thread -> the halt reason it handles, or the chunk's code
    slot,       \* current_mem_fault
    returned,   \* host thread -> what its last resume returned, until it has
                \* dealt with it
    panicked,   \* host threads that panicked
    \* history
    truth,      \* the guest access that faulted last and was not reported
    reported,   \* what take_memory_fault handed out for it: the fault or None
    owed,       \* a request to flush has been taken and not served
    passed,     \* safepoints passed while a reason is pending
    requests    \* how many requests were made

vars == <<word, owner, pc, since, reason, slot, returned, panicked,
          truth, reported, owed, passed, requests>>

slotVars == <<slot, truth, reported>>

\* `passed` is not counted further than a violation of its bound
PassedCap == HaltCheckEvery + 1
MinOf(m, n) == IF m <= n THEN m ELSE n

----------------------------------------------------------------------------
(* AtomicHaltReason, from any thread                                         *)

Requested(r) ==
    /\ requests < MaxRequests /\ requests' = requests + 1
    /\ word' = r
    /\ passed' = IF word = None THEN 0 ELSE passed
    /\ UNCHANGED <<owed, owner, pc, since, reason, returned, panicked, slotVars>>

\* halt stores: a reason that is pending is overwritten
halt(r) == Requested(r)

try_signal_sync == word = None /\ Requested("IPI_SYNC")

\* take: swap with zero, by the thread that drives the core
take(t) ==
    /\ word' = None
    /\ reason' = [reason EXCEPT ![t] = word]
    /\ owed' = (owed \/ word = "FLUSH_INSN_CACHE")
    /\ passed' = 0

----------------------------------------------------------------------------
(* Armv9CpuCore::resume                                                      *)

At(t, p) == pc[t] = p
Goto(t, p) == pc' = [pc EXCEPT ![t] = p]

\* Mutant: resume does not insist on being the only one.
MutResumeShared(t) == t \notin panicked /\ returned[t] = None

\* resume: try_lock, or panic
MayResume(t) == t \notin panicked /\ returned[t] = None /\ owner = None

Resume(t) ==
    /\ MayResume(t)
    /\ owner' = t /\ Goto(t, "take")
    /\ UNCHANGED <<word, since, reason, returned, panicked, slotVars, owed, passed, requests>>

ResumePanics(t) ==
    /\ t \notin panicked /\ owner \notin {None, t}
    /\ panicked' = panicked \cup {t}
    /\ UNCHANGED <<word, owner, pc, since, reason, returned, slotVars, owed, passed, requests>>

TakePending(t) ==
    /\ At(t, "take")
    /\ take(t)
    /\ Goto(t, IF word = None THEN "call" ELSE "handle")
    /\ UNCHANGED <<owner, since, slotVars, returned, panicked, requests>>

\* Mutant: a flush goes back to the chunk without invalidating anything.
MutFlushIgnored(r) == FALSE

FlushesCache(r) == r = "FLUSH_INSN_CACHE"

\* a flush is served (code_cache.invalidate, mmu.refresh) and the loop goes on;
\* any other reason is returned and the lock released
Handle(t) ==
    /\ At(t, "handle")
    /\ IF reason[t] = "FLUSH_INSN_CACHE"
       THEN /\ owed' = (owed /\ ~FlushesCache(reason[t]))
            /\ Goto(t, "take") /\ UNCHANGED <<owner, returned>>
       ELSE /\ owner' = None /\ Goto(t, "stopped")
            /\ returned' = [returned EXCEPT ![t] = reason[t]]
            /\ UNCHANGED owed
    /\ reason' = [reason EXCEPT ![t] = None]
    /\ UNCHANGED <<word, since, slotVars, panicked, passed, requests>>

----------------------------------------------------------------------------
(* CompiledExecChunk::call and the chunk                                     *)

\* take_memory_fault clears the slot
cleared(s) == [s EXCEPT !.real = FALSE, !.bus = FALSE]

\* Mutant: the pending fault is looked for in no build.
MutCallUnchecked == FALSE

\* debug builds refuse a context with a pending fault, taking it
CallPanics == Debug /\ slot.real

Call(t) ==
    /\ At(t, "call")
    /\ IF CallPanics
       THEN /\ panicked' = panicked \cup {t}
            /\ owner' = None /\ Goto(t, "stopped")
            /\ slot' = cleared(slot)
            /\ truth' = NoFault /\ UNCHANGED since
       ELSE /\ Goto(t, "chunk") /\ since' = 0
            /\ UNCHANGED <<panicked, owner, slot, truth>>
    /\ UNCHANGED <<word, reason, returned, reported, owed, passed, requests>>

\* Mutant: a check is due one safepoint late.
MutCheckLate(n) == n > HaltCheckEvery

CheckDue(n) == n >= HaltCheckEvery

\* an instruction retires; its safepoint may carry a halt check early, and
\* does when HaltCheckEvery have gone by without
Retire(t) ==
    /\ At(t, "chunk")
    /\ since' = since + 1
    /\ passed' = IF word = None THEN 0 ELSE MinOf(passed + 1, PassedCap)
    /\ \E p \in (IF CheckDue(since + 1) THEN {"check"} ELSE {"chunk", "check"}) : Goto(t, p)
    /\ UNCHANGED <<word, owner, reason, slotVars, returned, panicked, owed, requests>>

\* Mutant: the check takes the branch that goes on, whatever it has loaded.
MutSeesNothing == FALSE

\* LoadHaltReason and the branch on it
SeesHalt == word # None

CheckHalt(t) ==
    /\ At(t, "check")
    /\ Goto(t, IF SeesHalt THEN "leave" ELSE "chunk")
    /\ since' = 0
    /\ UNCHANGED <<word, owner, reason, slotVars, returned, panicked, owed, passed, requests>>

\* the block leave_and_take_halt: TakeHaltReason, ReturnCode
LeaveChunk(t) ==
    /\ At(t, "leave")
    /\ take(t)
    /\ Goto(t, IF word = None THEN "take" ELSE "handle")
    /\ UNCHANGED <<owner, since, slotVars, returned, panicked, requests>>

Leaves(t, r) ==
    /\ reason' = [reason EXCEPT ![t] = r]
    /\ Goto(t, IF r = None THEN "take" ELSE "handle")
    /\ UNCHANGED <<word, owner, since, returned, panicked, owed, passed, requests>>

\* the chunk ends (Return, code 0) or halts on an invalid instruction
ReturnFromChunk(t) ==
    /\ At(t, "chunk")
    /\ \E r \in {None, "INVALID_INSN"} : Leaves(t, r)
    /\ UNCHANGED slotVars

\* return_trap_block of vm_access: the inlined permission check fails, and the
\* compiled code writes the slot's plain fields itself
InlineTrap(t, a, op) ==
    /\ At(t, "chunk")
    /\ slot' = [slot EXCEPT !.vaddr = a, !.op = op, !.real = TRUE]
    /\ truth' = [vaddr |-> a, op |-> op, bus |-> FALSE]
    /\ Leaves(t, "MEMORY_TRAP")
    /\ UNCHANGED reported

\* set_fault: a protection fault leaves the bus error as it was
set_fault(s, a, op, bus) ==
    [s EXCEPT !.vaddr = a, !.op = op, !.real = TRUE, !.bus = IF bus THEN TRUE ELSE @]

\* the host callback reports a fault and the chunk halts
FallbackFault(t, a, op, bus) ==
    /\ At(t, "chunk")
    /\ slot' = set_fault(slot, a, op, bus)
    /\ truth' = [vaddr |-> a, op |-> op, bus |-> bus]
    /\ Leaves(t, "MEMORY_TRAP")
    /\ UNCHANGED reported

----------------------------------------------------------------------------
(* The dispatcher                                                            *)

\* after a memory trap: take_memory_fault.  The next resume forgets the answer.
TakeFault(t) ==
    /\ t \notin panicked /\ owner = None /\ returned[t] = "MEMORY_TRAP"
    /\ IF slot.real
       THEN /\ slot' = cleared(slot)
            /\ reported' = [answer |-> [vaddr |-> slot.vaddr, op |-> slot.op, bus |-> slot.bus],
                            truth |-> truth]
            /\ truth' = NoFault
       ELSE /\ reported' = [answer |-> NoFault, truth |-> truth]
            /\ UNCHANGED <<slot, truth>>
    /\ returned' = [returned EXCEPT ![t] = None]
    /\ UNCHANGED <<word, owner, pc, since, reason, panicked, owed, passed, requests>>

\* any reason may also be passed over, a memory trap without taking its fault
Acknowledge(t) ==
    /\ t \notin panicked /\ returned[t] # None
    /\ returned' = [returned EXCEPT ![t] = None]
    /\ UNCHANGED <<word, owner, pc, since, reason, slotVars, panicked, owed, passed, requests>>

----------------------------------------------------------------------------
Init ==
    /\ word = None /\ owner = None /\ pc = [t \in Hosts |-> "stopped"] /\ since = 0
    /\ reason = [t \in Hosts |-> None]
    /\ slot = [real |-> FALSE, vaddr |-> None, op |-> None, bus |-> FALSE]
    /\ returned = [t \in Hosts |-> None] /\ panicked = {}
    /\ truth = NoFault /\ reported = [answer |-> NoFault, truth |-> NoFault]
    /\ owed = FALSE /\ passed = 0 /\ requests = 0

\* a step of the thread that drives the core
Drive(t) ==
    \/ TakePending(t) \/ Handle(t) \/ Call(t)
    \/ Retire(t) \/ CheckHalt(t) \/ LeaveChunk(t) \/ ReturnFromChunk(t)
    \/ \E a \in Addrs, op \in Accesses :
          \/ InlineTrap(t, a, op)
          \/ \E bus \in BOOLEAN : FallbackFault(t, a, op, bus)

Dispatch(t) == Resume(t) \/ ResumePanics(t) \/ TakeFault(t) \/ Acknowledge(t)

Next ==
    \/ \E t \in Hosts : Drive(t) \/ Dispatch(t)
    \/ \E r \in Requests : halt(r)
    \/ try_signal_sync

\* The thread inside resume keeps running; nobody has to resume or to request.
Fairness == \A t \in Hosts : WF_vars(Drive(t))

Spec == Init /\ [][Next]_vars /\ Fairness

----------------------------------------------------------------------------
\* Types of the state; exactly the thread that holds `executing` is in resume.
TypeOK ==
    /\ word \in Reasons \cup {None} /\ owner \in Hosts \cup {None}
    /\ pc \in [Hosts -> {"stopped", "take", "handle", "call", "chunk", "check", "leave"}]
    /\ since \in 0..HaltCheckEvery /\ reason \in [Hosts -> Reasons \cup {None}]
    /\ slot \in [real : BOOLEAN, vaddr : Addrs \cup {None},
                 op : Accesses \cup {None}, bus : BOOLEAN]
    /\ returned \in [Hosts -> Reasons \cup {None}] /\ panicked \subseteq Hosts
    /\ truth \in Faults /\ reported \in [answer : Faults, truth : Faults]
    /\ owed \in BOOLEAN /\ passed \in 0..PassedCap /\ requests \in 0..MaxRequests
    /\ \A t \in Hosts : pc[t] # "stopped" <=> owner = t

\* A pending halt is noticed within HaltCheckEvery safepoints, however the
\* requests fall between the instructions, the checks and the calls of chunks.
HaltNoticedInTime == passed <= HaltCheckEvery

\* A chunk that has seen a reason still finds one when it takes it, although
\* the load and the swap are two steps: nobody else ever takes.
LeaveFindsReason == \A t \in Hosts : pc[t] = "leave" => word # None

\* What the dispatcher is told of a memory trap is the access that faulted:
\* its address, its kind and whether there is a bus error.  It holds although a
\* dispatcher may pass a trap over, because debug builds refuse to run on.
FaultReportedExactly == reported.answer = reported.truth

\* A bus error in the slot belongs to the fault pending there; none is left
\* behind for a later fault.
BusErrorOwned == slot.bus => slot.real

\* The fault slot carries exactly the faults that happened, from whatever helper
\* recorded them to whoever takes them.
FaultSlotSound == FaultReportedExactly /\ BusErrorOwned

\* Once a request to flush has been taken no guest instruction runs before the
\* code cache and the address space have been refreshed.
FlushBeforeNextInsn == owed => \A t \in Hosts : pc[t] \notin {"call", "chunk", "check", "leave"}

\* A reason that is pending while the core runs is taken, or the core stops.
HaltHeard == (word # None /\ owner # None) ~> (word = None \/ owner = None)
=============================================================================
