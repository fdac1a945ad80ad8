---------------------------- MODULE CpuCoreProofs ----------------------------
(***************************************************************************)
(* Machine-checked proofs about CpuCore, for every set of host threads, of *)
(* reasons and of faulting addresses and every HaltCheckEvery.             *)
(***************************************************************************)
EXTENDS CpuCore, TLAPS

----------------------------------------------------------------------------
(* The inductive invariant *)

\* Safepoints are counted against a pending reason only, from zero at the entry
\* of a chunk, and then no faster than towards the next check.
InTime(t) ==
    /\ pc[t] = "call" => passed = 0
    /\ pc[t] \in {"chunk", "check"} => passed <= since
    /\ pc[t] = "chunk" => since < HaltCheckEvery

Counted ==
    /\ word = None => passed = 0
    /\ passed <= HaltCheckEvery
    /\ \A t \in Hosts : InTime(t)

\* A flush that was taken and not served is in the hands of the thread that
\* drives the core, on its way to serve it.
FlushInHand ==
    owed => /\ owner # None
            /\ pc[owner] = "handle" /\ reason[owner] = "FLUSH_INSN_CACHE"

\* A pending fault has an address and a kind, and a bus error is part of one.
SlotFilled ==
    /\ slot.real => slot.vaddr \in Addrs /\ slot.op \in Accesses
    /\ slot.bus => slot.real

\* With debug assertions: the slot holds the access that faulted last or, when
\* that was reported, nothing; and nothing while a chunk runs.
SlotTrue ==
    Debug =>
      /\ slot.real => truth = [vaddr |-> slot.vaddr, op |-> slot.op, bus |-> slot.bus]
      /\ ~slot.real => truth = NoFault
      /\ reported.answer = reported.truth
      /\ \A t \in Hosts : pc[t] \in {"chunk", "check", "leave"} => ~slot.real

Inv ==
    /\ TypeOK /\ Counted /\ LeaveFindsReason /\ FlushInHand
    /\ SlotFilled /\ SlotTrue

----------------------------------------------------------------------------
(* The slot *)

Slots == [real : BOOLEAN, vaddr : Addrs \cup {None}, op : Accesses \cup {None},
          bus : BOOLEAN]

\* take_memory_fault leaves an empty slot.
LEMMA Cleared ==
    ASSUME NEW s \in Slots
    PROVE  /\ cleared(s) \in Slots
           /\ cleared(s).real = FALSE /\ cleared(s).bus = FALSE
BY DEF Slots, cleared

\* A fault is a record of its parts, and none is one too.
LEMMA FaultParts ==
    /\ NoFault \in Faults
    /\ \A a \in Addrs, op \in Accesses, bus \in BOOLEAN :
          [vaddr |-> a, op |-> op, bus |-> bus] \in Faults
    /\ \A x, y \in Faults : [answer |-> x, truth |-> y] \in [answer : Faults, truth : Faults]
BY DEF Faults

----------------------------------------------------------------------------
(* One lemma per action *)

\* halt or try_signal_sync by any thread: a pending reason may be overwritten,
\* none is taken away.
LEMMA RequestedStep ==
    ASSUME Inv, NEW r \in Reasons,
           Requested(r)
    PROVE  Inv'
<1>a. /\ TypeOK /\ Counted /\ LeaveFindsReason /\ FlushInHand
      /\ SlotFilled /\ SlotTrue
  BY DEF Inv
<1>1. TypeOK'
  BY <1>a, CoreAssumption DEF Requested, slotVars, TypeOK, PassedCap
<1>2. Counted'
  BY <1>a, CoreAssumption DEF Requested, Counted, InTime, Reasons, None
<1>3. LeaveFindsReason'
  BY CoreAssumption DEF Requested, LeaveFindsReason, Reasons, None
<1>4. FlushInHand'
  BY <1>a DEF Requested, FlushInHand
<1>5. SlotFilled'
  BY <1>a DEF Requested, slotVars, SlotFilled
<1>6. SlotTrue'
  BY <1>a DEF Requested, slotVars, SlotTrue
<1> QED
  BY <1>1, <1>2, <1>3, <1>4, <1>5, <1>6 DEF Inv

\* A thread enters resume while no other is in it.
LEMMA ResumeStep ==
    ASSUME Inv, NEW t \in Hosts,
           Resume(t)
    PROVE  Inv'
<1>a. /\ TypeOK /\ Counted /\ LeaveFindsReason /\ FlushInHand
      /\ SlotFilled /\ SlotTrue
  BY DEF Inv
<1>1. TypeOK'
  BY <1>a, CoreAssumption DEF Resume, MayResume, Goto, slotVars, TypeOK
<1>2. Counted'
  BY <1>a DEF Resume, Goto, Counted, InTime
<1>3. LeaveFindsReason'
  BY <1>a DEF Resume, Goto, LeaveFindsReason
<1>4. FlushInHand'
  BY <1>a DEF Resume, MayResume, FlushInHand
<1>5. SlotFilled'
  BY <1>a DEF Resume, slotVars, SlotFilled, None
<1>6. SlotTrue'
  BY <1>a DEF Resume, Goto, slotVars, SlotTrue, Faults
<1> QED
  BY <1>1, <1>2, <1>3, <1>4, <1>5, <1>6 DEF Inv

\* A thread finds another in resume and panics.
LEMMA ResumePanicsStep ==
    ASSUME Inv, NEW t \in Hosts,
           ResumePanics(t)
    PROVE  Inv'
<1>a. /\ TypeOK /\ Counted /\ LeaveFindsReason /\ FlushInHand
      /\ SlotFilled /\ SlotTrue
  BY DEF Inv
<1>1. TypeOK'
  BY <1>a DEF ResumePanics, slotVars, TypeOK
<1>2. Counted'
  BY <1>a DEF ResumePanics, Counted, InTime
<1>3. LeaveFindsReason'
  BY <1>a DEF ResumePanics, LeaveFindsReason
<1>4. FlushInHand'
  BY <1>a DEF ResumePanics, FlushInHand
<1>5. SlotFilled'
  BY <1>a DEF ResumePanics, slotVars, SlotFilled
<1>6. SlotTrue'
  BY <1>a DEF ResumePanics, slotVars, SlotTrue
<1> QED
  BY <1>1, <1>2, <1>3, <1>4, <1>5, <1>6 DEF Inv

\* The loop takes the pending reason, or goes on to call a chunk.
LEMMA TakePendingStep ==
    ASSUME Inv, NEW t \in Hosts,
           TakePending(t)
    PROVE  Inv'
<1>a. /\ TypeOK /\ Counted /\ LeaveFindsReason /\ FlushInHand
      /\ SlotFilled /\ SlotTrue
  BY DEF Inv
<1>1. TypeOK'
  BY <1>a, CoreAssumption DEF TakePending, take, At, Goto, slotVars, TypeOK,
     PassedCap
<1>2. Counted'
  BY <1>a, CoreAssumption DEF TakePending, take, Goto, Counted, InTime, TypeOK
<1>3. LeaveFindsReason'
  BY <1>a DEF TakePending, At, Goto, LeaveFindsReason, TypeOK
<1>4. FlushInHand'
  BY <1>a, CoreAssumption DEF TakePending, take, At, Goto, FlushInHand, TypeOK,
     None
<1>5. SlotFilled'
  BY <1>a DEF TakePending, slotVars, SlotFilled
<1>6. SlotTrue'
  BY <1>a DEF TakePending, Goto, slotVars, SlotTrue
<1> QED
  BY <1>1, <1>2, <1>3, <1>4, <1>5, <1>6 DEF Inv

\* A flush is served; any other reason leaves resume.
LEMMA HandleStep ==
    ASSUME Inv, NEW t \in Hosts,
           Handle(t)
    PROVE  Inv'
<1>a. /\ TypeOK /\ Counted /\ LeaveFindsReason /\ FlushInHand
      /\ SlotFilled /\ SlotTrue
  BY DEF Inv
<1>1. TypeOK'
  <2>1. owed' \in BOOLEAN
    BY <1>a DEF Handle, TypeOK
  <2>3. /\ owner' \in Hosts \cup {None}
        /\ pc' \in [Hosts -> {"stopped", "take", "handle", "call", "chunk", "check", "leave"}]
        /\ \A h \in Hosts : pc'[h] # "stopped" <=> owner' = h
    BY <1>a, CoreAssumption DEF Handle, At, Goto, TypeOK
  <2> QED
    BY <1>a, <2>1, <2>3 DEF Handle, TypeOK, slotVars
<1>2. Counted'
  BY <1>a DEF Handle, Goto, Counted, InTime, TypeOK
<1>3. LeaveFindsReason'
  BY <1>a DEF Handle, Goto, LeaveFindsReason, TypeOK
<1>4. FlushInHand'
  BY <1>a DEF Handle, At, FlushesCache, FlushInHand, TypeOK
<1>5. SlotFilled'
  BY <1>a DEF Handle, slotVars, SlotFilled
<1>6. SlotTrue'
  BY <1>a DEF Handle, Goto, slotVars, SlotTrue, TypeOK
<1> QED
  BY <1>1, <1>2, <1>3, <1>4, <1>5, <1>6 DEF Inv

\* A chunk is entered, unless a fault is pending in a debug build.
LEMMA CallStep ==
    ASSUME Inv, NEW t \in Hosts,
           Call(t)
    PROVE  Inv'
<1>a. /\ TypeOK /\ Counted /\ LeaveFindsReason /\ FlushInHand
      /\ SlotFilled /\ SlotTrue
  BY DEF Inv
<1>b. /\ cleared(slot) \in Slots
      /\ cleared(slot).real = FALSE /\ cleared(slot).bus = FALSE
  BY <1>a, Cleared DEF TypeOK, Slots
<1>1. TypeOK'
  BY <1>a, <1>b, FaultParts, CoreAssumption DEF Call, At, Goto, TypeOK, Slots
<1>2. Counted'
  BY <1>a, CoreAssumption DEF Call, At, Goto, Counted, InTime, TypeOK
<1>3. LeaveFindsReason'
  BY <1>a DEF Call, Goto, LeaveFindsReason, TypeOK
<1>4. FlushInHand'
  BY <1>a DEF Call, At, FlushInHand, TypeOK
<1>5. SlotFilled'
  BY <1>a, <1>b DEF Call, SlotFilled
<1>6. SlotTrue'
  BY <1>a, <1>b DEF Call, CallPanics, SlotTrue
<1> QED
  BY <1>1, <1>2, <1>3, <1>4, <1>5, <1>6 DEF Inv

\* A safepoint is passed.
LEMMA RetireStep ==
    ASSUME Inv, NEW t \in Hosts,
           Retire(t)
    PROVE  Inv'
<1>a. /\ TypeOK /\ Counted /\ LeaveFindsReason /\ FlushInHand
      /\ SlotFilled /\ SlotTrue
  BY DEF Inv
<1>1. TypeOK'
  BY <1>a, CoreAssumption DEF Retire, At, Goto, MinOf, slotVars, TypeOK,
     Counted, InTime
<1>2. Counted'
  BY <1>a, CoreAssumption DEF Retire, At, Goto, CheckDue, MinOf, PassedCap,
     Counted, InTime, TypeOK
<1>3. LeaveFindsReason'
  BY <1>a DEF Retire, Goto, LeaveFindsReason
<1>4. FlushInHand'
  BY <1>a DEF Retire, At, Goto, PassedCap, FlushInHand
<1>5. SlotFilled'
  BY <1>a DEF Retire, PassedCap, slotVars, SlotFilled
<1>6. SlotTrue'
  BY <1>a DEF Retire, At, slotVars, SlotTrue
<1> QED
  BY <1>1, <1>2, <1>3, <1>4, <1>5, <1>6 DEF Inv

\* A halt check loads the reason.
LEMMA CheckHaltStep ==
    ASSUME Inv, NEW t \in Hosts,
           CheckHalt(t)
    PROVE  Inv'
<1>a. /\ TypeOK /\ Counted /\ LeaveFindsReason /\ FlushInHand
      /\ SlotFilled /\ SlotTrue
  BY DEF Inv
<1>1. TypeOK'
  BY <1>a, CoreAssumption DEF CheckHalt, At, Goto, slotVars, TypeOK
<1>2. Counted'
  BY <1>a, CoreAssumption DEF CheckHalt, At, Goto, SeesHalt, Counted, InTime,
     TypeOK
<1>3. LeaveFindsReason'
  BY <1>a DEF CheckHalt, Goto, SeesHalt, LeaveFindsReason
<1>4. FlushInHand'
  BY <1>a DEF CheckHalt, At, Goto, FlushInHand
<1>5. SlotFilled'
  BY <1>a DEF CheckHalt, slotVars, SlotFilled
<1>6. SlotTrue'
  BY <1>a DEF CheckHalt, At, slotVars, SlotTrue
<1> QED
  BY <1>1, <1>2, <1>3, <1>4, <1>5, <1>6 DEF Inv

\* The chunk takes the reason it has seen.
LEMMA LeaveChunkStep ==
    ASSUME Inv, NEW t \in Hosts,
           LeaveChunk(t)
    PROVE  Inv'
<1>a. /\ TypeOK /\ Counted /\ LeaveFindsReason /\ FlushInHand
      /\ SlotFilled /\ SlotTrue
  BY DEF Inv
<1>1. TypeOK'
  BY <1>a, CoreAssumption DEF LeaveChunk, take, At, Goto, slotVars, TypeOK,
     PassedCap
<1>2. Counted'
  BY <1>a, CoreAssumption DEF LeaveChunk, take, At, Goto, slotVars, Counted,
     InTime, TypeOK, PassedCap, Reasons, None
<1>3. LeaveFindsReason'
  BY <1>a, CoreAssumption DEF LeaveChunk, take, At, Goto, slotVars,
     LeaveFindsReason, TypeOK, Reasons, None
<1>4. FlushInHand'
  BY <1>a, CoreAssumption DEF LeaveChunk, take, At, Goto, FlushInHand, TypeOK,
     None
<1>5. SlotFilled'
  BY <1>a DEF LeaveChunk, slotVars, SlotFilled, None
<1>6. SlotTrue'
  BY <1>a DEF LeaveChunk, At, slotVars, SlotTrue
<1> QED
  BY <1>1, <1>2, <1>3, <1>4, <1>5, <1>6 DEF Inv

\* The chunk ends by itself.
LEMMA ReturnFromChunkStep ==
    ASSUME Inv, NEW t \in Hosts,
           ReturnFromChunk(t)
    PROVE  Inv'
<1>a. /\ TypeOK /\ Counted /\ LeaveFindsReason /\ FlushInHand
      /\ SlotFilled /\ SlotTrue
  BY DEF Inv
<1>1. TypeOK'
  BY <1>a DEF ReturnFromChunk, At, Goto, Leaves, slotVars, TypeOK, Reasons,
     SlotFilled
<1>2. Counted'
  BY <1>a DEF ReturnFromChunk, Goto, Leaves, Counted, InTime
<1>3. LeaveFindsReason'
  BY <1>a DEF ReturnFromChunk, Goto, Leaves, slotVars, LeaveFindsReason
<1>4. FlushInHand'
  BY <1>a DEF ReturnFromChunk, At, Goto, Leaves, FlushInHand
<1>5. SlotFilled'
  BY <1>a DEF ReturnFromChunk, slotVars, SlotFilled
<1>6. SlotTrue'
  BY <1>a DEF ReturnFromChunk, At, slotVars, SlotTrue
<1> QED
  BY <1>1, <1>2, <1>3, <1>4, <1>5, <1>6 DEF Inv

\* Compiled code writes a protection fault into the slot.
LEMMA InlineTrapStep ==
    ASSUME Inv, NEW t \in Hosts, NEW a \in Addrs, NEW op \in Accesses,
           InlineTrap(t, a, op)
    PROVE  Inv'
<1>a. /\ TypeOK /\ Counted /\ LeaveFindsReason /\ FlushInHand
      /\ SlotFilled /\ SlotTrue
  BY DEF Inv
<1>1. TypeOK'
  BY <1>a, CoreAssumption DEF InlineTrap, At, Goto, Leaves, slotVars, TypeOK,
     Reasons, Faults, NoFault, Counted, SlotFilled
<1>2. Counted'
  BY <1>a, CoreAssumption DEF InlineTrap, Goto, Leaves, Counted, InTime
<1>3. LeaveFindsReason'
  BY <1>a, CoreAssumption DEF InlineTrap, Goto, Leaves, LeaveFindsReason
<1>4. FlushInHand'
  BY <1>a DEF InlineTrap, At, Goto, Leaves, FlushInHand
<1>5. SlotFilled'
  BY DEF InlineTrap, SlotFilled
<1>6. SlotTrue'
  BY <1>a, CoreAssumption, ZenonT(40) DEF InlineTrap, At, Goto, Leaves, slotVars, SlotTrue,
     SlotFilled, TypeOK, Faults, NoFault, None
<1> QED
  BY <1>1, <1>2, <1>3, <1>4, <1>5, <1>6 DEF Inv

\* A host callback writes a fault into the slot.
LEMMA FallbackFaultStep ==
    ASSUME Inv, NEW t \in Hosts, NEW a \in Addrs, NEW op \in Accesses, NEW bus \in BOOLEAN,
           FallbackFault(t, a, op, bus)
    PROVE  Inv'
<1>a. /\ TypeOK /\ Counted /\ LeaveFindsReason /\ FlushInHand
      /\ SlotFilled /\ SlotTrue
  BY DEF Inv
<1>b. /\ slot' \in Slots /\ slot'.real = TRUE /\ slot'.vaddr = a /\ slot'.op = op
      /\ slot'.bus = IF bus THEN TRUE ELSE slot.bus
  <2>1. /\ slot' \in Slots /\ slot'.real = TRUE
        /\ slot'.vaddr = a /\ slot'.op = op
    BY <1>a DEF FallbackFault, set_fault, TypeOK, Slots
  <2>2. slot'.bus = IF bus THEN TRUE ELSE slot.bus
    BY DEF FallbackFault, set_fault
  <2> QED
    BY <2>1, <2>2
<1>1. TypeOK'
  BY <1>a, <1>b, FaultParts DEF FallbackFault, At, Goto, Leaves, TypeOK,
     Reasons, Slots
<1>2. Counted'
  BY <1>a DEF FallbackFault, Goto, Leaves, Counted, InTime
<1>3. LeaveFindsReason'
  BY <1>a DEF FallbackFault, Goto, Leaves, LeaveFindsReason
<1>4. FlushInHand'
  BY <1>a DEF FallbackFault, At, Goto, Leaves, FlushInHand
<1>5. SlotFilled'
  BY <1>b DEF SlotFilled
<1>6. SlotTrue'
  <2> SUFFICES ASSUME Debug
               PROVE  SlotTrue'
    BY DEF SlotTrue
  <2>1. slot.bus = FALSE
    BY <1>a DEF FallbackFault, At, SlotTrue, SlotFilled
  <2>2. slot'.bus = bus
    BY <1>b, <2>1
  <2>3. truth' = [vaddr |-> slot'.vaddr, op |-> slot'.op, bus |-> slot'.bus]
    BY <1>b, <2>2 DEF FallbackFault
  <2>4. \A h \in Hosts : pc'[h] \notin {"chunk", "check", "leave"}
    BY <1>a DEF FallbackFault, Leaves, At, Goto, TypeOK
  <2>5. reported'.answer = reported'.truth
    BY <1>a DEF FallbackFault, SlotTrue
  <2> QED
    BY <1>b, <2>3, <2>4, <2>5 DEF SlotTrue
<1> QED
  BY <1>1, <1>2, <1>3, <1>4, <1>5, <1>6 DEF Inv

\* The dispatcher takes the fault.
LEMMA TakeFaultStep ==
    ASSUME Inv, NEW t \in Hosts,
           TakeFault(t)
    PROVE  Inv'
<1>a. /\ TypeOK /\ Counted /\ LeaveFindsReason /\ FlushInHand
      /\ SlotFilled /\ SlotTrue
  BY DEF Inv
<1>b. /\ cleared(slot) \in Slots
      /\ cleared(slot).real = FALSE /\ cleared(slot).bus = FALSE
  BY <1>a, Cleared DEF TypeOK, Slots
<1>1. TypeOK'
  BY <1>a, <1>b, FaultParts DEF TakeFault, TypeOK, SlotFilled, Slots
<1>2. Counted'
  BY <1>a DEF TakeFault, Counted, InTime
<1>3. LeaveFindsReason'
  BY <1>a DEF TakeFault, LeaveFindsReason
<1>4. FlushInHand'
  BY <1>a DEF TakeFault, FlushInHand
<1>5. SlotFilled'
  BY <1>a, <1>b DEF TakeFault, SlotFilled
<1>6. SlotTrue'
  BY <1>a, <1>b DEF TakeFault, SlotTrue
<1> QED
  BY <1>1, <1>2, <1>3, <1>4, <1>5, <1>6 DEF Inv

\* The dispatcher passes a reason over.
LEMMA AcknowledgeStep ==
    ASSUME Inv, NEW t \in Hosts,
           Acknowledge(t)
    PROVE  Inv'
<1>a. /\ TypeOK /\ Counted /\ LeaveFindsReason /\ FlushInHand
      /\ SlotFilled /\ SlotTrue
  BY DEF Inv
<1>1. TypeOK'
  BY <1>a DEF Acknowledge, slotVars, TypeOK
<1>2. Counted'
  BY <1>a DEF Acknowledge, Counted, InTime
<1>3. LeaveFindsReason'
  BY <1>a DEF Acknowledge, LeaveFindsReason
<1>4. FlushInHand'
  BY <1>a DEF Acknowledge, FlushInHand
<1>5. SlotFilled'
  BY <1>a DEF Acknowledge, slotVars, SlotFilled
<1>6. SlotTrue'
  BY <1>a DEF Acknowledge, slotVars, SlotTrue
<1> QED
  BY <1>1, <1>2, <1>3, <1>4, <1>5, <1>6 DEF Inv

LEMMA InitInv == Init => Inv
<1> SUFFICES ASSUME Init
             PROVE  Inv
  OBVIOUS
<1>1. TypeOK
  <2>1. 0 \in 0..HaltCheckEvery /\ 0 \in 0..PassedCap /\ 0 \in 0..MaxRequests
    BY CoreAssumption DEF PassedCap
  <2>2. reported \in [answer : Faults, truth : Faults] /\ truth \in Faults
    BY FaultParts DEF Init
  <2> QED
    BY <2>1, <2>2, CoreAssumption DEF Init, TypeOK
<1>2. Counted /\ LeaveFindsReason /\ FlushInHand
  BY CoreAssumption DEF Init, Counted, InTime, LeaveFindsReason, FlushInHand
<1>3. SlotFilled /\ SlotTrue
  BY DEF Init, SlotFilled, SlotTrue
<1> QED
  BY <1>1, <1>2, <1>3 DEF Inv

\* A step that changes nothing keeps the invariant.
LEMMA Stutter ==
    ASSUME Inv, UNCHANGED vars
    PROVE  Inv'
<1>1. TypeOK'
  BY DEF Inv, TypeOK, vars
<1>2. Counted' /\ LeaveFindsReason' /\ FlushInHand'
  BY DEF Inv, Counted, InTime, LeaveFindsReason, FlushInHand, vars
<1>3. SlotFilled' /\ SlotTrue'
  BY DEF Inv, SlotFilled, SlotTrue, vars
<1> QED
  BY <1>1, <1>2, <1>3 DEF Inv

----------------------------------------------------------------------------
(* The theorems *)

\* The invariant is inductive, whatever reasons other threads request and
\* whatever the guest code does between its halt checks.
THEOREM Invariance == Spec => []Inv
<1>1. Inv /\ [Next]_vars => Inv'
  <2> SUFFICES ASSUME Inv, [Next]_vars
               PROVE  Inv'
    OBVIOUS
  <2>1. CASE \E t \in Hosts : Drive(t)
    <3>1. PICK t \in Hosts : Drive(t)
      BY <2>1
    <3>2. CASE \E a \in Addrs, op \in Accesses :
                  \/ InlineTrap(t, a, op)
                  \/ \E bus \in BOOLEAN : FallbackFault(t, a, op, bus)
      BY <3>2, InlineTrapStep, FallbackFaultStep
    <3> QED
      BY <3>1, <3>2, TakePendingStep, HandleStep, CallStep, RetireStep,
         CheckHaltStep, LeaveChunkStep, ReturnFromChunkStep DEF Drive
  <2>2. CASE \E t \in Hosts : Dispatch(t)
    BY <2>2, ResumeStep, ResumePanicsStep, TakeFaultStep, AcknowledgeStep DEF
       Dispatch
  <2>3. CASE (\E r \in Requests : halt(r)) \/ try_signal_sync
    BY <2>3, RequestedStep DEF halt, try_signal_sync, Reasons
  <2>4. CASE UNCHANGED vars
    BY <2>4, Stutter
  <2> QED
    BY <2>1, <2>2, <2>3, <2>4 DEF Next
<1> QED
  BY <1>1, InitInv, PTL DEF Spec

\* The state is well typed, and the thread in resume is the one that holds
\* `executing`.
THEOREM TypeCorrect == Spec => []TypeOK
<1>1. Inv => TypeOK
  BY DEF Inv
<1> QED
  BY <1>1, Invariance, PTL

\* A pending halt is noticed within HaltCheckEvery safepoints, for every
\* distance of the halt checks.
THEOREM HaltsNoticed == Spec => []HaltNoticedInTime
<1>1. Inv => HaltNoticedInTime
  BY DEF Inv, Counted, HaltNoticedInTime
<1> QED
  BY <1>1, Invariance, PTL

\* TakeHaltReason finds the reason that LoadHaltReason saw, or a later one.
THEOREM LeavingFindsReason == Spec => []LeaveFindsReason
<1>1. Inv => LeaveFindsReason
  BY DEF Inv
<1> QED
  BY <1>1, Invariance, PTL

\* A flush that was taken is served before the next guest instruction.
THEOREM FlushServedFirst == Spec => []FlushBeforeNextInsn
<1>1. Inv => FlushBeforeNextInsn
  BY DEF Inv, TypeOK, FlushInHand, FlushBeforeNextInsn
<1> QED
  BY <1>1, Invariance, PTL

\* A bus error never outlives the fault it belongs to, in every build.
THEOREM BusErrorsOwned == Spec => []BusErrorOwned
<1>1. Inv => BusErrorOwned
  BY DEF Inv, SlotFilled, BusErrorOwned
<1> QED
  BY <1>1, Invariance, PTL

\* With debug assertions the dispatcher is told exactly the access that faulted,
\* although it may resume without having taken the fault before.
THEOREM FaultsReported ==
    ASSUME Debug
    PROVE  Spec => []FaultSlotSound
<1>1. Inv => FaultSlotSound
  BY DEF Inv, SlotFilled, SlotTrue, FaultSlotSound, FaultReportedExactly,
     BusErrorOwned
<1> QED
  BY <1>1, Invariance, PTL

=============================================================================
