------------------------------ MODULE WriteBack ------------------------------
(***************************************************************************)
(* The life of a store to a resident, executable page of a memory object:  *)
(* dirty tracking (Page::set_dirty, emu-abi/src/memory.rs), the two-flag   *)
(* protocol of PageEntry::flush_dyn (io-mmu/src/page_table.rs), and the    *)
(* write-back and instruction-cache invalidation behind IoMMU::flush and   *)
(* IoMMU::refresh (io-mmu/src/lib.rs).                                     *)
(*                                                                         *)
(* Contents are the set of stores they include: of the page, of the memory *)
(* object and of the translation the instruction cache holds.  Each atomic *)
(* operation on the flags is one action.  The object manager is reduced to *)
(* what ObjectManager shows of it: one queued entry per page that requests *)
(* join, and one worker.  Memory is sequentially consistent.               *)
(***************************************************************************)
EXTENDS FiniteSets, Naturals

CONSTANTS Stores,        \* the stores guests make, each once
          Exclusive,     \* those of them that are made by strex
          Flushers,      \* threads that call flush or refresh
          Refreshers,    \* those of them that call refresh
          WriteErrors,   \* whether fault_out may fail
          Panics,        \* whether ICache::invalidate may panic
          MaxCalls       \* bound: calls per flusher

Free   == "Free"
NoCode == {"NoCode"}

ASSUME WriteBackAssumption ==
    /\ Free \notin Flushers
    /\ NoCode \cap Stores = {}
    /\ Exclusive \subseteq Stores
    /\ Refreshers \subseteq Flushers
    /\ WriteErrors \in BOOLEAN
    /\ Panics \in BOOLEAN
    /\ MaxCalls \in Nat

VARIABLES
    spc,       \* store -> "new", "stored" (bytes written), "done"
    mem,       \* the stores the page holds
    object,    \* the stores the memory object holds
    code,      \* the stores the cached translation was made from, or NoCode
    dirty,     \* Page::IS_DIRTY_FLAG
    flushing,  \* Page::IS_FLUSHING_DIRTY_PAGE
    gate,      \* MutablePageData::flush_gate: the flusher that holds it, or Free
    fpc,       \* flusher -> where it is in flush_dyn
    saw,       \* flusher -> the flags it loaded
    must,      \* history: flusher -> stores that were done when its call began
    answer,    \* flusher -> what its callback's channel holds
    calls,     \* flusher -> calls left
    queued,    \* whether the object manager's queue holds a flush of the page
    waiting,   \* callbacks of that entry
    wpc,       \* worker: "idle", "reading"
    serving,   \* callbacks of the entry the worker handles
    low,       \* what the page held when the worker began to read it
    failed,    \* history: a fault_out failed
    broken     \* history: an exclusive_access_error was due

vars == <<spc, mem, object, code, dirty, flushing, gate, fpc, saw, must, answer,
          calls, queued, waiting, wpc, serving, low, failed, broken>>

flagVars  == <<dirty, flushing, broken>>
queueVars == <<queued, waiting, wpc, serving, low>>
dataVars  == <<spc, mem, object, code, failed>>
callVars  == <<must, answer, calls>>

Done == {s \in Stores : spc[s] = "done"}

-----------------------------------------------------------------------------
(* Stores *)

\* The bytes are written first ...
StoreBytes(s) ==
    /\ spc[s] = "new"
    /\ spc' = [spc EXCEPT ![s] = "stored"]
    /\ mem' = mem \cup {s}
    /\ UNCHANGED <<object, code, failed, flagVars, gate, fpc, saw, callVars, queueVars>>

\* ... and the page is marked dirty after them; strex does not mark it.
SetDirty(s) ==
    /\ spc[s] = "stored"
    /\ spc' = [spc EXCEPT ![s] = "done"]
    /\ dirty' = (dirty \/ s \notin Exclusive)
    /\ UNCHANGED <<mem, object, code, failed, flushing, broken, gate, fpc, saw,
                   callVars, queueVars>>

\* Mutant: a translation is added to one that was dropped.
TranslateOnTop ==
    /\ code' = code \cup mem
    /\ UNCHANGED <<spc, mem, object, failed, flagVars, gate, fpc, saw, callVars, queueVars>>

\* The JIT translates the page (external: the cache behind the ICache trait).
Translate ==
    /\ code' = mem
    /\ UNCHANGED <<spc, mem, object, failed, flagVars, gate, fpc, saw, callVars, queueVars>>

-----------------------------------------------------------------------------
(* PageEntry::flush_dyn *)

\* A call of flush or refresh reaches the page.
Begin(f) ==
    /\ fpc[f] = "idle"
    /\ calls[f] > 0
    /\ calls' = [calls EXCEPT ![f] = @ - 1]
    /\ must' = [must EXCEPT ![f] = Done]
    /\ fpc' = [fpc EXCEPT ![f] = "gate"]
    /\ UNCHANGED <<dataVars, flagVars, gate, saw, answer, queueVars>>

\* flush_gate.lock(), and the load of the flags.
LockAndLoad(f) ==
    /\ fpc[f] = "gate"
    /\ gate = Free
    /\ saw' = [saw EXCEPT ![f] = [dirty |-> dirty, flushing |-> flushing]]
    /\ \/ /\ dirty \/ flushing
          /\ gate' = f
          /\ fpc' = [fpc EXCEPT ![f] = "mark"]
       \/ /\ ~dirty /\ ~flushing               \* clean: nothing to flush
          /\ gate' = Free
          /\ fpc' = [fpc EXCEPT ![f] = "return"]
    /\ UNCHANGED <<dataVars, flagVars, callVars, queueVars>>

\* Mutant: a flush that failed before is started over with the same toggle.
MarkedToggled(f) == <<~dirty, ~flushing>>

\* The flags after the branch on what was loaded: fetch_xor of both, fetch_and
\* of dirty, or nothing.
Marked(f) ==
    CASE saw[f].dirty /\ ~saw[f].flushing -> <<~dirty, ~flushing>>
      [] saw[f].dirty /\ saw[f].flushing  -> <<FALSE, flushing>>
      [] OTHER                            -> <<dirty, flushing>>

Mark(f) ==
    /\ fpc[f] = "mark"
    /\ dirty' = Marked(f)[1]
    /\ flushing' = Marked(f)[2]
    /\ broken' = (broken \/ (saw[f].dirty /\ ~(flushing' /\ ~dirty')))
    /\ fpc' = [fpc EXCEPT ![f] = "invalidate"]
    /\ UNCHANGED <<dataVars, gate, saw, callVars, queueVars>>

\* Mutant: no invalidation.
InvalidateNothing(f) ==
    /\ fpc[f] = "invalidate"
    /\ fpc' = [fpc EXCEPT ![f] = "clear"]
    /\ UNCHANGED <<dataVars, flagVars, gate, saw, callVars, queueVars>>

\* ICache::invalidate
Invalidate(f) ==
    /\ fpc[f] = "invalidate"
    /\ code' = NoCode
    /\ fpc' = [fpc EXCEPT ![f] = "clear"]
    /\ UNCHANGED <<spc, mem, object, failed, flagVars, gate, saw, callVars, queueVars>>

\* ICache::invalidate panics: the gate is released by the unwinding, the flag
\* that a flush is under way stays.
InvalidatePanics(f) ==
    /\ Panics
    /\ fpc[f] = "invalidate"
    /\ gate' = Free
    /\ fpc' = [fpc EXCEPT ![f] = "idle"]
    /\ UNCHANGED <<dataVars, flagVars, saw, callVars, queueVars>>

\* Mutant: the gate is not dropped.
ClearKeepsGate(f) ==
    /\ fpc[f] = "clear"
    /\ flushing' = FALSE
    /\ fpc' = [fpc EXCEPT ![f] = "enqueue"]
    /\ UNCHANGED <<dataVars, dirty, broken, gate, saw, callVars, queueVars>>

\* The flush flag is cleared and the gate dropped.
Clear(f) ==
    /\ fpc[f] = "clear"
    /\ broken' = (broken \/ ~flushing)
    /\ flushing' = FALSE
    /\ gate' = Free
    /\ fpc' = [fpc EXCEPT ![f] = "enqueue"]
    /\ UNCHANGED <<dataVars, dirty, saw, callVars, queueVars>>

\* Mutant: only a flush that someone waits for is queued.
EnqueueWaited(f) ==
    /\ fpc[f] = "enqueue"
    /\ queued' = (queued \/ f \notin Refreshers)
    /\ waiting' = IF f \in Refreshers THEN waiting ELSE waiting \cup {f}
    /\ answer' = [answer EXCEPT ![f] = "none"]
    /\ fpc' = [fpc EXCEPT ![f] = IF f \in Refreshers THEN "idle" ELSE "recv"]
    /\ UNCHANGED <<dataVars, flagVars, gate, saw, must, calls, wpc, serving, low>>

\* enqueue_flush, with a callback for flush and without for refresh.
Enqueue(f) ==
    /\ fpc[f] = "enqueue"
    /\ queued' = TRUE
    /\ waiting' = IF f \in Refreshers THEN waiting ELSE waiting \cup {f}
    /\ answer' = [answer EXCEPT ![f] = "none"]
    /\ fpc' = [fpc EXCEPT ![f] = IF f \in Refreshers THEN "idle" ELSE "recv"]
    /\ UNCHANGED <<dataVars, flagVars, gate, saw, must, calls, wpc, serving, low>>

\* IoMMU::flush has its answer; a page that was clean has none to wait for.
Return(f) ==
    /\ \/ fpc[f] = "return"
       \/ fpc[f] = "recv" /\ answer[f] # "none"
    /\ fpc' = [fpc EXCEPT ![f] = "idle"]
    /\ answer' = [answer EXCEPT ![f] = "none"]
    /\ UNCHANGED <<dataVars, flagVars, gate, saw, must, calls, queueVars>>

-----------------------------------------------------------------------------
(* The object manager's worker *)

\* Mutant: the copy is taken to be as old as the entry.
CopiesStale == {S \in SUBSET mem : object \subseteq S}

\* The worker takes the entry and begins to copy the page.
FaultOutBegin ==
    /\ wpc = "idle"
    /\ queued
    /\ wpc' = "reading"
    /\ queued' = FALSE
    /\ serving' = waiting
    /\ waiting' = {}
    /\ low' = mem
    /\ UNCHANGED <<dataVars, flagVars, gate, fpc, saw, callVars>>

\* The copy may or may not include what was stored meanwhile.
Copies == {S \in SUBSET mem : low \subseteq S}

FaultOutOk ==
    /\ wpc = "reading"
    /\ \E S \in Copies : object' = S
    /\ answer' = [f \in Flushers |-> IF f \in serving THEN "ok" ELSE answer[f]]
    /\ serving' = {}
    /\ wpc' = "idle"
    /\ UNCHANGED <<spc, mem, code, failed, flagVars, gate, fpc, saw, must, calls,
                   queued, waiting, low>>

\* A failing fault_out may have written a part.
FaultOutErr ==
    /\ WriteErrors
    /\ wpc = "reading"
    /\ \E S \in Copies : \E T \in SUBSET S : object' = object \cup T
    /\ failed' = TRUE
    /\ answer' = [f \in Flushers |-> IF f \in serving THEN "err" ELSE answer[f]]
    /\ serving' = {}
    /\ wpc' = "idle"
    /\ UNCHANGED <<spc, mem, code, flagVars, gate, fpc, saw, must, calls,
                   queued, waiting, low>>

-----------------------------------------------------------------------------

Init ==
    /\ spc = [s \in Stores |-> "new"]
    /\ mem = {} /\ object = {} /\ code = NoCode
    /\ dirty = FALSE /\ flushing = FALSE /\ gate = Free
    /\ fpc = [f \in Flushers |-> "idle"]
    /\ saw = [f \in Flushers |-> [dirty |-> FALSE, flushing |-> FALSE]]
    /\ must = [f \in Flushers |-> {}]
    /\ answer = [f \in Flushers |-> "none"]
    /\ calls = [f \in Flushers |-> MaxCalls]
    /\ queued = FALSE /\ waiting = {} /\ wpc = "idle" /\ serving = {} /\ low = {}
    /\ failed = FALSE /\ broken = FALSE

Flusher(f) ==
    \/ LockAndLoad(f) \/ Mark(f) \/ Invalidate(f) \/ InvalidatePanics(f)
    \/ Clear(f) \/ Enqueue(f) \/ Return(f)

Worker == FaultOutBegin \/ FaultOutOk \/ FaultOutErr

Next ==
    \/ \E s \in Stores : StoreBytes(s) \/ SetDirty(s)
    \/ Translate
    \/ \E f \in Flushers : Begin(f) \/ Flusher(f)
    \/ Worker

Spec == Init /\ [][Next]_vars

\* A flush that began goes on and the worker serves.
Fairness ==
    /\ \A f \in Flushers : WF_vars(Flusher(f))
    /\ WF_vars(Worker)

FairSpec == Spec /\ Fairness

-----------------------------------------------------------------------------
(* Properties *)

\* Types of the state.
TypeOK ==
    /\ spc \in [Stores -> {"new", "stored", "done"}]
    /\ mem \in SUBSET Stores
    /\ object \in SUBSET Stores
    /\ code \in (SUBSET Stores) \cup {NoCode}
    /\ dirty \in BOOLEAN /\ flushing \in BOOLEAN
    /\ gate \in Flushers \cup {Free}
    /\ fpc \in [Flushers -> {"idle", "gate", "mark", "invalidate", "clear",
                             "enqueue", "recv", "return"}]
    /\ saw \in [Flushers -> [dirty : BOOLEAN, flushing : BOOLEAN]]
    /\ must \in [Flushers -> SUBSET Stores]
    /\ answer \in [Flushers -> {"none", "ok", "err"}]
    /\ calls \in [Flushers -> Nat]
    /\ queued \in BOOLEAN
    /\ waiting \in SUBSET Flushers
    /\ serving \in SUBSET Flushers
    /\ wpc \in {"idle", "reading"}
    /\ low \in SUBSET Stores
    /\ failed \in BOOLEAN /\ broken \in BOOLEAN

\* A write-back that will still read the page is on its way.
WriteBackDue ==
    dirty \/ flushing \/ queued \/ \E f \in Flushers : fpc[f] = "enqueue"

\* The dirty bit is never lost: a store that completed is in the memory object,
\* or being copied to it, or something that will copy it is still pending, in
\* every interleaving of set_dirty with the flag operations of flush_dyn and
\* after a panic between them (until a fault_out fails).
NoLostStore ==
    ~failed => \A s \in Done \ object :
                  WriteBackDue \/ (wpc = "reading" /\ s \in low)

\* No stale code: when a store has completed, no translation without it
\* survives, unless the flags still ask for an invalidation.
NoStaleCode == (code # NoCode /\ ~(Done \subseteq code)) => dirty \/ flushing

\* The gate serializes the flag operations: the exclusive_access_error of the
\* debug assertions cannot happen, also when a flush takes over a failed one.
FlagsExclusive == ~broken

\* A flush that was answered with success is durable: every store that was done
\* when it began is in the memory object, although the entry it joined may be
\* another flusher's, and whatever failed before.
FlushAnswered ==
    \A f \in Flushers \ Refreshers :
        (fpc[f] = "recv" /\ answer[f] = "ok") => must[f] \subseteq object

\* IoMMU::flush returns after "waiting for all write-back to complete": a flush
\* that succeeds, answered or with nothing to wait for, leaves every store that
\* was done when it began in the memory object.
\* The code does not keep this beside a refresh (README, section 5);
\* WriteBack_flush.cfg reproduces it.
FlushDurable ==
    FlushAnswered /\ \A f \in Flushers \ Refreshers :
                        fpc[f] = "return" => must[f] \subseteq object

\* A flush does not wait for ever, on the gate or for its callback.
FlushReturns == \A f \in Flushers : fpc[f] # "idle" ~> fpc[f] = "idle"
=============================================================================
