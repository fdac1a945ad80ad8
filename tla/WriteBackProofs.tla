--------------------------- MODULE WriteBackProofs ---------------------------
(***************************************************************************)
(* Machine-checked proofs about WriteBack, for every set of stores, of     *)
(* flushers and of refreshers, with and without failing write-backs and    *)
(* panicking invalidations.  The plain stores are followed through the two *)
(* flags; those of strex, which never set the dirty flag, are left out of  *)
(* the invariant and excluded by a hypothesis where a property names them. *)
(***************************************************************************)
EXTENDS WriteBack, TLAPS

-----------------------------------------------------------------------------
(* The inductive invariant *)

Plain == Done \ Exclusive

\* Between the load of the flags and the fetch_and that ends the flush a thread
\* holds the gate.
Holding == {"mark", "invalidate", "clear"}

GateHeld == \A f \in Flushers : gate = f <=> fpc[f] \in Holding

\* What the holder of the gate has loaded still describes the flags, but for a
\* store that set the dirty flag meanwhile; once it has marked them the flush
\* flag is up until it clears it.
LoadedFlags(f) ==
    /\ fpc[f] = "mark" => /\ saw[f].flushing = flushing
                          /\ saw[f].dirty => dirty
                          /\ saw[f].dirty \/ saw[f].flushing
    /\ fpc[f] \in {"invalidate", "clear"} => flushing

FlagsLoaded == \A f \in Flushers : LoadedFlags(f)

\* Completed stores are in the page; the object and the copy hold nothing else,
\* and the copy under way has all the object has.
DataOrdered ==
    /\ \A s \in Stores : spc[s] # "new" => s \in mem
    /\ object \subseteq mem
    /\ low \subseteq mem
    /\ wpc = "reading" => object \subseteq low
    /\ \A f \in Flushers : must[f] \subseteq Done

\* No answer is due twice, and none before the copy that makes it true.
Awaits(f) ==
    /\ answer[f] # "none" => fpc[f] = "recv"
    /\ f \in waiting \cup serving => fpc[f] = "recv" /\ answer[f] = "none"
    /\ f \in waiting => f \notin serving
    /\ f \in serving => wpc = "reading" /\ must[f] \subseteq low
    /\ answer[f] = "ok" => must[f] \subseteq object

AnswersAwaited == \A f \in Flushers : Awaits(f)

\* A translation without some completed store is flagged, and by the dirty flag
\* once the holder of the gate has invalidated.
Stale == code # NoCode /\ ~(Plain \subseteq code)

CodeFlagged ==
    /\ Stale => dirty \/ flushing
    /\ \A f \in Flushers : fpc[f] = "clear" => (Stale => dirty)

\* NoLostStore, for the stores that set the dirty flag.
PlainKept ==
    ~failed => \A s \in Plain \ object :
                  WriteBackDue \/ (wpc = "reading" /\ s \in low)

Inv ==
    /\ TypeOK /\ ~broken
    /\ GateHeld /\ FlagsLoaded /\ DataOrdered /\ AnswersAwaited
    /\ CodeFlagged /\ PlainKept

-----------------------------------------------------------------------------
(* One lemma per action *)

\* The bytes of a store reach the page; nothing is complete yet.
LEMMA StoreBytesStep ==
    ASSUME Inv, NEW s \in Stores, StoreBytes(s)
    PROVE  Inv'
<1>a. /\ TypeOK /\ ~broken /\ GateHeld /\ FlagsLoaded /\ DataOrdered
      /\ AnswersAwaited /\ CodeFlagged /\ PlainKept
  BY DEF Inv
<1>1. TypeOK'
  BY <1>a DEF StoreBytes, TypeOK, flagVars, callVars, queueVars
<1>2. ~broken'
  BY <1>a DEF StoreBytes, flagVars
<1>3. GateHeld'
  BY <1>a DEF StoreBytes, GateHeld
<1>4. FlagsLoaded'
  BY <1>a DEF StoreBytes, FlagsLoaded, LoadedFlags, flagVars
<1>5. DataOrdered'
  BY <1>a DEF StoreBytes, DataOrdered, Done, callVars, queueVars
<1>6. AnswersAwaited'
  BY <1>a DEF StoreBytes, AnswersAwaited, Awaits, callVars, queueVars
<1>7. CodeFlagged'
  BY <1>a DEF StoreBytes, CodeFlagged, Stale, Plain, Done, flagVars
<1>8. PlainKept'
  BY <1>a DEF StoreBytes, PlainKept, WriteBackDue, Plain, Done, flagVars,
     queueVars
<1> QED
  BY <1>1, <1>2, <1>3, <1>4, <1>5, <1>6, <1>7, <1>8 DEF Inv

\* A store completes and sets the dirty flag; only strex leaves it alone.
LEMMA SetDirtyStep ==
    ASSUME Inv, NEW s \in Stores, SetDirty(s)
    PROVE  Inv'
<1>a. /\ TypeOK /\ ~broken /\ GateHeld /\ FlagsLoaded /\ DataOrdered
      /\ AnswersAwaited /\ CodeFlagged /\ PlainKept
  BY DEF Inv
<1>b. Done' = Done \cup {s} /\ (Plain' = IF s \in Exclusive THEN Plain ELSE Plain \cup {s})
  BY <1>a DEF SetDirty, Done, Plain, TypeOK
<1>1. TypeOK'
  BY <1>a DEF SetDirty, TypeOK, callVars, queueVars
<1>2. ~broken'
  BY <1>a DEF SetDirty, flagVars
<1>3. GateHeld'
  BY <1>a DEF SetDirty, GateHeld, dataVars
<1>4. FlagsLoaded'
  BY <1>a DEF SetDirty, FlagsLoaded, LoadedFlags
<1>5. DataOrdered'
  BY <1>a, <1>b DEF SetDirty, DataOrdered, callVars, queueVars
<1>6. AnswersAwaited'
  BY <1>a, <1>b, WriteBackAssumption DEF SetDirty, AnswersAwaited, Awaits,
     callVars, queueVars
<1>7. CodeFlagged'
  BY <1>a, <1>b DEF SetDirty, CodeFlagged, Stale
<1>8. PlainKept'
  BY <1>a, <1>b DEF SetDirty, PlainKept, WriteBackDue, queueVars
<1> QED
  BY <1>1, <1>2, <1>3, <1>4, <1>5, <1>6, <1>7, <1>8 DEF Inv

\* A translation has every completed store.
LEMMA TranslateStep ==
    ASSUME Inv, Translate
    PROVE  Inv'
<1>a. /\ TypeOK /\ ~broken /\ GateHeld /\ FlagsLoaded /\ DataOrdered
      /\ AnswersAwaited /\ CodeFlagged /\ PlainKept
  BY DEF Inv
<1>1. TypeOK'
  BY <1>a DEF Translate, TypeOK, flagVars, callVars, queueVars
<1>2. ~broken'
  BY <1>a DEF Translate, flagVars
<1>3. GateHeld'
  BY <1>a DEF Translate, GateHeld
<1>4. FlagsLoaded'
  BY <1>a DEF Translate, FlagsLoaded, LoadedFlags, flagVars
<1>5. DataOrdered'
  BY <1>a DEF Translate, DataOrdered, Done, callVars, queueVars
<1>6. AnswersAwaited'
  BY <1>a DEF Translate, AnswersAwaited, Awaits, callVars, queueVars
<1>7. CodeFlagged'
  BY <1>a DEF Translate, CodeFlagged, Stale, Plain, Done, DataOrdered
<1>8. PlainKept'
  BY <1>a DEF Translate, PlainKept, WriteBackDue, Plain, Done, flagVars,
     queueVars
<1> QED
  BY <1>1, <1>2, <1>3, <1>4, <1>5, <1>6, <1>7, <1>8 DEF Inv

\* A call begins and notes what is complete.
LEMMA BeginStep ==
    ASSUME Inv, NEW f \in Flushers, Begin(f)
    PROVE  Inv'
<1>a. /\ TypeOK /\ ~broken /\ GateHeld /\ FlagsLoaded /\ DataOrdered
      /\ AnswersAwaited /\ CodeFlagged /\ PlainKept
  BY DEF Inv
<1>1. TypeOK'
  BY <1>a DEF Begin, TypeOK, Done, dataVars, flagVars, queueVars
<1>2. ~broken'
  BY <1>a DEF Begin, flagVars
<1>3. GateHeld'
  BY <1>a DEF Begin, GateHeld, Holding
<1>4. FlagsLoaded'
  BY <1>a DEF Begin, FlagsLoaded, LoadedFlags, flagVars
<1>5. DataOrdered'
  BY <1>a DEF Begin, DataOrdered, Done, dataVars, queueVars
<1>6. AnswersAwaited'
  BY <1>a DEF Begin, AnswersAwaited, Awaits, dataVars, queueVars
<1>7. CodeFlagged'
  BY <1>a DEF Begin, CodeFlagged, Stale, Plain, Done, dataVars, flagVars
<1>8. PlainKept'
  BY <1>a DEF Begin, PlainKept, WriteBackDue, Plain, Done, dataVars, flagVars,
     queueVars
<1> QED
  BY <1>1, <1>2, <1>3, <1>4, <1>5, <1>6, <1>7, <1>8 DEF Inv

\* The gate is taken and the flags loaded.
LEMMA LockAndLoadStep ==
    ASSUME Inv, NEW f \in Flushers, LockAndLoad(f)
    PROVE  Inv'
<1>a. /\ TypeOK /\ ~broken /\ GateHeld /\ FlagsLoaded /\ DataOrdered
      /\ AnswersAwaited /\ CodeFlagged /\ PlainKept
  BY DEF Inv
<1>1. TypeOK'
  BY <1>a DEF LockAndLoad, TypeOK, dataVars, flagVars, callVars, queueVars
<1>2. ~broken'
  BY <1>a DEF LockAndLoad, flagVars
<1>3. GateHeld'
  BY <1>a, WriteBackAssumption DEF LockAndLoad, GateHeld, Holding, TypeOK
<1>4. FlagsLoaded'
  BY <1>a DEF LockAndLoad, FlagsLoaded, LoadedFlags, TypeOK, flagVars
<1>5. DataOrdered'
  BY <1>a DEF LockAndLoad, DataOrdered, Done, dataVars, callVars, queueVars
<1>6. AnswersAwaited'
  BY <1>a DEF LockAndLoad, AnswersAwaited, Awaits, TypeOK, dataVars, callVars,
     queueVars
<1>7. CodeFlagged'
  BY <1>a DEF LockAndLoad, CodeFlagged, Stale, Plain, Done, TypeOK, dataVars,
     flagVars
<1>8. PlainKept'
  BY <1>a DEF LockAndLoad, PlainKept, WriteBackDue, Plain, Done, TypeOK,
     dataVars, flagVars, queueVars
<1> QED
  BY <1>1, <1>2, <1>3, <1>4, <1>5, <1>6, <1>7, <1>8 DEF Inv

\* The flags are moved from dirty to flushing.
LEMMA MarkStep ==
    ASSUME Inv, NEW f \in Flushers, Mark(f)
    PROVE  Inv'
<1>a. /\ TypeOK /\ ~broken /\ GateHeld /\ FlagsLoaded /\ DataOrdered
      /\ AnswersAwaited /\ CodeFlagged /\ PlainKept
  BY DEF Inv
<1>1. TypeOK'
  BY <1>a DEF Mark, TypeOK, dataVars, callVars, queueVars, Marked
<1>2. ~broken'
  BY <1>a DEF Mark, FlagsLoaded, LoadedFlags, Marked
<1>3. GateHeld'
  BY <1>a DEF Mark, GateHeld, Holding
<1>4. FlagsLoaded'
  BY <1>a DEF Mark, FlagsLoaded, LoadedFlags, GateHeld, Holding, TypeOK, Marked
<1>5. DataOrdered'
  BY <1>a DEF Mark, DataOrdered, Done, dataVars, flagVars, callVars, queueVars
<1>6. AnswersAwaited'
  BY <1>a DEF Mark, AnswersAwaited, Awaits, dataVars, callVars, queueVars
<1>7. CodeFlagged'
  BY <1>a DEF Mark, CodeFlagged, GateHeld, Holding, FlagsLoaded, LoadedFlags,
     TypeOK, Marked
<1>8. PlainKept'
  BY <1>a DEF Mark, PlainKept, WriteBackDue, FlagsLoaded, LoadedFlags, Marked
<1> QED
  BY <1>1, <1>2, <1>3, <1>4, <1>5, <1>6, <1>7, <1>8 DEF Inv

\* The translation is dropped.
LEMMA InvalidateStep ==
    ASSUME Inv, NEW f \in Flushers, Invalidate(f)
    PROVE  Inv'
<1>a. /\ TypeOK /\ ~broken /\ GateHeld /\ FlagsLoaded /\ DataOrdered
      /\ AnswersAwaited /\ CodeFlagged /\ PlainKept
  BY DEF Inv
<1>1. TypeOK'
  BY <1>a DEF Invalidate, TypeOK, flagVars, callVars, queueVars
<1>2. ~broken'
  BY <1>a, WriteBackAssumption DEF Invalidate, flagVars
<1>3. GateHeld'
  BY <1>a DEF Invalidate, GateHeld, Holding
<1>4. FlagsLoaded'
  BY <1>a DEF Invalidate, FlagsLoaded, LoadedFlags, flagVars
<1>5. DataOrdered'
  BY <1>a DEF Invalidate, DataOrdered, Done, callVars, queueVars
<1>6. AnswersAwaited'
  BY <1>a DEF Invalidate, AnswersAwaited, Awaits, callVars, queueVars
<1>7. CodeFlagged'
  BY DEF Invalidate, CodeFlagged, Stale
<1>8. PlainKept'
  BY <1>a DEF Invalidate, PlainKept, WriteBackDue, FlagsLoaded, LoadedFlags,
     flagVars
<1> QED
  BY <1>1, <1>2, <1>3, <1>4, <1>5, <1>6, <1>7, <1>8 DEF Inv

\* The gate is released with the flush flag still up.
LEMMA InvalidatePanicsStep ==
    ASSUME Inv, NEW f \in Flushers, InvalidatePanics(f)
    PROVE  Inv'
<1>a. /\ TypeOK /\ ~broken /\ GateHeld /\ FlagsLoaded /\ DataOrdered
      /\ AnswersAwaited /\ CodeFlagged /\ PlainKept
  BY DEF Inv
<1>1. TypeOK'
  BY <1>a DEF InvalidatePanics, TypeOK, dataVars, flagVars, callVars,
     queueVars, Free, NoCode
<1>2. ~broken'
  BY <1>a DEF InvalidatePanics, flagVars
<1>3. GateHeld'
  BY <1>a, WriteBackAssumption DEF InvalidatePanics, GateHeld, Holding, TypeOK
<1>4. FlagsLoaded'
  BY <1>a DEF InvalidatePanics, FlagsLoaded, LoadedFlags, GateHeld, Holding,
     TypeOK
<1>5. DataOrdered'
  BY <1>a DEF InvalidatePanics, DataOrdered, Done, dataVars, flagVars,
     callVars, queueVars, Free, NoCode
<1>6. AnswersAwaited'
  BY <1>a DEF InvalidatePanics, AnswersAwaited, Awaits, dataVars, flagVars,
     callVars, queueVars
<1>7. CodeFlagged'
  BY <1>a DEF InvalidatePanics, CodeFlagged, GateHeld, Holding, FlagsLoaded,
     LoadedFlags, flagVars
<1>8. PlainKept'
  BY <1>a DEF InvalidatePanics, PlainKept, WriteBackDue, FlagsLoaded,
     LoadedFlags, flagVars
<1> QED
  BY <1>1, <1>2, <1>3, <1>4, <1>5, <1>6, <1>7, <1>8 DEF Inv

\* The flush flag is cleared and the write-back is due.
LEMMA ClearStep ==
    ASSUME Inv, NEW f \in Flushers, Clear(f)
    PROVE  Inv'
<1>a. /\ TypeOK /\ ~broken /\ GateHeld /\ FlagsLoaded /\ DataOrdered
      /\ AnswersAwaited /\ CodeFlagged /\ PlainKept
  BY DEF Inv
<1>1. TypeOK'
  BY <1>a DEF Clear, TypeOK, dataVars, callVars, queueVars
<1>2. ~broken'
  BY <1>a DEF Clear, FlagsLoaded, LoadedFlags
<1>3. GateHeld'
  BY <1>a, WriteBackAssumption DEF Clear, GateHeld, Holding, TypeOK
<1>4. FlagsLoaded'
  BY <1>a DEF Clear, FlagsLoaded, LoadedFlags, GateHeld, Holding, TypeOK
<1>5. DataOrdered'
  BY <1>a DEF Clear, DataOrdered, Done, dataVars, callVars, queueVars
<1>6. AnswersAwaited'
  BY <1>a DEF Clear, AnswersAwaited, Awaits, dataVars, callVars, queueVars
<1>7. CodeFlagged'
  BY <1>a DEF Clear, CodeFlagged, Stale, Plain, Done, Holding, dataVars
<1>8. PlainKept'
  BY <1>a DEF Clear, PlainKept, WriteBackDue, LoadedFlags, TypeOK
<1> QED
  BY <1>1, <1>2, <1>3, <1>4, <1>5, <1>6, <1>7, <1>8 DEF Inv

\* The write-back is queued, with or without a callback.
LEMMA EnqueueStep ==
    ASSUME Inv, NEW f \in Flushers, Enqueue(f)
    PROVE  Inv'
<1>a. /\ TypeOK /\ ~broken /\ GateHeld /\ FlagsLoaded /\ DataOrdered
      /\ AnswersAwaited /\ CodeFlagged /\ PlainKept
  BY DEF Inv
<1>1. TypeOK'
  BY <1>a DEF Enqueue, TypeOK, dataVars, flagVars
<1>2. ~broken'
  BY <1>a DEF Enqueue, flagVars
<1>3. GateHeld'
  BY <1>a, WriteBackAssumption DEF Enqueue, GateHeld, Holding
<1>4. FlagsLoaded'
  BY <1>a DEF Enqueue, FlagsLoaded, LoadedFlags, flagVars
<1>5. DataOrdered'
  BY <1>a DEF Enqueue, DataOrdered, Done, dataVars
<1>6. AnswersAwaited'
  BY <1>a DEF Enqueue, AnswersAwaited, Awaits, TypeOK, dataVars
<1>7. CodeFlagged'
  BY <1>a DEF Enqueue, CodeFlagged, Stale, Plain, Done, dataVars, flagVars
<1>8. PlainKept'
  BY DEF Enqueue, PlainKept, WriteBackDue
<1> QED
  BY <1>1, <1>2, <1>3, <1>4, <1>5, <1>6, <1>7, <1>8 DEF Inv

\* The call ends.
LEMMA ReturnStep ==
    ASSUME Inv, NEW f \in Flushers, Return(f)
    PROVE  Inv'
<1>a. /\ TypeOK /\ ~broken /\ GateHeld /\ FlagsLoaded /\ DataOrdered
      /\ AnswersAwaited /\ CodeFlagged /\ PlainKept
  BY DEF Inv
<1>1. TypeOK'
  BY <1>a DEF Return, TypeOK, dataVars, flagVars, queueVars
<1>2. ~broken'
  BY <1>a DEF Return, flagVars
<1>3. GateHeld'
  BY <1>a DEF Return, GateHeld, Holding
<1>4. FlagsLoaded'
  BY <1>a DEF Return, FlagsLoaded, LoadedFlags, flagVars
<1>5. DataOrdered'
  BY <1>a DEF Return, DataOrdered, Done, dataVars, queueVars
<1>6. AnswersAwaited'
  BY <1>a DEF Return, AnswersAwaited, Awaits, TypeOK, dataVars, queueVars
<1>7. CodeFlagged'
  BY <1>a DEF Return, CodeFlagged, Stale, Plain, Done, dataVars, flagVars
<1>8. PlainKept'
  BY <1>a DEF Return, PlainKept, WriteBackDue, Plain, Done, dataVars, flagVars,
     queueVars
<1> QED
  BY <1>1, <1>2, <1>3, <1>4, <1>5, <1>6, <1>7, <1>8 DEF Inv

\* The worker begins a copy that has all the page holds.
LEMMA FaultOutBeginStep ==
    ASSUME Inv, FaultOutBegin
    PROVE  Inv'
<1>a. /\ TypeOK /\ ~broken /\ GateHeld /\ FlagsLoaded /\ DataOrdered
      /\ AnswersAwaited /\ CodeFlagged /\ PlainKept
  BY DEF Inv
<1>1. TypeOK'
  BY <1>a DEF FaultOutBegin, TypeOK, dataVars, flagVars, callVars
<1>2. ~broken'
  BY <1>a DEF FaultOutBegin, flagVars
<1>3. GateHeld'
  BY <1>a DEF FaultOutBegin, GateHeld
<1>4. FlagsLoaded'
  BY <1>a DEF FaultOutBegin, FlagsLoaded, LoadedFlags, flagVars
<1>5. DataOrdered'
  BY <1>a DEF FaultOutBegin, DataOrdered, Done, dataVars, callVars
<1>6. AnswersAwaited'
  BY <1>a DEF FaultOutBegin, AnswersAwaited, Awaits, DataOrdered, Done,
     dataVars, callVars
<1>7. CodeFlagged'
  BY <1>a DEF FaultOutBegin, CodeFlagged, Stale, Plain, Done, dataVars,
     flagVars
<1>8. PlainKept'
  BY <1>a DEF FaultOutBegin, PlainKept, Plain, Done, DataOrdered, dataVars
<1> QED
  BY <1>1, <1>2, <1>3, <1>4, <1>5, <1>6, <1>7, <1>8 DEF Inv

\* The copy is written and its callbacks answered.
LEMMA FaultOutOkStep ==
    ASSUME Inv, FaultOutOk
    PROVE  Inv'
<1>a. /\ TypeOK /\ ~broken /\ GateHeld /\ FlagsLoaded /\ DataOrdered
      /\ AnswersAwaited /\ CodeFlagged /\ PlainKept
  BY DEF Inv
<1>1. TypeOK'
  BY <1>a DEF FaultOutOk, TypeOK, flagVars, Copies
<1>2. ~broken'
  BY <1>a DEF FaultOutOk, flagVars
<1>3. GateHeld'
  BY <1>a DEF FaultOutOk, GateHeld
<1>4. FlagsLoaded'
  BY <1>a DEF FaultOutOk, FlagsLoaded, LoadedFlags, flagVars
<1>5. DataOrdered'
  BY <1>a DEF FaultOutOk, DataOrdered, Done, Copies
<1>6. AnswersAwaited'
  BY <1>a DEF FaultOutOk, AnswersAwaited, Awaits, DataOrdered, Copies
<1>7. CodeFlagged'
  BY <1>a DEF FaultOutOk, CodeFlagged, Stale, Plain, Done, flagVars
<1>8. PlainKept'
  BY <1>a DEF FaultOutOk, PlainKept, WriteBackDue, Plain, Done, DataOrdered,
     flagVars, Copies
<1> QED
  BY <1>1, <1>2, <1>3, <1>4, <1>5, <1>6, <1>7, <1>8 DEF Inv

\* The write fails and its callbacks are told.
LEMMA FaultOutErrStep ==
    ASSUME Inv, FaultOutErr
    PROVE  Inv'
<1>a. /\ TypeOK /\ ~broken /\ GateHeld /\ FlagsLoaded /\ DataOrdered
      /\ AnswersAwaited /\ CodeFlagged /\ PlainKept
  BY DEF Inv
<1>1. TypeOK'
  BY <1>a DEF FaultOutErr, TypeOK, flagVars, Copies
<1>2. ~broken'
  BY <1>a DEF FaultOutErr, flagVars
<1>3. GateHeld'
  BY <1>a DEF FaultOutErr, GateHeld
<1>4. FlagsLoaded'
  BY <1>a DEF FaultOutErr, FlagsLoaded, LoadedFlags, flagVars
<1>5. DataOrdered'
  BY <1>a DEF FaultOutErr, DataOrdered, Done, Copies
<1>6. AnswersAwaited'
  BY <1>a DEF FaultOutErr, AnswersAwaited, Awaits
<1>7. CodeFlagged'
  BY <1>a DEF FaultOutErr, CodeFlagged, Stale, Plain, Done, flagVars
<1>8. PlainKept'
  BY DEF FaultOutErr, PlainKept
<1> QED
  BY <1>1, <1>2, <1>3, <1>4, <1>5, <1>6, <1>7, <1>8 DEF Inv

LEMMA InitInv == Init => Inv
<1> SUFFICES ASSUME Init
             PROVE  Inv
  OBVIOUS
<1>1. TypeOK /\ ~broken
  BY WriteBackAssumption DEF Init, TypeOK
<1>2. Done = {} /\ Plain = {}
  BY DEF Init, Done, Plain
<1>3. GateHeld /\ FlagsLoaded
  BY WriteBackAssumption DEF Init, GateHeld, Holding, FlagsLoaded, LoadedFlags
<1>4. DataOrdered /\ AnswersAwaited
  BY DEF Init, DataOrdered, AnswersAwaited, Awaits
<1>5. CodeFlagged /\ PlainKept
  BY <1>2 DEF CodeFlagged, Stale, PlainKept
<1> QED
  BY <1>1, <1>3, <1>4, <1>5 DEF Inv

\* A step that changes nothing keeps the invariant.
LEMMA Stutter ==
    ASSUME Inv, UNCHANGED vars
    PROVE  Inv'
<1>1. TypeOK' /\ ~broken'
  BY DEF Inv, TypeOK, vars
<1>2. Done' = Done /\ Plain' = Plain
  BY DEF vars, Done, Plain
<1>3. GateHeld' /\ FlagsLoaded'
  BY DEF Inv, vars, GateHeld, FlagsLoaded, LoadedFlags
<1>4. DataOrdered' /\ AnswersAwaited'
  BY <1>2 DEF Inv, vars, DataOrdered, AnswersAwaited, Awaits
<1>5. CodeFlagged' /\ PlainKept'
  BY <1>2 DEF Inv, vars, CodeFlagged, Stale, PlainKept, WriteBackDue
<1> QED
  BY <1>1, <1>3, <1>4, <1>5 DEF Inv

-----------------------------------------------------------------------------
(* The theorems *)

\* The invariant is inductive: it holds in every state the flushers, the stores,
\* the translator and the worker reach, for every number of each.
THEOREM Invariance == Spec => []Inv
<1>1. Inv /\ [Next]_vars => Inv'
  <2> SUFFICES ASSUME Inv, [Next]_vars
               PROVE  Inv'
    OBVIOUS
  <2>1. CASE \E s \in Stores : StoreBytes(s) \/ SetDirty(s)
    BY <2>1, StoreBytesStep, SetDirtyStep
  <2>2. CASE Translate
    BY <2>2, TranslateStep
  <2>3. CASE \E f \in Flushers : Begin(f) \/ Flusher(f)
    BY <2>3, BeginStep, LockAndLoadStep, MarkStep, InvalidateStep,
       InvalidatePanicsStep, ClearStep, EnqueueStep, ReturnStep DEF Flusher
  <2>4. CASE Worker
    BY <2>4, FaultOutBeginStep, FaultOutOkStep, FaultOutErrStep DEF Worker
  <2>5. CASE UNCHANGED vars
    BY <2>5, Stutter
  <2> QED
    BY <2>1, <2>2, <2>3, <2>4, <2>5 DEF Next
<1> QED
  BY <1>1, InitInv, PTL DEF Spec

\* The state is well typed.
THEOREM TypeCorrect == Spec => []TypeOK
<1>1. Inv => TypeOK
  BY DEF Inv
<1> QED
  BY <1>1, Invariance, PTL

\* flush_dyn never finds the flags other than it left them: neither of its
\* exclusive_access_error assertions can fire, whoever panicked before.
THEOREM FlagsAlwaysExclusive == Spec => []FlagsExclusive
<1>1. Inv => FlagsExclusive
  BY DEF Inv, FlagsExclusive
<1> QED
  BY <1>1, Invariance, PTL

\* A flush that IoMMU::flush has been answered for with success is durable.
THEOREM AnsweredFlushesDurable == Spec => []FlushAnswered
<1>1. Inv => FlushAnswered
  BY DEF Inv, AnswersAwaited, Awaits, FlushAnswered
<1> QED
  BY <1>1, Invariance, PTL

\* No completed store that set the dirty flag is lost between the page and the
\* memory object, whatever strex does to the same page.
THEOREM PlainStoresKept == Spec => []PlainKept
<1>1. Inv => PlainKept
  BY DEF Inv
<1> QED
  BY <1>1, Invariance, PTL

\* No completed store is lost where none is made by strex, whose helper writes
\* the page past the functions that set the dirty flag.
THEOREM NoStoreLost ==
    ASSUME Exclusive = {}
    PROVE  Spec => []NoLostStore
<1>1. Inv => NoLostStore
  BY DEF Inv, PlainKept, Plain, NoLostStore
<1> QED
  BY <1>1, Invariance, PTL

\* No translation survives without a completed store unless the flags still ask
\* for its invalidation, where no store is made by strex.
THEOREM CodeNeverStale ==
    ASSUME Exclusive = {}
    PROVE  Spec => []NoStaleCode
<1>1. Inv => NoStaleCode
  BY DEF Inv, CodeFlagged, Stale, Plain, NoStaleCode
<1> QED
  BY <1>1, Invariance, PTL

=============================================================================
