----------------------- MODULE PeriodicDriverProofs -----------------------
(***************************************************************************)
(* The two drivers that run without being called: the timer's callback and *)
(* the display's thread.                                                   *)
(*                                                                         *)
(* The timer driver, for any finite number of processes, any number of     *)
(* LEDs and any periods: the reference count is exact and keeps rmmod out, *)
(* -EBUSY always has a reason, no LED changes before the first             *)
(* TIMER_START, a stop that finds no callback running holds, and an        *)
(* undisturbed callback inverts what it has shown.  Each property is       *)
(* inductive with the typing, except the last one, which needs what the    *)
(* callback has done so far (BlinkInv).                                    *)
(*                                                                         *)
(* The display, for any number of positions: at most one of them is lit,   *)
(* and none after an unload.  The scan forgets the position before the one *)
(* it lights; the invariant says, for every step of the scan, which one    *)
(* may be lit then (ScanInv).                                              *)
(***************************************************************************)
EXTENDS KernelTimer, FndDev, TLAPS, FiniteSetTheorems

\* kerneltimer_func() shows the bits before cbBit, then inverts, then stores.
BlinkInv ==
  ~disturbed =>
    /\ cb = "out" => \A b \in Bits : b < cbBit => (b \in led <=> b \in ledVal)
    /\ cb = "invert" => ledVal = led
    /\ cb = "store" => ledVal = led /\ cbVal = Bits \ led
    /\ cb \in {"period", "rearm"} => ledVal = Bits \ led

StopInv == NoBlinkBeforeStart /\ StopHolds

OpenInv == ReferenceSafe /\ FlagHasOwner

IInv == TypeOK /\ StopInv /\ BlinkInv /\ OpenInv

References == {u \in Users : HasReference(u)}

-----------------------------------------------------------------------------
(* The invariant holds at load time.                                       *)

LEMMA BitFacts ==
  /\ GPIOCNT \in Nat /\ 1 \in Bits /\ GPIOCNT \in Bits
  /\ \A b \in Bits : b \in Nat /\ b <= GPIOCNT
  /\ \A b \in Bits : b # GPIOCNT => b + 1 \in Bits
BY GpioAssumption DEF Bits

LEMMA PeriodFacts == 0 \notin Periods /\ InitialPeriod \in Periods
BY PeriodAssumption

LEMMA ReferencesFinite == IsFiniteSet(References)
BY UserAssumption, FS_Subset DEF References

LEMMA InitInv == Init => IInv
<1> SUFFICES ASSUME Init PROVE IInv
  OBVIOUS
<1>1. TypeOK
  BY BitFacts, PeriodFacts
     DEF Init, TypeOK, UserLabels, CallbackLabels, ModuleStates
<1>2. StopInv /\ BlinkInv
  BY DEF Init, StopInv, NoBlinkBeforeStart, StopHolds, BlinkInv
<1>3. References = {}
  BY DEF Init, References, HasReference
<1>4. RefcountMatches
  BY <1>3, FS_EmptySet DEF Init, RefcountMatches, References
<1>5. OpenInv
  BY <1>4 DEF Init, OpenInv, ReferenceSafe, ReferenceGuardsUnload, FlagHasOwner
<1> QED
  BY <1>1, <1>2, <1>5 DEF IInv

-----------------------------------------------------------------------------
(* The system calls of one process.                                        *)

\* A process that keeps its reference, or keeps having none, keeps the count.
LEMMA SameReferences ==
  ASSUME NEW u \in Users, TypeOK, OpenInv, NEW to \in UserLabels,
         upc' = [upc EXCEPT ![u] = to],
         upc[u] \in {"opened", "start", "put"} <=> to \in {"opened", "start", "put"},
         UNCHANGED <<refcnt, moduleState>>
  PROVE  ReferenceSafe'
<1>1. \A w \in Users : HasReference(w)' <=> HasReference(w)
  BY DEF TypeOK, HasReference
<1>2. References' = References
  BY <1>1 DEF References
<1> QED
  BY <1>1, <1>2 DEF OpenInv, ReferenceSafe, RefcountMatches, ReferenceGuardsUnload,
                    References

\* try_module_get() adds one reference and is granted to a live module only.
LEMMA GetReference ==
  ASSUME NEW u \in Users, TypeOK, OpenInv, OpenGet(u) PROVE ReferenceSafe'
<1>1. \A w \in Users : HasReference(w)' <=> HasReference(w) \/ w = u
  BY DEF TypeOK, HasReference, OpenGet, UserStep
<1>2. References' = References \cup {u} /\ u \notin References
  BY <1>1 DEF References, HasReference, OpenGet, UserStep
<1>3. Cardinality(References') = Cardinality(References) + 1
  BY <1>2, ReferencesFinite, FS_AddElement
<1>4. refcnt = Cardinality(References) /\ refcnt' = refcnt + 1
  BY DEF OpenInv, ReferenceSafe, RefcountMatches, References, OpenGet
<1>5. RefcountMatches'
  BY <1>3, <1>4 DEF RefcountMatches, References
<1>6. ReferenceGuardsUnload'
  BY DEF ReferenceGuardsUnload, OpenGet
<1> QED
  BY <1>5, <1>6 DEF ReferenceSafe

\* module_put() gives back the one the process has.
LEMMA PutReference ==
  ASSUME NEW u \in Users, TypeOK, OpenInv, ReleasePut(u)
  PROVE  ReferenceSafe' /\ refcnt' \in Nat
<1>1. \A w \in Users : HasReference(w)' <=> HasReference(w) /\ w # u
  BY DEF TypeOK, HasReference, ReleasePut, UserStep
<1>2. References' = References \ {u} /\ u \in References
  BY <1>1 DEF References, HasReference, ReleasePut, UserStep
<1>3. Cardinality(References') = Cardinality(References) - 1
  BY <1>2, ReferencesFinite, FS_RemoveElement
<1>4. refcnt = Cardinality(References) /\ refcnt' = refcnt - 1
  BY DEF OpenInv, ReferenceSafe, RefcountMatches, References, ReleasePut
<1>5. Cardinality(References') \in Nat
  BY <1>2, ReferencesFinite, FS_RemoveElement, FS_CardinalityType
<1>6. RefcountMatches' /\ refcnt' \in Nat
  BY <1>3, <1>4, <1>5 DEF RefcountMatches, References
<1>7. ReferenceGuardsUnload'
  BY <1>1 DEF OpenInv, ReferenceSafe, ReferenceGuardsUnload, ReleasePut
<1> QED
  BY <1>6, <1>7 DEF ReferenceSafe

LEMMA OpenStep ==
  ASSUME NEW u \in Users, IInv,
         OpenTest(u) \/ OpenSet(u) \/ OpenGet(u) \/ OpenNoDevice(u)
  PROVE  IInv'
<1> USE DEF UserStep, opening, callback, history
<1>1. CASE OpenGet(u)
  <2>1. TypeOK'
    BY <1>1 DEF IInv, TypeOK, OpenGet, UserLabels
  <2>2. StopInv' /\ BlinkInv'
    BY <1>1 DEF IInv, StopInv, NoBlinkBeforeStart, StopHolds, BlinkInv, OpenGet
  <2>3. FlagHasOwner'
    BY <1>1 DEF IInv, TypeOK, FlagHasOwner, OpenGet
  <2> QED
    BY <1>1, <2>1, <2>2, <2>3, GetReference DEF IInv, OpenInv
<1>2. CASE OpenTest(u) \/ OpenSet(u) \/ OpenNoDevice(u)
  <2>1. TypeOK'
    BY <1>2 DEF IInv, TypeOK, OpenTest, OpenSet, OpenNoDevice, UserLabels
  <2>2. StopInv' /\ BlinkInv'
    BY <1>2 DEF IInv, StopInv, NoBlinkBeforeStart, StopHolds, BlinkInv, OpenTest,
                OpenSet, OpenNoDevice
  <2>3. FlagHasOwner'
    BY <1>2 DEF IInv, TypeOK, OpenInv, FlagHasOwner, OpenTest, OpenSet, OpenNoDevice
  <2>4. ReferenceSafe'
    <3>1. PICK to \in {"closed", "open_set", "open_get"} :
            upc' = [upc EXCEPT ![u] = to]
      BY <1>2 DEF OpenTest, OpenSet, OpenNoDevice
    <3>2. upc[u] \notin {"opened", "start", "put"}
          /\ UNCHANGED <<refcnt, moduleState>>
      BY <1>2 DEF OpenTest, OpenSet, OpenNoDevice
    <3> QED
      BY <3>1, <3>2, SameReferences DEF IInv, UserLabels
  <2> QED
    BY <2>1, <2>2, <2>3, <2>4 DEF IInv, OpenInv
<1> QED
  BY <1>1, <1>2

\* What neither the timer nor the LEDs nor the callback take part in.
LEMMA BlinkKept ==
  StopInv /\ BlinkInv /\ UNCHANGED <<timer, ledVal, led, callback, history>>
    => StopInv' /\ BlinkInv'
BY DEF StopInv, NoBlinkBeforeStart, StopHolds, BlinkInv, callback, history

\* del_timer(): the stop is quiet if no callback is running.
LEMMA DelTimerStops ==
  ASSUME IInv, DelTimer, UNCHANGED <<ledVal, led, callback, started, disturbed>>
  PROVE  /\ StopInv' /\ BlinkInv'
         /\ timer' = 0 /\ quiet' \in BOOLEAN /\ stopped' \in BOOLEAN
<1>1. timer' = 0 /\ cb' = cb /\ (quiet' => cb = "idle")
      /\ quiet' \in BOOLEAN /\ stopped' \in BOOLEAN
  <2>1. timer' = 0 /\ cb' = cb
    BY DEF DelTimer, callback
  <2>2. (quiet' => cb = "idle") /\ quiet' \in BOOLEAN /\ stopped' \in BOOLEAN
    BY Zenon DEF DelTimer
  <2> QED
    BY <2>1, <2>2
<1>2. NoBlinkBeforeStart' /\ StopHolds'
  BY <1>1 DEF IInv, StopInv, NoBlinkBeforeStart, StopHolds
<1>3. BlinkInv'
  BY DEF IInv, BlinkInv, callback
<1> QED
  BY <1>1, <1>2, <1>3 DEF StopInv

LEMMA ReleaseStep ==
  ASSUME NEW u \in Users, IInv,
         ReleaseTimer(u) \/ ReleasePut(u) \/ ReleaseClear(u)
  PROVE  IInv'
<1> USE DEF UserStep, opening, callback, history
<1>1. StopInv' /\ BlinkInv'
  <2>1. CASE ReleaseTimer(u)
    BY <2>1, DelTimerStops DEF ReleaseTimer
  <2>2. CASE ReleasePut(u) \/ ReleaseClear(u)
    BY <2>2, BlinkKept DEF IInv, ReleasePut, ReleaseClear
  <2> QED
    BY <2>1, <2>2
<1>2. FlagHasOwner'
  BY DEF IInv, TypeOK, OpenInv, FlagHasOwner, ReleaseTimer, ReleasePut, ReleaseClear
<1>3. CASE ReleasePut(u)
  <2>1. ReferenceSafe' /\ refcnt' \in Nat
    BY <1>3, PutReference DEF IInv
  <2>2. TypeOK'
    BY <1>3, <2>1 DEF IInv, TypeOK, ReleasePut, UserLabels
  <2> QED
    BY <1>1, <1>2, <2>1, <2>2 DEF IInv, OpenInv
<1>4. CASE ReleaseTimer(u) \/ ReleaseClear(u)
  <2>1. TypeOK'
    <3>1. CASE ReleaseTimer(u)
      <4>1. timer' = 0 /\ quiet' \in BOOLEAN /\ stopped' \in BOOLEAN
        BY <3>1, DelTimerStops DEF ReleaseTimer
      <4> QED
        BY <3>1, <4>1 DEF IInv, TypeOK, ReleaseTimer, UserLabels
    <3>2. CASE ReleaseClear(u)
      BY <3>2 DEF IInv, TypeOK, ReleaseClear, UserLabels
    <3> QED
      BY <1>4, <3>1, <3>2
  <2>2. ReferenceSafe'
    <3>1. CASE ReleaseTimer(u)
      BY <3>1, SameReferences DEF IInv, ReleaseTimer, UserLabels
    <3>2. CASE ReleaseClear(u)
      BY <3>2, SameReferences DEF IInv, ReleaseClear, UserLabels
    <3> QED
      BY <1>4, <3>1, <3>2
  <2> QED
    BY <1>1, <1>2, <2>1, <2>2 DEF IInv, OpenInv
<1> QED
  BY <1>3, <1>4

LEMMA ControlStep ==
  ASSUME NEW u \in Users, IInv,
         \/ StartRead(u) \/ StartArm(u) \/ TimerStop(u)
         \/ \E p \in Periods : TimerValue(u, p)
         \/ \E b \in Patterns : Write(u, b)
  PROVE  IInv'
<1> USE DEF UserStep, opening, callback, history
<1>1. PICK to \in {"opened", "start"} :
        /\ upc' = [upc EXCEPT ![u] = to] /\ upc[u] \in {"opened", "start"}
        /\ UNCHANGED <<opening, moduleState>>
  BY DEF StartRead, StartArm, TimerStop, TimerValue, Write
<1>2. ReferenceSafe'
  BY <1>1, SameReferences DEF IInv, UserLabels
<1>3. FlagHasOwner'
  BY <1>1 DEF IInv, TypeOK, OpenInv, FlagHasOwner
<1>4. TypeOK' /\ StopInv' /\ BlinkInv'
  <2>1. CASE TimerStop(u)
    <3>1. /\ StopInv' /\ BlinkInv'
          /\ timer' = 0 /\ quiet' \in BOOLEAN /\ stopped' \in BOOLEAN
      BY <2>1, DelTimerStops DEF TimerStop
    <3>2. TypeOK'
      BY <2>1, <3>1 DEF IInv, TypeOK, TimerStop, UserLabels
    <3> QED
      BY <3>1, <3>2
  <2>2. CASE StartArm(u)
    <3>1. TypeOK'
      BY <2>2 DEF IInv, TypeOK, StartArm, UserLabels
    <3>2. StopInv' /\ BlinkInv'
      BY <2>2 DEF IInv, StopInv, NoBlinkBeforeStart, StopHolds, BlinkInv, StartArm
    <3> QED
      BY <3>1, <3>2
  <2>3. CASE StartRead(u) \/ \E p \in Periods : TimerValue(u, p)
    <3>1. TypeOK'
      BY <2>3 DEF IInv, TypeOK, StartRead, TimerValue, UserLabels
    <3>2. StopInv' /\ BlinkInv'
      BY <2>3, BlinkKept DEF IInv, StartRead, TimerValue
    <3> QED
      BY <3>1, <3>2
  <2>4. CASE \E b \in Patterns : Write(u, b)
    <3>1. TypeOK'
      BY <2>4, PatternAssumption DEF IInv, TypeOK, Write, UserLabels
    <3>2. StopInv' /\ BlinkInv'
      BY <2>4 DEF IInv, StopInv, NoBlinkBeforeStart, StopHolds, BlinkInv, Write
    <3> QED
      BY <3>1, <3>2
  <2> QED
    BY <2>1, <2>2, <2>3, <2>4
<1> QED
  BY <1>2, <1>3, <1>4 DEF IInv, OpenInv

-----------------------------------------------------------------------------
(* The timer, its callback and the module's exit.                          *)

\* What leaves the processes, the count and the module alone.
LEMMA OpenKept ==
  OpenInv /\ UNCHANGED <<opening, moduleState, upc>> => OpenInv'
<1> SUFFICES ASSUME OpenInv, UNCHANGED <<opening, moduleState, upc>> PROVE OpenInv'
  OBVIOUS
<1>1. \A w \in Users : HasReference(w)' <=> HasReference(w)
  BY DEF HasReference
<1>2. References' = References
  BY <1>1 DEF References
<1> QED
  BY <1>1, <1>2 DEF opening, OpenInv, ReferenceSafe, RefcountMatches,
                    ReferenceGuardsUnload, FlagHasOwner, References

LEMMA CallbackInv ==
  ASSUME IInv, Expire \/ kerneltimer_func PROVE IInv'
<1> USE DEF CallbackStep
<1>1. OpenInv'
  BY OpenKept DEF IInv, Expire, kerneltimer_func, CallbackOut, CallbackInvert,
                  CallbackStore, CallbackPeriod, CallbackRearm
<1>2. StopInv'
  BY DEF IInv, StopInv, NoBlinkBeforeStart, StopHolds, history, Expire,
         kerneltimer_func, CallbackOut, CallbackInvert, CallbackStore, CallbackPeriod,
         CallbackRearm
<1>3. CASE CallbackOut
  <2>1. TypeOK'
    <3>1. cb' \in CallbackLabels /\ cbBit' \in Bits /\ led' \subseteq Bits
      BY <1>3, BitFacts DEF IInv, TypeOK, CallbackOut, CallbackLabels
    <3> QED
      BY <1>3, <3>1 DEF IInv, TypeOK, CallbackOut, opening, history
  <2>2. BlinkInv'
    <3> SUFFICES ASSUME ~disturbed
                 PROVE  /\ cb' = "out" => \A b \in Bits :
                                            b < cbBit' => (b \in led' <=> b \in ledVal)
                        /\ cb' = "invert" => ledVal = led'
      BY <1>3 DEF BlinkInv, CallbackOut, history
    <3>1. \A b \in Bits : b < cbBit => (b \in led <=> b \in ledVal)
      BY <1>3 DEF IInv, BlinkInv, CallbackOut
    <3>2. cbBit \in Bits /\ led \subseteq Bits /\ ledVal \subseteq Bits
          /\ led' = IF cbBit \in ledVal THEN led \cup {cbBit} ELSE led \ {cbBit}
      BY <1>3 DEF IInv, TypeOK, CallbackOut
    <3>3. \A b \in Bits : b <= cbBit => (b \in led' <=> b \in ledVal)
      <4> SUFFICES ASSUME NEW b \in Bits, b <= cbBit
                   PROVE  b \in led' <=> b \in ledVal
        OBVIOUS
      <4>1. CASE b = cbBit
        BY <4>1, <3>2
      <4>2. CASE b # cbBit
        <5>1. b < cbBit
          BY <4>2, <3>2, BitFacts
        <5> QED
          BY <4>2, <5>1, <3>1, <3>2
      <4> QED
        BY <4>1, <4>2
    <3>4. CASE cbBit = GPIOCNT
      <4>1. \A b \in Bits : b \in led' <=> b \in ledVal
        BY <3>3, <3>4, BitFacts
      <4>2. led' \subseteq Bits
        BY <3>2
      <4>3. ledVal = led' /\ cb' = "invert"
        BY <1>3, <3>2, <3>4, <4>1, <4>2 DEF CallbackOut
      <4> QED
        BY <4>3
    <3>5. CASE cbBit # GPIOCNT
      <4>1. cb' = "out" /\ cbBit' = cbBit + 1
        BY <1>3, <3>5 DEF CallbackOut
      <4>2. \A b \in Bits : b < cbBit' => b <= cbBit
        BY <4>1, <3>2, BitFacts
      <4> QED
        BY <4>1, <4>2, <3>3
    <3> QED
      BY <3>4, <3>5
  <2> QED
    BY <1>1, <1>2, <2>1, <2>2 DEF IInv
<1>4. CASE Expire \/ CallbackInvert \/ CallbackStore \/ CallbackPeriod \/ CallbackRearm
  <2>1. TypeOK'
    BY <1>4, BitFacts DEF IInv, TypeOK, Expire, CallbackInvert, CallbackStore,
                          CallbackPeriod, CallbackRearm, opening, history,
                          CallbackLabels
  <2>2. BlinkInv'
    <3>1. CASE Expire
      BY <3>1, BitFacts DEF BlinkInv, Expire, Bits
    <3>2. CASE CallbackInvert \/ CallbackStore
      BY <3>2 DEF IInv, BlinkInv, CallbackInvert, CallbackStore, history
    <3>3. CASE CallbackPeriod \/ CallbackRearm
      BY <3>3 DEF IInv, BlinkInv, CallbackPeriod, CallbackRearm, history
    <3> QED
      BY <1>4, <3>1, <3>2, <3>3
  <2> QED
    BY <1>1, <1>2, <2>1, <2>2 DEF IInv
<1> QED
  BY <1>3, <1>4 DEF kerneltimer_func

\* A module leaves "live" only without references, and no exit step undoes that.
LEMMA ExitInv == ASSUME IInv, Rmmod \/ kerneltimer_exit PROVE IInv'
<1> USE DEF ExitStep, opening, callback
<1>1. TypeOK' /\ StopInv' /\ BlinkInv'
  <2>1. CASE ExitDelTimer
    <3>1. /\ StopInv' /\ BlinkInv'
          /\ timer' = 0 /\ quiet' \in BOOLEAN /\ stopped' \in BOOLEAN
      BY <2>1, DelTimerStops DEF ExitDelTimer
    <3>2. TypeOK'
      BY <2>1, <3>1 DEF IInv, TypeOK, ExitDelTimer, ModuleStates
    <3> QED
      BY <3>1, <3>2
  <2>2. CASE \/ Rmmod \/ ExitUnregister \/ ExitTimerPending
             \/ ExitTimerNotPending \/ ExitFreeLeds \/ ExitDone
    <3>1. TypeOK'
      BY <2>2 DEF IInv, TypeOK, Rmmod, ExitUnregister, ExitTimerPending,
                  ExitTimerNotPending, ExitFreeLeds, ExitDone, ModuleStates
    <3>2. StopInv' /\ BlinkInv'
      BY <2>2, BlinkKept
         DEF IInv, Rmmod, ExitUnregister, ExitTimerPending, ExitTimerNotPending,
             ExitFreeLeds, ExitDone, history
    <3> QED
      BY <3>1, <3>2
  <2> QED
    BY <2>1, <2>2 DEF kerneltimer_exit
<1>2. moduleState' # "live" /\ UNCHANGED <<openFlag, refcnt, upc>>
      /\ (moduleState = "live" => refcnt = 0)
  BY DEF Rmmod, kerneltimer_exit, ExitUnregister, ExitTimerPending,
         ExitTimerNotPending, ExitDelTimer, ExitFreeLeds, ExitDone
<1>3. References = {}
  <2>1. CASE moduleState = "live"
    BY <1>2, <2>1, ReferencesFinite, FS_EmptySet
       DEF IInv, OpenInv, ReferenceSafe, RefcountMatches, References
  <2>2. CASE moduleState # "live"
    BY <2>2 DEF IInv, OpenInv, ReferenceSafe, ReferenceGuardsUnload, References
  <2> QED
    BY <2>1, <2>2
<1>4. \A w \in Users : HasReference(w)' <=> HasReference(w)
  BY <1>2 DEF HasReference
<1>5. References' = References
  BY <1>4 DEF References
<1>6. ReferenceSafe'
  BY <1>2, <1>3, <1>4, <1>5 DEF IInv, OpenInv, ReferenceSafe, RefcountMatches,
                                ReferenceGuardsUnload, References
<1>7. FlagHasOwner'
  BY <1>2 DEF FlagHasOwner
<1> QED
  BY <1>1, <1>6, <1>7 DEF IInv, OpenInv

LEMMA NextStep == IInv /\ [Next]_vars => IInv'
<1> SUFFICES ASSUME IInv, [Next]_vars PROVE IInv'
  OBVIOUS
<1>1. CASE UNCHANGED vars
  <2>1. OpenInv'
    BY <1>1, OpenKept DEF IInv, vars
  <2>2. TypeOK' /\ StopInv' /\ BlinkInv'
    BY <1>1 DEF IInv, TypeOK, StopInv, NoBlinkBeforeStart, StopHolds, BlinkInv, vars,
                opening, callback, history
  <2> QED
    BY <2>1, <2>2 DEF IInv
<1>2. CASE UserNext
  BY <1>2, OpenStep, ReleaseStep, ControlStep DEF UserNext
<1>3. CASE Expire \/ kerneltimer_func
  BY <1>3, CallbackInv
<1>4. CASE Rmmod \/ kerneltimer_exit
  BY <1>4, ExitInv
<1> QED
  BY <1>1, <1>2, <1>3, <1>4 DEF Next

LEMMA Inductive == Spec => []IInv
<1> QED
  BY InitInv, NextStep, PTL DEF Spec

-----------------------------------------------------------------------------
(* The properties.                                                         *)

\* Every variable of the driver keeps its type, whatever the processes, the timer
\* and rmmod do.
THEOREM Typing == Spec => []TypeOK
<1>1. IInv => TypeOK
  BY DEF IInv
<1> QED
  BY <1>1, Inductive, PTL

\* kerneltimer_open() and kerneltimer_release(): the module's count is exact for
\* any number of overlapping opens and closes, and rmmod never passes a user.
THEOREM CountIsExact == Spec => []ReferenceSafe
<1>1. IInv => ReferenceSafe
  BY DEF IInv, OpenInv
<1> QED
  BY <1>1, Inductive, PTL

\* kerneltimer_open(): while the module is live, -EBUSY always has a reason.
THEOREM BusyHasReason == Spec => []FlagHasOwner
<1>1. IInv => FlagHasOwner
  BY DEF IInv, OpenInv
<1> QED
  BY <1>1, Inductive, PTL

\* kerneltimer_dev.c:331: no timer, no callback and no lit LED before TIMER_START.
THEOREM DarkBeforeStart == Spec => []NoBlinkBeforeStart
<1>1. IInv => NoBlinkBeforeStart
  BY DEF IInv, StopInv
<1> QED
  BY <1>1, Inductive, PTL

\* del_timer() of a stop, a release or the exit holds when no callback was running.
THEOREM QuietStopHolds == Spec => []StopHolds
<1>1. IInv => StopHolds
  BY DEF IInv, StopInv
<1> QED
  BY <1>1, Inductive, PTL

\* kerneltimer_func(): without a write in between, ledVal is the inverse of the LEDs.
THEOREM Blinks == Spec => []BlinkInverts
<1>1. IInv => BlinkInverts
  BY DEF IInv, BlinkInv, BlinkInverts
<1> QED
  BY <1>1, Inductive, PTL

-----------------------------------------------------------------------------
(* The display.                                                            *)

\* Of the select lines the driver holds only these may be low.
LitOnly(positions) == \A p \in selHeld : level[p] = 0 => p \in positions

FndTypeOK ==
  /\ mod \in {"out", "requested", "running", "live", "stopping"}
  /\ thread \in {"none", "new", "unselect", "select", "number", "delay"}
  /\ i \in Positions
  /\ level \in [Positions -> {0, 1}]
  /\ selHeld \subseteq Positions

\* kthread_stop() is called by exit only; init has no thread before kthread_run().
ThreadLife ==
  /\ should_stop => mod = "stopping"
  /\ mod = "requested" => thread = "none"

ScanInv ==
  /\ thread = "none" => LitOnly(IF mod = "stopping" THEN {SELCNT - 1} ELSE {})
  /\ thread = "new" => i = 0 /\ LitOnly({})
  /\ thread = "unselect" => LitOnly({Previous})
  /\ thread = "select" => LitOnly({})
  /\ thread \in {"number", "delay"} => LitOnly({i})

Dark == \A p \in Positions : level[p] = 1
AfterExit ==
  unloaded => /\ mod = "out" /\ Dark
              /\ thread = "none" /\ ~node
              /\ selHeld = {} /\ dataHeld = {}

FndInv == FndTypeOK /\ ThreadLife /\ ScanInv /\ AfterExit

-----------------------------------------------------------------------------
(* The scan and the kernel's side, step by step.                           *)

LEMMA PositionFacts ==
  /\ SELCNT \in Nat /\ SELCNT > 1
  /\ 0 \in Positions /\ SELCNT - 1 \in Positions
  /\ \A p \in Positions : p \in Nat /\ p < SELCNT
  /\ \A p \in Positions : p < SELCNT - 1 => p + 1 \in Positions
  /\ \A p \in Positions : p >= SELCNT - 1 => p = SELCNT - 1
BY CountAssumption DEF Positions

LEMMA FndInitInv == FndInit => FndInv
<1> SUFFICES ASSUME FndInit PROVE FndInv
  OBVIOUS
<1>1. FndTypeOK /\ ThreadLife
  BY PositionFacts DEF FndInit, FndTypeOK, ThreadLife
<1>2. ScanInv
  BY DEF FndInit, ScanInv, LitOnly
<1>3. AfterExit
  BY DEF FndInit, AfterExit
<1> QED
  BY <1>1, <1>2, <1>3 DEF FndInv

LEMMA ScanStep == FndInv /\ Scan => FndInv'
<1> SUFFICES ASSUME FndInv, Scan PROVE FndInv'
  OBVIOUS
<1>1. CASE ScanStart
  <2>1. FndTypeOK' /\ ThreadLife'
    BY <1>1 DEF FndInv, FndTypeOK, ThreadLife, ScanStart, ScanAt, loadVars
  <2>2. ScanInv'
    BY <1>1 DEF FndInv, FndTypeOK, ThreadLife, ScanInv, LitOnly, Previous, ScanStart,
                ScanAt, loadVars
  <2>3. AfterExit'
    BY <1>1 DEF FndInv, AfterExit, ScanStart, ScanAt, loadVars
  <2> QED
    BY <2>1, <2>2, <2>3 DEF FndInv
<1>2. CASE ScanUnselect
  <2>1. FndTypeOK' /\ ThreadLife'
    BY <1>2 DEF FndInv, FndTypeOK, ThreadLife, ScanUnselect, ScanAt, loadVars
  <2>2. ScanInv'
    BY <1>2 DEF FndInv, FndTypeOK, ScanInv, LitOnly, ScanUnselect, ScanAt, loadVars
  <2>3. AfterExit'
    BY <1>2 DEF FndInv, AfterExit, ScanUnselect, ScanAt, loadVars
  <2> QED
    BY <2>1, <2>2, <2>3 DEF FndInv
<1>3. CASE ScanSelect
  <2>1. FndTypeOK' /\ ThreadLife'
    BY <1>3 DEF FndInv, FndTypeOK, ThreadLife, ScanSelect, ScanAt, loadVars
  <2>2. ScanInv'
    BY <1>3 DEF FndInv, FndTypeOK, ScanInv, LitOnly, ScanSelect, ScanAt, loadVars
  <2>3. AfterExit'
    BY <1>3 DEF FndInv, AfterExit, ScanSelect, ScanAt, loadVars
  <2> QED
    BY <2>1, <2>2, <2>3 DEF FndInv
<1>4. CASE ScanNumber
  BY <1>4 DEF FndInv, FndTypeOK, ThreadLife, ScanInv, LitOnly, AfterExit, ScanNumber,
              ScanAt, loadVars
<1>5. CASE ScanDelay
  <2>1. FndTypeOK' /\ ThreadLife'
    BY <1>5, PositionFacts DEF FndInv, FndTypeOK, ThreadLife, ScanDelay, ScanAt, loadVars
  <2>2. ScanInv'
    <3>1. LitOnly({i}) /\ i \in Positions /\ selHeld' = selHeld /\ level' = level
          /\ mod' = mod
      BY <1>5 DEF FndInv, FndTypeOK, ScanInv, ScanDelay, ScanAt, loadVars
    <3>2. CASE i < SELCNT - 1
      <4>1. thread' = "unselect" /\ i' = i + 1 /\ i' # 0
        BY <1>5, <3>1, <3>2, PositionFacts DEF ScanDelay
      <4>2. Previous' = i
        BY <4>1, <3>1, PositionFacts DEF Previous
      <4> QED
        BY <4>1, <4>2, <3>1 DEF ScanInv, LitOnly
    <3>3. CASE ~(i < SELCNT - 1)
      <4>1. i = SELCNT - 1 /\ i' = 0
        BY <1>5, <3>1, <3>3, PositionFacts DEF ScanDelay
      <4>2. Previous' = i
        BY <4>1 DEF Previous
      <4>3. thread' \in {"none", "unselect"}
            /\ (thread' = "none" => mod = "stopping")
        BY <1>5, <3>3 DEF ScanDelay, FndInv, ThreadLife
      <4> QED
        BY <4>1, <4>2, <4>3, <3>1 DEF ScanInv, LitOnly
    <3> QED
      BY <3>2, <3>3
  <2>3. AfterExit'
    BY <1>5 DEF FndInv, AfterExit, ScanDelay, ScanAt, loadVars
  <2> QED
    BY <2>1, <2>2, <2>3 DEF FndInv
<1> QED
  BY <1>1, <1>2, <1>3, <1>4, <1>5 DEF Scan

\* A request that is refused for a line the driver holds finds it dark.
LEMMA InitLinesStep == ASSUME NEW p, FndInv, InitLines(p) PROVE FndInv'
<1>1. PICK busySel \in SUBSET (Positions \ selHeld) :
        /\ level' = [q \in Positions |->
                      IF q \in selHeld \cup busySel THEN level[q] ELSE 1]
        /\ selHeld' = Positions \ busySel
        /\ mod' \in {"out", "requested"}
  BY DEF InitLines
<1>2. thread = "none" /\ thread' = "none" /\ mod = "out" /\ i' = i /\ ~unloaded'
      /\ should_stop' = should_stop
  BY DEF InitLines
<1>3. FndTypeOK' /\ ThreadLife'
  BY <1>1, <1>2 DEF FndInv, FndTypeOK, ThreadLife
<1>4. LitOnly({})
  BY <1>2 DEF FndInv, ScanInv
<1>5. \A q \in selHeld' : level'[q] = 1
  <2> SUFFICES ASSUME NEW q \in selHeld' PROVE level'[q] = 1
    OBVIOUS
  <2>1. q \in Positions /\ level'[q] = IF q \in selHeld THEN level[q] ELSE 1
    BY <1>1
  <2>2. q \in selHeld => level[q] = 1
    BY <1>4, <2>1 DEF LitOnly, FndInv, FndTypeOK
  <2> QED
    BY <2>1, <2>2
<1>6. ScanInv'
  BY <1>1, <1>2, <1>5 DEF ScanInv, LitOnly
<1>7. AfterExit'
  BY <1>2 DEF AfterExit
<1> QED
  BY <1>3, <1>6, <1>7 DEF FndInv

LEMMA KernelStep ==
  FndInv /\ (InitThread \/ InitRegister \/ ExitFree) => FndInv'
<1> SUFFICES ASSUME FndInv, InitThread \/ InitRegister \/ ExitFree PROVE FndInv'
  OBVIOUS
<1>1. CASE InitThread
  BY <1>1, PositionFacts DEF FndInv, FndTypeOK, ThreadLife, ScanInv, LitOnly, AfterExit,
                             InitThread
<1>2. CASE InitRegister
  BY <1>2 DEF FndInv, FndTypeOK, ThreadLife, ScanInv, LitOnly, AfterExit, Previous,
              InitRegister, scanVars
<1>3. CASE ExitFree
  BY <1>3 DEF FndInv, FndTypeOK, ThreadLife, ScanInv, LitOnly, AfterExit, Dark, ExitFree,
              ThreadStopped
<1> QED
  BY <1>1, <1>2, <1>3

\* What the application does without the kernel's help changes nothing here.
LEMMA QuietStep ==
  FndInv /\ UNCHANGED <<loadVars, scanVars, should_stop>> => FndInv'
BY DEF FndInv, FndTypeOK, ThreadLife, ScanInv, LitOnly, AfterExit, Dark, Previous, loadVars,
       scanVars

LEMMA AppStep == ASSUME NEW p \in Processes, FndInv, App(p) PROVE FndInv'
<1>1. CASE AppStart(p)
  BY <1>1, InitLinesStep, QuietStep DEF AppStart
<1>2. CASE AppRmmod(p)
  BY <1>2 DEF FndInv, FndTypeOK, ThreadLife, ScanInv, LitOnly, AfterExit, Dark, Previous,
              AppRmmod, scanVars
<1>3. CASE AppLoaded(p) \/ AppOpen(p) \/ WriteBegin(p) \/ WriteDigit(p) \/ WriteEnd(p)
           \/ AppQuit(p)
  BY <1>3, QuietStep DEF AppLoaded, AppOpen, WriteBegin, WriteDigit, WriteEnd, AppQuit
<1> QED
  BY <1>1, <1>2, <1>3 DEF App

LEMMA FndNextStep == FndInv /\ [FndNext]_fndVars => FndInv'
<1> SUFFICES ASSUME FndInv, [FndNext]_fndVars PROVE FndInv'
  OBVIOUS
<1>1. CASE UNCHANGED fndVars
  BY <1>1, QuietStep DEF fndVars
<1>2. CASE FndNext
  BY <1>2, ScanStep, KernelStep, AppStep DEF FndNext
<1> QED
  BY <1>1, <1>2

LEMMA FndInductive == FndSpec => []FndInv
<1> QED
  BY FndInitInv, FndNextStep, PTL DEF FndSpec

-----------------------------------------------------------------------------
(* The properties.                                                         *)

\* The invariant names one position at every step of fnd_thread().
LEMMA InvLit == FndInv => AtMostOneLit
<1> SUFFICES ASSUME FndInv, selHeld = Positions,
                    NEW p \in Positions, NEW q \in Positions,
                    level[p] = 0, level[q] = 0
             PROVE  p = q
  BY DEF AtMostOneLit
<1>1. LitOnly({}) \/ LitOnly({SELCNT - 1}) \/ LitOnly({Previous}) \/ LitOnly({i})
  BY DEF FndInv, FndTypeOK, ScanInv
<1>2. CASE LitOnly({})
  BY <1>2 DEF LitOnly
<1>3. CASE LitOnly({SELCNT - 1})
  BY <1>3 DEF LitOnly
<1>4. CASE LitOnly({Previous})
  BY <1>4 DEF LitOnly
<1>5. CASE LitOnly({i})
  BY <1>5 DEF LitOnly
<1> QED
  BY <1>1, <1>2, <1>3, <1>4, <1>5

\* fnd_dev.c:57: a display of any size shows one digit at a time, however often
\* the driver is loaded, whichever requests fail and whatever the lines were.
THEOREM OneLit == FndSpec => []AtMostOneLit
<1> QED
  BY FndInductive, InvLit, PTL

\* fnd_dev.c:133: the exit waits for the thread, then darkens and frees all lines;
\* nothing lights a position again before the next load.
THEOREM DarkAfterUnload == FndSpec => []UnloadedIsDark
<1>1. FndInv => UnloadedIsDark
  BY DEF FndInv, AfterExit, Dark, UnloadedIsDark
<1> QED
  BY <1>1, FndInductive, PTL
=============================================================================
