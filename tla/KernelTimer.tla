---------------------------- MODULE KernelTimer ----------------------------
(***************************************************************************)
(* The blinking side of 0625_TEST/p335_kerneltimer_dev/kerneltimer_dev.c:  *)
(* open() and release() with openFlag and the module's reference count,    *)
(* the ioctls TIMER_START, TIMER_STOP and TIMER_VALUE, write(), the timer  *)
(* callback kerneltimer_func() and the module's exit.  The key side of the *)
(* driver is KeyEvent; the two share no variable.                          *)
(*                                                                         *)
(* The callback runs in a softirq, concurrently with the system calls and  *)
(* with the module's exit.  mod_timer() and del_timer() are atomic;        *)
(* del_timer() does not wait for a running callback.  A byte of LED data   *)
(* is the set of its 1 bits, so that ~ledVal & 0xff is Bits \ ledVal.      *)
(*                                                                         *)
(* The model starts when kerneltimer_init() has succeeded and ends when    *)
(* the module's text is gone.  started, quiet, stopped and disturbed are   *)
(* history.                                                                *)
(***************************************************************************)
EXTENDS Naturals, FiniteSets

CONSTANTS
  Users,            \* processes that open the device, each with its own file
  GPIOCNT,          \* number of LEDs (8 in the source)
  Periods,          \* the values of timerVal
  InitialPeriod,    \* timerVal at load time (100 in the source)
  Patterns          \* the bytes a process may write

Bits == 1..GPIOCNT

ASSUME GpioAssumption == GPIOCNT \in Nat \ {0}
ASSUME UserAssumption == IsFiniteSet(Users)
ASSUME PeriodAssumption == Periods \subseteq Nat \ {0} /\ InitialPeriod \in Periods
ASSUME PatternAssumption == Patterns \subseteq SUBSET Bits

VARIABLES
  openFlag,         \* 0 or 1
  refcnt,           \* the module's reference count
  moduleState,      \* where the life of the module stands, see ModuleStates
  upc,              \* upc[u]: next statement of process u in the driver
  ureg,             \* ureg[u]: timerVal as TIMER_START of u has read it
  timerVal,         \* the period
  timer,            \* 0, or the period the pending timer was armed with
  ledVal,           \* the bits to show next
  led,              \* the LEDs that are on
  cb,               \* next statement of kerneltimer_func()
  cbBit,            \* its loop variable, counted from 1
  cbVal,            \* ~ledVal & 0xff, before it is stored
  cbPeriod,         \* timerVal as the callback has read it
  started,          \* a TIMER_START has armed the timer since the load
  quiet,            \* the last stop found no callback running, no start since
  stopped,          \* a stop has returned, no start since
  disturbed         \* a write has stored ledVal since the callback began

opening  == <<openFlag, refcnt>>
callback == <<cb, cbBit, cbVal, cbPeriod>>
history  == <<started, quiet, stopped, disturbed>>
vars == <<opening, moduleState, upc, ureg, timerVal, timer, ledVal, led,
          callback, history>>

UserLabels == {"closed", "open_set", "open_get", "opened", "start", "put", "clear"}
CallbackLabels == {"idle", "out", "invert", "store", "period", "rearm"}

\* rmmod takes the module from live to gone through the statements of exit.
ModuleStates == {"live", "going", "unregistered", "deltimer", "freeleds",
                 "freed", "gone"}

\* Mutant of Init: insmod registers the timer, as kerneltimer_init() of the
\* older p335_kerneltimer_dev/kerneltimer_dev.c does.
InitRegistersTimer ==
  /\ openFlag = 0
  /\ refcnt = 0
  /\ moduleState = "live"
  /\ upc = [u \in Users |-> "closed"]
  /\ ureg = [u \in Users |-> InitialPeriod]
  /\ timerVal = InitialPeriod
  /\ timer = InitialPeriod
  /\ ledVal = {}
  /\ led = {}
  /\ cb = "idle"
  /\ cbBit = 1
  /\ cbVal = {}
  /\ cbPeriod = InitialPeriod
  /\ started = FALSE
  /\ quiet = FALSE
  /\ stopped = FALSE
  /\ disturbed = FALSE

Init ==
  /\ openFlag = 0
  /\ refcnt = 0
  /\ moduleState = "live"
  /\ upc = [u \in Users |-> "closed"]
  /\ ureg = [u \in Users |-> InitialPeriod]
  /\ timerVal = InitialPeriod
  /\ timer = 0
  /\ ledVal = {}
  /\ led = {}
  /\ cb = "idle"
  /\ cbBit = 1
  /\ cbVal = {}
  /\ cbPeriod = InitialPeriod
  /\ started = FALSE
  /\ quiet = TRUE
  /\ stopped = FALSE
  /\ disturbed = FALSE

UserStep(u, from, to) ==
  /\ moduleState # "gone"
  /\ upc[u] = from
  /\ upc' = [upc EXCEPT ![u] = to]

CallbackStep(from, to) ==
  /\ moduleState # "gone"
  /\ cb = from
  /\ cb' = to

DelTimer ==
  /\ timer' = 0
  /\ quiet' = (cb = "idle")
  /\ stopped' = TRUE

-----------------------------------------------------------------------------
(* kerneltimer_open() and kerneltimer_release().                           *)

\* An open that finds openFlag set returns -EBUSY and changes nothing.
OpenTest(u) ==
  /\ moduleState \in {"live", "going"}
  /\ openFlag = 0
  /\ UserStep(u, "closed", "open_set")
  /\ UNCHANGED <<opening, moduleState, ureg, timerVal, timer, ledVal, led,
                 callback, history>>

OpenSet(u) ==
  /\ UserStep(u, "open_set", "open_get")
  /\ openFlag' = 1
  /\ UNCHANGED <<refcnt, moduleState, ureg, timerVal, timer, ledVal, led,
                 callback, history>>

OpenGet(u) ==
  /\ moduleState = "live"
  /\ UserStep(u, "open_get", "opened")
  /\ refcnt' = refcnt + 1
  /\ UNCHANGED <<openFlag, moduleState, ureg, timerVal, timer, ledVal, led,
                 callback, history>>

\* try_module_get() fails once rmmod has begun: -ENODEV, openFlag stays set.
OpenNoDevice(u) ==
  /\ moduleState # "live"
  /\ UserStep(u, "open_get", "closed")
  /\ UNCHANGED <<opening, moduleState, ureg, timerVal, timer, ledVal, led,
                 callback, history>>

ReleaseTimer(u) ==
  /\ UserStep(u, "opened", "put")
  /\ DelTimer
  /\ UNCHANGED <<opening, moduleState, ureg, timerVal, ledVal, led, callback,
                 started, disturbed>>

\* Mutant of ReleasePut: module_put() is forgotten.
ReleaseNoPut(u) ==
  /\ UserStep(u, "put", "clear")
  /\ UNCHANGED <<opening, moduleState, ureg, timerVal, timer, ledVal, led,
                 callback, history>>

ReleasePut(u) ==
  /\ UserStep(u, "put", "clear")
  /\ refcnt' = refcnt - 1
  /\ UNCHANGED <<openFlag, moduleState, ureg, timerVal, timer, ledVal, led,
                 callback, history>>

\* Mutant of ReleaseClear: openFlag is not reset.
ReleaseKeepsFlag(u) ==
  /\ UserStep(u, "clear", "closed")
  /\ UNCHANGED <<opening, moduleState, ureg, timerVal, timer, ledVal, led,
                 callback, history>>

ReleaseClear(u) ==
  /\ UserStep(u, "clear", "closed")
  /\ openFlag' = 0
  /\ UNCHANGED <<refcnt, moduleState, ureg, timerVal, timer, ledVal, led,
                 callback, history>>

-----------------------------------------------------------------------------
(* kerneltimer_ioctl() and kerneltimer_write().                            *)

\* TIMER_START: the argument of mod_timer() ...
StartRead(u) ==
  /\ UserStep(u, "opened", "start")
  /\ ureg' = [ureg EXCEPT ![u] = timerVal]
  /\ UNCHANGED <<opening, moduleState, timerVal, timer, ledVal, led, callback,
                 history>>

\* ... and mod_timer(), which arms the timer or moves a pending one.
StartArm(u) ==
  /\ UserStep(u, "start", "opened")
  /\ timer' = ureg[u]
  /\ started' = TRUE
  /\ quiet' = FALSE
  /\ stopped' = FALSE
  /\ UNCHANGED <<opening, moduleState, ureg, timerVal, ledVal, led, callback,
                 disturbed>>

TimerStop(u) ==
  /\ UserStep(u, "opened", "opened")
  /\ DelTimer
  /\ UNCHANGED <<opening, moduleState, ureg, timerVal, ledVal, led, callback,
                 started, disturbed>>

\* Mutant of TimerValue: the new period is applied with mod_timer() at once.
TimerValueRearms(u, p) ==
  /\ UserStep(u, "opened", "opened")
  /\ timerVal' = p
  /\ timer' = p
  /\ UNCHANGED <<opening, moduleState, ureg, ledVal, led, callback, history>>

\* TIMER_VALUE: a pending timer keeps the period it was armed with.
TimerValue(u, p) ==
  /\ UserStep(u, "opened", "opened")
  /\ timerVal' = p
  /\ UNCHANGED <<opening, moduleState, ureg, timer, ledVal, led, callback, history>>

Write(u, b) ==
  /\ UserStep(u, "opened", "opened")
  /\ ledVal' = b
  /\ disturbed' = TRUE
  /\ UNCHANGED <<opening, moduleState, ureg, timerVal, timer, led, callback,
                 started, quiet, stopped>>

-----------------------------------------------------------------------------
(* The timer and kerneltimer_func().                                       *)

Expire ==
  /\ timer # 0
  /\ CallbackStep("idle", "out")
  /\ timer' = 0
  /\ cbBit' = 1
  /\ disturbed' = FALSE
  /\ UNCHANGED <<opening, moduleState, upc, ureg, timerVal, ledVal, led, cbVal,
                 cbPeriod, started, quiet, stopped>>

\* One round of the loop: gpio_set_value() of one LED, ledVal read afresh.
CallbackOut ==
  /\ CallbackStep("out", IF cbBit = GPIOCNT THEN "invert" ELSE "out")
  /\ led' = IF cbBit \in ledVal THEN led \cup {cbBit} ELSE led \ {cbBit}
  /\ cbBit' = IF cbBit = GPIOCNT THEN cbBit ELSE cbBit + 1
  /\ UNCHANGED <<opening, moduleState, upc, ureg, timerVal, timer, ledVal, cbVal,
                 cbPeriod, history>>

\* Mutant of CallbackInvert: the bits are not inverted.
CallbackCopy ==
  /\ CallbackStep("invert", "store")
  /\ cbVal' = ledVal
  /\ UNCHANGED <<opening, moduleState, upc, ureg, timerVal, timer, ledVal, led,
                 cbBit, cbPeriod, history>>

\* ledVal = ~ledVal & 0xff is a load and a store, and write() may come between.
CallbackInvert ==
  /\ CallbackStep("invert", "store")
  /\ cbVal' = Bits \ ledVal
  /\ UNCHANGED <<opening, moduleState, upc, ureg, timerVal, timer, ledVal, led,
                 cbBit, cbPeriod, history>>

CallbackStore ==
  /\ CallbackStep("store", "period")
  /\ ledVal' = cbVal
  /\ UNCHANGED <<opening, moduleState, upc, ureg, timerVal, timer, led, cbBit,
                 cbVal, cbPeriod, history>>

\* Mutant of CallbackPeriod: the callback keeps the period it has used so far.
CallbackOldPeriod ==
  /\ CallbackStep("period", "rearm")
  /\ UNCHANGED <<opening, moduleState, upc, ureg, timerVal, timer, ledVal, led,
                 cbBit, cbVal, cbPeriod, history>>

CallbackPeriod ==
  /\ CallbackStep("period", "rearm")
  /\ cbPeriod' = timerVal
  /\ UNCHANGED <<opening, moduleState, upc, ureg, timerVal, timer, ledVal, led,
                 cbBit, cbVal, history>>

CallbackRearm ==
  /\ CallbackStep("rearm", "idle")
  /\ timer' = cbPeriod
  /\ UNCHANGED <<opening, moduleState, upc, ureg, timerVal, ledVal, led, cbBit,
                 cbVal, cbPeriod, history>>

kerneltimer_func ==
  \/ CallbackOut \/ CallbackInvert \/ CallbackStore
  \/ CallbackPeriod \/ CallbackRearm

-----------------------------------------------------------------------------
(* rmmod and kerneltimer_exit().                                           *)

ExitStep(from, to) ==
  /\ moduleState = from
  /\ moduleState' = to
  /\ UNCHANGED <<opening, upc, ureg, timerVal, ledVal, led, callback, started,
                 disturbed>>

\* delete_module() refuses a module in use; from here try_module_get() fails.
Rmmod ==
  /\ refcnt = 0
  /\ ExitStep("live", "going")
  /\ UNCHANGED <<timer, quiet, stopped>>

ExitUnregister ==
  /\ ExitStep("going", "unregistered")
  /\ UNCHANGED <<timer, quiet, stopped>>

ExitTimerPending ==
  /\ timer # 0
  /\ ExitStep("unregistered", "deltimer")
  /\ UNCHANGED <<timer, quiet, stopped>>

ExitTimerNotPending ==
  /\ timer = 0
  /\ ExitStep("unregistered", "freeleds")
  /\ UNCHANGED <<timer, quiet, stopped>>

ExitDelTimer ==
  /\ ExitStep("deltimer", "freeleds")
  /\ DelTimer

ExitFreeLeds ==
  /\ ExitStep("freeleds", "freed")
  /\ UNCHANGED <<timer, quiet, stopped>>

\* irqKeyFree(), gpioKeyFree(), mutex_destroy(); the module's text is freed.
ExitDone ==
  /\ ExitStep("freed", "gone")
  /\ UNCHANGED <<timer, quiet, stopped>>

kerneltimer_exit ==
  \/ ExitUnregister \/ ExitTimerPending \/ ExitTimerNotPending
  \/ ExitDelTimer \/ ExitFreeLeds \/ ExitDone

-----------------------------------------------------------------------------
UserNext ==
  \E u \in Users :
    \/ OpenTest(u) \/ OpenSet(u) \/ OpenGet(u) \/ OpenNoDevice(u)
    \/ ReleaseTimer(u) \/ ReleasePut(u) \/ ReleaseClear(u)
    \/ StartRead(u) \/ StartArm(u) \/ TimerStop(u)
    \/ \E p \in Periods : TimerValue(u, p)
    \/ \E b \in Patterns : Write(u, b)

Next == UserNext \/ Expire \/ kerneltimer_func \/ Rmmod \/ kerneltimer_exit

\* A pending timer expires and a callback that has begun runs to its end.
\* What processes call, and whether anyone calls rmmod, is left open.
Fairness == WF_vars(Expire) /\ WF_vars(kerneltimer_func)

Spec == Init /\ [][Next]_vars

FairSpec == Spec /\ Fairness

-----------------------------------------------------------------------------
(* Properties.                                                             *)

\* The type invariant.
TypeOK ==
  /\ openFlag \in {0, 1}
  /\ refcnt \in Nat
  /\ moduleState \in ModuleStates
  /\ upc \in [Users -> UserLabels]
  /\ ureg \in [Users -> Periods]
  /\ timerVal \in Periods
  /\ timer \in Periods \cup {0}
  /\ ledVal \subseteq Bits
  /\ led \subseteq Bits
  /\ cb \in CallbackLabels
  /\ cbBit \in Bits
  /\ cbVal \subseteq Bits
  /\ cbPeriod \in Periods
  /\ started \in BOOLEAN
  /\ quiet \in BOOLEAN
  /\ stopped \in BOOLEAN
  /\ disturbed \in BOOLEAN

HasReference(u) == upc[u] \in {"opened", "start", "put"}

\* The reference count is the number of processes between their
\* try_module_get() and their module_put(), however opens and closes overlap.
RefcountMatches == refcnt = Cardinality({u \in Users : HasReference(u)})

\* rmmod never gets past a process that has the device open.
ReferenceGuardsUnload ==
  moduleState # "live" => \A u \in Users : ~HasReference(u)

\* The count is right and it guards the module: whatever opens, failed opens and
\* closes overlap, no process is left in a module that rmmod takes away.
ReferenceSafe == RefcountMatches /\ ReferenceGuardsUnload

\* While the module is live, openFlag is set only if some process is opening,
\* using or closing the device: -EBUSY always has a reason.
FlagHasOwner ==
  openFlag = 1 /\ moduleState = "live" => \E u \in Users : upc[u] # "closed"

\* kerneltimer_dev.c:331-333: loading the module does not start the timer, and
\* no LED changes before the first TIMER_START.
NoBlinkBeforeStart == ~started => timer = 0 /\ cb = "idle" /\ led = {}

\* A TIMER_STOP, a release or an exit that finds no callback running has really
\* stopped the blinking: nothing but a TIMER_START arms the timer again.
StopHolds == quiet => timer = 0 /\ cb = "idle"

\* A callback no write has interfered with leaves in ledVal the inverse of
\* what it has put on the LEDs, so that they blink.
BlinkInverts ==
  cb \in {"period", "rearm"} /\ ~disturbed => ledVal = Bits \ led

\* A period set by TIMER_VALUE and not changed any more is in the end the
\* period of every armed timer, although a pending timer is not touched.
PeriodAdopted ==
  \A p \in Periods :
    <>[](timerVal = p /\ moduleState = "live") => <>[](timer \in {0, p})

\* kerneltimer_dev.c:189: TIMER_STOP stops the timer.
StopStops == stopped /\ cb = "idle" => timer = 0
=============================================================================
