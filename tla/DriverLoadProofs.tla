-------------------------- MODULE DriverLoadProofs --------------------------
(***************************************************************************)
(* Proofs about DriverLoad for any number of lines and of failures: what   *)
(* a load has got at each of its statements, and what that says of a       *)
(* loaded driver, of reloading it and of a load that failed half way.      *)
(***************************************************************************)
EXTENDS DriverLoad, TLAPS

-----------------------------------------------------------------------------
(* The inductive invariant.                                                *)

First(n) == 1..n
From(n)  == n..GPIOCNT

Holds(l, k, q) == leds = l /\ keys = k /\ irqs = q

\* What the module holds at each statement, as long as no load has failed half
\* way.  The loops of init have got the lines below i, the loops of exit have
\* still to give back the lines from i on.
Holdings ==
  /\ step \in {"out", "destroy"} => Holds({}, {}, {})
  /\ step = "led_request"        => Holds(First(i - 1), {}, {})
  /\ step = "led_direction"      => Holds(First(i), {}, {})
  /\ step = "key_request"        => Holds(Lines, First(i - 1), {})
  /\ step = "key_direction"      => Holds(Lines, First(i), {})
  /\ step \in {"led_request", "led_direction", "key_request", "key_direction"} =>
       irqKey = {}
  /\ step = "irq_number"         => Holds(Lines, Lines, {}) /\ irqKey = First(i - 1)
  /\ step = "irq_request"        => Holds(Lines, Lines, First(i - 1))
  /\ step \in {"register", "live", "unregister"} => Holds(Lines, Lines, Lines)
  /\ step = "irq_free"           => Holds(Lines, Lines, From(i))
  /\ step = "led_free"           => Holds(From(i), Lines, {})
  /\ step = "key_free"           => Holds({}, From(i), {})
  /\ step \in {"irq_request", "register", "live"} \cup UnloadSteps => irqKey = Lines
  /\ chrdev = IF step \in {"live", "unregister"} THEN "registered" ELSE "free"

\* Where the loop variable is outside the loops.
AtStart == step \in {"out", "register", "live", "unregister", "destroy"} => i = 1

\* The mutex is ready from the first statement of init to the last of exit.
MutexSpan == step # "out" => mutexReady

\* After a load that failed half way the first LED line is taken, and a load
\* fails at its first request.
Stuck ==
  /\ 1 \in leds
  /\ step \in {"out", "led_request"}
  /\ i = 1
  /\ chrdev = "free"

IInv ==
  /\ TypeOK
  /\ AtStart
  /\ MutexSpan
  /\ ~leaked => Holdings
  /\ leaked => Stuck

LEMMA InitIInv == Init => IInv
<1>1. SUFFICES ASSUME Init PROVE IInv
  OBVIOUS
<1> USE DEF Init
<1>2. TypeOK
  <2>1. 1 \in Lines /\ 0 \in 0..MaxFailures
    BY GpioAssumption, FailureAssumption DEF Lines
  <2>2. QED
    BY <1>1, <2>1 DEF TypeOK, Steps
<1>3. Holdings
  BY <1>1 DEF Holdings, Holds, UnloadSteps
<1>4. AtStart /\ MutexSpan /\ ~leaked
  BY <1>1 DEF AtStart, MutexSpan
<1>5. QED
  BY <1>2, <1>3, <1>4 DEF IInv

-----------------------------------------------------------------------------
(* A step either advances the load or the unload, or gives the load up.    *)

\* The lines a loop of init has got by its line n.
LEMMA FirstFacts ==
  ASSUME NEW n \in Lines
  PROVE  /\ First(n - 1) \cup {n} = First(n)
         /\ n \notin First(n - 1)
         /\ First((n + 1) - 1) = First(n)
         /\ First(1 - 1) = {}
         /\ First(GPIOCNT) = Lines
         /\ n # 1 => 1 \in First(n - 1)
         /\ 1 \in First(n)
  BY GpioAssumption DEF First, Lines

\* A load that is given up is clean if its first request failed, and stuck
\* otherwise.
LEMMA GiveUpStep ==
  ASSUME IInv, step \in LoadSteps, NEW taken, Refused(taken),
         UNCHANGED <<leds, keys, irqs, irqKey, chrdev, mutexReady>>
  PROVE  IInv'
<1> USE GpioAssumption DEF IInv, Lines
<1>1. TypeOK'
  BY FailureAssumption DEF Refused, GiveUp, TypeOK, Steps
<1>2. AtStart' /\ MutexSpan'
  BY DEF Refused, GiveUp, AtStart, MutexSpan
<1>3. chrdev = "free"
  BY DEF LoadSteps, Holdings, Holds, Stuck
<1>i. i \in 1..GPIOCNT /\ 1 \in Lines
  BY DEF TypeOK
<1>s. ~leaked => \/ step = "led_request" /\ leds = First(i - 1)
                 \/ step # "led_request" /\ 1 \in leds
  <2>1. CASE step \in {"led_request", "led_direction"}
    <3>1. 1 \in First(i)
      BY <1>i DEF First
    <3>2. ~leaked /\ step = "led_direction" => leds = First(i)
      BY DEF Holdings, Holds
    <3>3. ~leaked /\ step = "led_request" => leds = First(i - 1)
      BY DEF Holdings, Holds
    <3>4. QED
      BY <2>1, <3>1, <3>2, <3>3
  <2>2. CASE step \notin {"led_request", "led_direction"}
    <3>1. ~leaked => leds = Lines
      BY <2>2 DEF LoadSteps, Holdings, Holds
    <3>2. QED
      BY <1>i, <2>2, <3>1
  <2>3. QED
    BY <2>1, <2>2
<1>4. leds # {} => 1 \in leds
  BY <1>i, <1>s, FirstFacts DEF Stuck
<1>5. leds = {} => ~leaked /\ step = "led_request"
  BY <1>s DEF Stuck
<1>6. CASE leds = {}
  <2>1. leaked' = leaked
    BY <1>5, <1>6 DEF Refused, GiveUp, TypeOK
  <2>2. keys' = {} /\ irqs' = {} /\ chrdev' = "free" /\ leds' = {} /\ step' = "out"
    BY <1>3, <1>5, <1>6 DEF Refused, GiveUp, Holdings, Holds
  <2>3. Holdings'
    BY <2>2 DEF Holdings, Holds, UnloadSteps
  <2>4. QED
    BY <1>1, <1>2, <1>5, <1>6, <2>1, <2>3
<1>7. CASE leds # {}
  <2>1. leaked'
    BY <1>7 DEF Refused, GiveUp
  <2>2. Stuck'
    BY <1>3, <1>4, <1>7 DEF Refused, GiveUp, Stuck
  <2>3. QED
    BY <1>1, <1>2, <2>1, <2>2
<1>8. QED
  BY <1>6, <1>7

LEMMA NextIInv == IInv /\ [Next]_vars => IInv'
<1>1. SUFFICES ASSUME IInv, [Next]_vars PROVE IInv'
  OBVIOUS
<1> USE <1>1, GpioAssumption, FailureAssumption
    DEF IInv, TypeOK, AtStart, MutexSpan, Lines, Steps, LoadSteps, UnloadSteps
<1>2. CASE Insmod
  BY <1>2 DEF Insmod, First, Holdings, Holds, Stuck
<1>3. CASE LedRequest
  <2>1. CASE Refused(i \in leds) /\ UNCHANGED <<leds, keys, irqs, irqKey, chrdev, mutexReady>>
    BY <1>3, <2>1, GiveUpStep DEF LedRequest
  <2>2. CASE step' # "out"
    <3>1. /\ step = "led_request" /\ step' = "led_direction"
          /\ leds' = leds \cup {i}
          /\ UNCHANGED <<i, keys, irqs, chrdev, irqKey, mutexReady, failures, leaked>>
          /\ ~leaked
      BY <1>3, <2>2 DEF LedRequest, Refused, GiveUp, Stuck
    <3>2. Holdings'
      BY <3>1, FirstFacts DEF Holdings, Holds
    <3>3. QED
      BY <3>1, <3>2
  <2>3. QED
    BY <1>3, <2>1, <2>2 DEF LedRequest, Refused, GiveUp
<1>4. CASE LedDirection
  <2>1. CASE Refused(FALSE) /\ UNCHANGED <<leds, keys, irqs, irqKey, chrdev, mutexReady>>
    BY <1>4, <2>1, GiveUpStep DEF LedDirection
  <2>2. CASE step' # "out"
    <3>1. /\ step = "led_direction"
          /\ \/ i < GPIOCNT /\ i' = i + 1 /\ step' = "led_request"
             \/ i = GPIOCNT /\ i' = 1 /\ step' = "key_request"
          /\ UNCHANGED <<leds, keys, irqs, chrdev, irqKey, mutexReady, failures, leaked>>
          /\ ~leaked
      BY <1>4, <2>2 DEF LedDirection, Refused, GiveUp, Stuck
    <3>2. Holdings'
      BY <3>1, FirstFacts DEF Holdings, Holds
    <3>3. QED
      BY <3>1, <3>2
  <2>3. QED
    BY <1>4, <2>1, <2>2 DEF LedDirection, Refused, GiveUp
<1>5. CASE KeyRequest
  <2>1. CASE Refused(i \in keys) /\ UNCHANGED <<leds, keys, irqs, irqKey, chrdev, mutexReady>>
    BY <1>5, <2>1, GiveUpStep DEF KeyRequest
  <2>2. CASE step' # "out"
    <3>1. /\ step = "key_request" /\ step' = "key_direction"
          /\ keys' = keys \cup {i}
          /\ UNCHANGED <<i, leds, irqs, chrdev, irqKey, mutexReady, failures, leaked>>
          /\ ~leaked
      BY <1>5, <2>2 DEF KeyRequest, Refused, GiveUp, Stuck
    <3>2. Holdings'
      BY <3>1, FirstFacts DEF Holdings, Holds
    <3>3. QED
      BY <3>1, <3>2
  <2>3. QED
    BY <1>5, <2>1, <2>2 DEF KeyRequest, Refused, GiveUp
<1>6. CASE KeyDirection
  <2>1. CASE Refused(FALSE) /\ UNCHANGED <<leds, keys, irqs, irqKey, chrdev, mutexReady>>
    BY <1>6, <2>1, GiveUpStep DEF KeyDirection
  <2>2. CASE step' # "out"
    <3>1. /\ step = "key_direction"
          /\ \/ i < GPIOCNT /\ i' = i + 1 /\ step' = "key_request"
             \/ i = GPIOCNT /\ i' = 1 /\ step' = "irq_number"
          /\ UNCHANGED <<leds, keys, irqs, chrdev, irqKey, mutexReady, failures, leaked>>
          /\ ~leaked
      BY <1>6, <2>2 DEF KeyDirection, Refused, GiveUp, Stuck
    <3>2. /\ keys = First(i) /\ (i = GPIOCNT => keys = Lines)
          /\ First((i + 1) - 1) = First(i) /\ First(1 - 1) = {}
      BY <3>1, FirstFacts DEF Holdings, Holds
    <3>3. Holdings'
      BY <3>1, <3>2 DEF Holdings, Holds
    <3>4. QED
      BY <3>1, <3>3
  <2>3. QED
    BY <1>6, <2>1, <2>2 DEF KeyDirection, Refused, GiveUp
<1>7. CASE IrqNumber
  <2>1. CASE Refused(FALSE) /\ UNCHANGED <<leds, keys, irqs, irqKey, chrdev, mutexReady>>
    BY <1>7, <2>1, GiveUpStep DEF IrqNumber
  <2>2. CASE step' # "out"
    <3>1. /\ step = "irq_number" /\ irqKey' = irqKey \cup {i}
          /\ \/ i = GPIOCNT /\ i' = 1 /\ step' = "irq_request"
             \/ i # GPIOCNT /\ i' = i + 1 /\ step' = "irq_number"
          /\ UNCHANGED <<leds, keys, irqs, chrdev, mutexReady, failures, leaked>>
          /\ ~leaked
      BY <1>7, <2>2 DEF IrqNumber, Advance, Refused, GiveUp, Stuck
    <3>2. irqKey' = First(i) /\ (i = GPIOCNT => irqKey' = Lines)
      BY <3>1, FirstFacts DEF Holdings
    <3>3. Holdings'
      BY <3>1, <3>2, FirstFacts DEF Holdings, Holds
    <3>4. QED
      BY <3>1, <3>3
  <2>3. QED
    BY <1>7, <2>1, <2>2 DEF IrqNumber, Advance, Refused, GiveUp
<1>8. CASE IrqRequest
  <2>1. CASE Refused(i \in irqs) /\ UNCHANGED <<leds, keys, irqs, irqKey, chrdev, mutexReady>>
    BY <1>8, <2>1, GiveUpStep DEF IrqRequest
  <2>2. CASE step' # "out"
    <3>1. /\ step = "irq_request" /\ irqs' = irqs \cup {i}
          /\ \/ i = GPIOCNT /\ i' = 1 /\ step' = "register"
             \/ i # GPIOCNT /\ i' = i + 1 /\ step' = "irq_request"
          /\ UNCHANGED <<leds, keys, irqKey, chrdev, mutexReady, failures, leaked>>
          /\ ~leaked
      BY <1>8, <2>2 DEF IrqRequest, Advance, Refused, GiveUp, Stuck
    <3>2. irqs' = First(i) /\ (i = GPIOCNT => irqs' = Lines)
      BY <3>1, FirstFacts DEF Holdings, Holds
    <3>3. Holdings'
      BY <3>1, <3>2, FirstFacts DEF Holdings, Holds
    <3>4. QED
      BY <3>1, <3>3
  <2>3. QED
    BY <1>8, <2>1, <2>2 DEF IrqRequest, Advance, Refused, GiveUp
<1>9. CASE Register
  <2>1. CASE Refused(chrdev = "registered") /\ UNCHANGED <<leds, keys, irqs, irqKey, chrdev, mutexReady>>
    BY <1>9, <2>1, GiveUpStep DEF Register
  <2>2. CASE step' # "out"
    BY <1>9, <2>2 DEF Register, Refused, GiveUp, Holdings, Holds, Stuck
  <2>3. QED
    BY <1>9, <2>1, <2>2 DEF Register, Refused, GiveUp
<1>10. CASE Rmmod
  BY <1>10 DEF Rmmod, Holdings, Holds, Stuck
<1>11. CASE Unregister
  BY <1>11 DEF Unregister, From, Holdings, Holds, Stuck
<1>12. CASE IrqFree
  BY <1>12 DEF IrqFree, Advance, From, Holdings, Holds, Stuck
<1>13. CASE LedFree
  BY <1>13 DEF LedFree, Advance, From, Holdings, Holds, Stuck
<1>14. CASE KeyFree
  BY <1>14 DEF KeyFree, Advance, From, Holdings, Holds, Stuck
<1>15. CASE Destroy
  BY <1>15 DEF Destroy, Holdings, Holds, Stuck
<1>16. CASE UNCHANGED vars
  BY <1>16 DEF vars, Holdings, Holds, Stuck
<1>17. QED
  BY <1>2, <1>3, <1>4, <1>5, <1>6, <1>7, <1>8, <1>9, <1>10, <1>11, <1>12, <1>13,
     <1>14, <1>15, <1>16 DEF Next, ledkey_init, ledkey_exit

THEOREM Invariance == Spec => []IInv
BY InitIInv, NextIInv, PTL DEF Spec

-----------------------------------------------------------------------------
(* The theorems.                                                           *)

\* Statements, sets of lines and counters keep their types.
THEOREM Typing == Spec => []TypeOK
<1>1. IInv => TypeOK
  BY DEF IInv
<1>2. QED
  BY <1>1, Invariance, PTL

\* A load that reports success has got everything.
THEOREM SuccessIsComplete == Spec => []LiveComplete
<1>1. IInv => LiveComplete
  BY DEF IInv, Stuck, Holdings, Holds, LiveComplete
<1>2. QED
  BY <1>1, Invariance, PTL

\* While the device number is registered the whole device is there.
THEOREM RegisteredIsComplete == Spec => []DeviceComplete
<1>1. IInv => DeviceComplete
  BY DEF IInv, TypeOK, Steps, LoadSteps, UnloadSteps, MutexSpan, Stuck, Holdings, Holds,
         DeviceComplete
<1>2. QED
  BY <1>1, Invariance, PTL

\* A handler that can run finds its mutex and the whole of irqKey[].
THEOREM HandlersFindState == Spec => []HandlersReady
<1>1. IInv => HandlersReady
  BY DEF IInv, TypeOK, Steps, LoadSteps, UnloadSteps, MutexSpan, Holdings, Holds,
         HandlersReady
<1>2. QED
  BY <1>1, Invariance, PTL

\* Whatever can be reached of the driver finds all that it uses.
THEOREM LoadIsSafe == Spec => []LoadSafe
<1>1. LiveComplete /\ DeviceComplete /\ HandlersReady => LoadSafe
  BY DEF LoadSafe
<1>2. QED
  BY <1>1, SuccessIsComplete, RegisteredIsComplete, HandlersFindState, PTL

\* Loads and unloads that succeed keep nothing.
THEOREM ReloadIsClean == Spec => []CleanReload
<1>1. IInv => CleanReload
  BY DEF IInv, Holdings, Holds, CleanReload
<1>2. QED
  BY <1>1, Invariance, PTL

\* A load that failed half way is final.
THEOREM FailureIsFinal == Spec => []LeakIsFinal
<1>1. IInv => LeakIsFinal
  BY DEF IInv, Stuck, LeakIsFinal
<1>2. QED
  BY <1>1, Invariance, PTL
=============================================================================
