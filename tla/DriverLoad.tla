----------------------------- MODULE DriverLoad -----------------------------
(***************************************************************************)
(* insmod and rmmod of p432_ledkey_poll/ledkey_poll_dev.c: ledkey_init()   *)
(* requests the LED lines, the key lines, the interrupts and the device    *)
(* number one after the other and returns on the first error without       *)
(* giving anything back; ledkey_exit() gives everything back.  Any request *)
(* may fail, and the module may be loaded again after a failed load or     *)
(* after an unload.  What the kernel holds for the module outlives it.     *)
(*                                                                         *)
(* Key edges may arrive at any time; they reach keyIsr() as soon as the    *)
(* interrupt of their line has been requested.                             *)
(***************************************************************************)
EXTENDS Naturals

CONSTANTS
  GPIOCNT,          \* number of LEDs and of keys (8 in the source)
  MaxFailures       \* bound on the requests that fail for a foreign reason

ASSUME GpioAssumption == GPIOCNT \in Nat \ {0}
ASSUME FailureAssumption == MaxFailures \in Nat

VARIABLES
  step,             \* the statement of init or exit to run next, see Steps
  i,                \* its loop variable, counted from 1
  leds, keys,       \* the requested GPIO lines
  irqs,             \* the key lines whose interrupt has keyIsr as its handler
  irqKey,           \* the lines whose irqKey[] entry this load has filled in
  chrdev,           \* "registered" or "free": the device number
  mutexReady,       \* keyMutex is between mutex_init() and mutex_destroy()
  failures,         \* requests that have failed for a foreign reason
  leaked            \* history: a failed load has left lines requested

vars == <<step, i, leds, keys, irqs, irqKey, chrdev, mutexReady, failures,
          leaked>>

Lines == 1..GPIOCNT

LoadSteps   == {"led_request", "led_direction", "key_request", "key_direction",
                "irq_number", "irq_request", "register"}
UnloadSteps == {"unregister", "irq_free", "led_free", "key_free", "destroy"}
Steps == {"out", "live"} \cup LoadSteps \cup UnloadSteps

Init ==
  /\ step = "out"
  /\ i = 1
  /\ leds = {} /\ keys = {}
  /\ irqs = {}
  /\ irqKey = {}
  /\ chrdev = "free"
  /\ mutexReady = FALSE
  /\ failures = 0
  /\ leaked = FALSE

\* The loop body has run for line i: the next line, or the statement after it.
Advance(next) ==
  IF i = GPIOCNT THEN step' = next /\ i' = 1
                 ELSE step' = step /\ i' = i + 1

\* ledkey_init() returns the error: the module is out, its resources are not.
GiveUp == step' = "out" /\ i' = 1 /\ leaked' = (leaked \/ leds # {})

\* A request fails: this module's last load holds the line, or a foreign reason.
Refused(taken) ==
  /\ taken \/ failures < MaxFailures
  /\ failures' = IF taken THEN failures ELSE failures + 1
  /\ GiveUp

-----------------------------------------------------------------------------
(* ledkey_init().                                                          *)

Insmod ==
  /\ step = "out"
  /\ step' = "led_request"
  /\ i' = 1
  /\ mutexReady' = TRUE
  /\ irqKey' = {}
  /\ UNCHANGED <<leds, keys, irqs, chrdev, failures, leaked>>

\* gpio_request() refuses a line that is taken, by this module's last load too.
LedRequest ==
  /\ step = "led_request"
  /\ \/ i \notin leds /\ leds' = leds \cup {i} /\ step' = "led_direction"
        /\ UNCHANGED <<i, failures, leaked>>
     \/ Refused(i \in leds) /\ UNCHANGED leds
  /\ UNCHANGED <<keys, irqs, irqKey, chrdev, mutexReady>>

LedDirection ==
  /\ step = "led_direction"
  /\ \/ i < GPIOCNT /\ i' = i + 1 /\ step' = "led_request"
        /\ UNCHANGED <<failures, leaked>>
     \/ i = GPIOCNT /\ i' = 1 /\ step' = "key_request"
        /\ UNCHANGED <<failures, leaked>>
     \/ Refused(FALSE)
  /\ UNCHANGED <<leds, keys, irqs, irqKey, chrdev, mutexReady>>

KeyRequest ==
  /\ step = "key_request"
  /\ \/ i \notin keys /\ keys' = keys \cup {i} /\ step' = "key_direction"
        /\ UNCHANGED <<i, failures, leaked>>
     \/ Refused(i \in keys) /\ UNCHANGED keys
  /\ UNCHANGED <<leds, irqs, irqKey, chrdev, mutexReady>>

KeyDirection ==
  /\ step = "key_direction"
  /\ \/ i < GPIOCNT /\ i' = i + 1 /\ step' = "key_request"
        /\ UNCHANGED <<failures, leaked>>
     \/ i = GPIOCNT /\ i' = 1 /\ step' = "irq_number"
        /\ UNCHANGED <<failures, leaked>>
     \/ Refused(FALSE)
  /\ UNCHANGED <<leds, keys, irqs, irqKey, chrdev, mutexReady>>

IrqNumber ==
  /\ step = "irq_number"
  /\ \/ irqKey' = irqKey \cup {i} /\ Advance("irq_request")
        /\ UNCHANGED <<failures, leaked>>
     \/ Refused(FALSE) /\ UNCHANGED irqKey
  /\ UNCHANGED <<leds, keys, irqs, chrdev, mutexReady>>

\* request_irq() without IRQF_SHARED refuses a line that has a handler.
IrqRequest ==
  /\ step = "irq_request"
  /\ \/ i \notin irqs /\ irqs' = irqs \cup {i} /\ Advance("register")
        /\ UNCHANGED <<failures, leaked>>
     \/ Refused(i \in irqs) /\ UNCHANGED irqs
  /\ UNCHANGED <<leds, keys, irqKey, chrdev, mutexReady>>

Register ==
  /\ step = "register"
  /\ \/ chrdev = "free" /\ chrdev' = "registered" /\ step' = "live" /\ i' = 1
        /\ UNCHANGED <<failures, leaked>>
     \/ Refused(chrdev = "registered") /\ UNCHANGED chrdev
  /\ UNCHANGED <<leds, keys, irqs, irqKey, mutexReady>>

ledkey_init ==
  \/ LedRequest \/ LedDirection \/ KeyRequest \/ KeyDirection
  \/ IrqNumber \/ IrqRequest \/ Register

-----------------------------------------------------------------------------
(* ledkey_exit().                                                          *)

\* rmmod, when nobody has the device open.
Rmmod ==
  /\ step = "live"
  /\ step' = "unregister"
  /\ UNCHANGED <<i, leds, keys, irqs, irqKey, chrdev, mutexReady, failures,
                 leaked>>

Unregister ==
  /\ step = "unregister"
  /\ chrdev' = "free"
  /\ step' = "irq_free"
  /\ UNCHANGED <<i, leds, keys, irqs, irqKey, mutexReady, failures, leaked>>

\* Mutant of IrqFree: the loop stops one key early.
IrqFreeAllButOne ==
  /\ step = "irq_free"
  /\ irqs' = IF i = GPIOCNT THEN irqs ELSE irqs \ {i}
  /\ Advance("led_free")
  /\ UNCHANGED <<leds, keys, irqKey, chrdev, mutexReady, failures, leaked>>

IrqFree ==
  /\ step = "irq_free"
  /\ irqs' = irqs \ {i}
  /\ Advance("led_free")
  /\ UNCHANGED <<leds, keys, irqKey, chrdev, mutexReady, failures, leaked>>

LedFree ==
  /\ step = "led_free"
  /\ leds' = leds \ {i}
  /\ Advance("key_free")
  /\ UNCHANGED <<keys, irqs, irqKey, chrdev, mutexReady, failures, leaked>>

\* Mutant of KeyFree: exit calls gpioKeyInit() instead of gpioKeyFree(), as
\* kerneltimer_led.c does.
KeyFreeRequests ==
  /\ step = "key_free"
  /\ keys' = keys \cup {i}
  /\ Advance("destroy")
  /\ UNCHANGED <<leds, irqs, irqKey, chrdev, mutexReady, failures, leaked>>

KeyFree ==
  /\ step = "key_free"
  /\ keys' = keys \ {i}
  /\ Advance("destroy")
  /\ UNCHANGED <<leds, irqs, irqKey, chrdev, mutexReady, failures, leaked>>

Destroy ==
  /\ step = "destroy"
  /\ mutexReady' = FALSE
  /\ step' = "out"
  /\ UNCHANGED <<i, leds, keys, irqs, irqKey, chrdev, failures, leaked>>

ledkey_exit == Unregister \/ IrqFree \/ LedFree \/ KeyFree \/ Destroy

-----------------------------------------------------------------------------
Next == Insmod \/ ledkey_init \/ Rmmod \/ ledkey_exit

Spec == Init /\ [][Next]_vars

-----------------------------------------------------------------------------
(* Properties.                                                             *)

\* The type invariant.
TypeOK ==
  /\ step \in Steps
  /\ i \in Lines
  /\ leds \subseteq Lines /\ keys \subseteq Lines
  /\ irqs \subseteq Lines
  /\ irqKey \subseteq Lines
  /\ chrdev \in {"free", "registered"}
  /\ mutexReady \in BOOLEAN
  /\ failures \in 0..MaxFailures
  /\ leaked \in BOOLEAN

\* A load that reports success has got everything.
LiveComplete ==
  step = "live" =>
    leds = Lines /\ keys = Lines /\ irqs = Lines /\ chrdev = "registered"

\* An open can only come in while the whole device is there: the number is
\* registered last and given back first.
DeviceComplete ==
  chrdev = "registered" =>
    leds = Lines /\ keys = Lines /\ irqs = Lines /\ mutexReady

\* Interrupts come as soon as they are requested, long before init has ended,
\* and until they are freed: keyIsr() then finds its mutex and the whole of
\* irqKey[].  Only a failed load leaves a handler behind.
HandlersReady == irqs # {} /\ ~leaked => step # "out" /\ irqKey = Lines /\ mutexReady

\* Whichever request fails in whichever load: what the kernel or a process can
\* reach of the driver finds all that it uses.
LoadSafe == LiveComplete /\ DeviceComplete /\ HandlersReady

\* Loading and unloading any number of times keeps nothing, unless a load failed
\* half way.
CleanReload ==
  step = "out" /\ ~leaked => leds = {} /\ keys = {} /\ irqs = {} /\ chrdev = "free"

\* A load that fails half way is final: the line it requested first is never
\* given back, and every later load stops there with -EBUSY.
LeakIsFinal == leaked => 1 \in leds /\ step \in {"out", "led_request"} /\ chrdev = "free"
=============================================================================
