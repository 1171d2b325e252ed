----------------------------- MODULE KernelCalls -----------------------------
(***************************************************************************)
(* The notation the versions of the LED/key driver are written in.  A      *)
(* function of a driver is the sequence of the kernel calls and of the     *)
(* accesses to the driver's static variables it makes, each with the GPIO  *)
(* lines it is made for and with what the function still does when the     *)
(* call fails or the test is false.  DriverMachine runs these sequences.   *)
(*                                                                         *)
(* Lines 1..GPIOLEDCNT are the LEDs, the next GPIOKEYCNT are the keys.     *)
(***************************************************************************)
EXTENDS Naturals, Sequences

CONSTANTS
  GPIOLEDCNT,       \* number of LEDs (8 in the source)
  GPIOKEYCNT        \* number of keys (8 in the source)

ASSUME CountAssumption ==
  /\ GPIOLEDCNT \in Nat \ {0}
  /\ GPIOKEYCNT \in Nat \ {0}

gpioLed == [i \in 1..GPIOLEDCNT |-> i]
gpioKey == [i \in 1..GPIOKEYCNT |-> GPIOLEDCNT + i]

Leds == {gpioLed[i] : i \in DOMAIN gpioLed}
Keys == {gpioKey[i] : i \in DOMAIN gpioKey}
Lines == Leds \cup Keys

\* The number keyIsr() stores for a key line: its index from 1.
KeyNumber(line) == line - GPIOLEDCNT

-----------------------------------------------------------------------------
(* Statements.                                                             *)

\* call for the lines; if it fails the function does what is in fail, returns.
On(lines, call) == [call |-> call, lines |-> lines, checked |-> TRUE, fail |-> <<>>]

\* One statement that concerns no line.
Do(call) == <<On({}, call)>>

\* A function that reads or writes all the lines of a table.
Touch(lines) == <<On(lines, "touch")>>

\* for(i = 0; i < GPIOCNT; i++): the calls for one line after the other.
ForEach(table, calls) ==
  [n \in 1..(Len(table) * Len(calls)) |->
    On({table[1 + ((n - 1) \div Len(calls))]}, calls[1 + ((n - 1) % Len(calls))])]

\* The result of every call is dropped: the function goes on.
Unchecked(program) ==
  [n \in DOMAIN program |-> [program[n] EXCEPT !.checked = FALSE]]

\* When a call of the program fails, the function does this and returns.
OnFailure(program, cleanup) ==
  [n \in DOMAIN program |-> [program[n] EXCEPT !.fail = cleanup]]

\* A helper whose result its caller drops: the helper stops at its first
\* failure and the caller goes on with the rest.
CallThen(helper, rest) == OnFailure(helper, rest) \o rest

\* if(test) body; rest.
IfThen(test, body, rest) == OnFailure(Do(test), rest) \o body \o rest

-----------------------------------------------------------------------------
(* The shapes most drivers share.                                          *)

\* gpioLedInit() and gpioKeyInit() with a loop of requests, then one of
\* directions; and with one loop for both.
RequestThenDirect(table, direction) ==
  ForEach(table, <<"gpio_request">>) \o ForEach(table, <<direction>>)
RequestAndDirect(table, direction) ==
  ForEach(table, <<"gpio_request", direction>>)

\* gpioLedFree() and gpioKeyFree().
FreeAll(table) == ForEach(table, <<"gpio_free">>)

\* The helper functions of a file.
TwoLoopLines ==
  [ledInit |-> RequestThenDirect(gpioLed, "gpio_direction_output"),
   ledFree |-> FreeAll(gpioLed),
   keyInit |-> RequestThenDirect(gpioKey, "gpio_direction_input"),
   keyFree |-> FreeAll(gpioKey)]
OneLoopLines ==
  [ledInit |-> RequestAndDirect(gpioLed, "gpio_direction_output"),
   ledFree |-> FreeAll(gpioLed),
   keyInit |-> RequestAndDirect(gpioKey, "gpio_direction_input"),
   keyFree |-> FreeAll(gpioKey)]
IrqLines ==
  [toIrq   |-> ForEach(gpioKey, <<"gpio_to_irq">>),
   freeIrq |-> ForEach(gpioKey, <<"free_irq">>)]

\* What a version has unless it says otherwise: nothing.
Plain ==
  [init    |-> <<>>,
   exit    |-> <<>>,
   owner   |-> FALSE,      \* .owner = THIS_MODULE
   minors  |-> [m \in {} |-> {}],
   open    |-> <<>>,
   release |-> <<>>,
   calls   |-> [op \in {} |-> <<>>],    \* read(), write(), ioctl()
   direct  |-> [op \in {} |-> <<>>],    \* calls that need no open file
   isr     |-> <<>>,
   perOpen |-> FALSE,      \* keyNum is in a structure of each open file
   timer   |-> <<>>]

\* A version has its file operations, its init and its exit function.
Version(operations, load) ==
  [operations EXCEPT !.init = load.init, !.exit = load.exit]
=============================================================================
