------------------------------ MODULE IoctlDev ------------------------------
(***************************************************************************)
(* Who holds the GPIO lines of p306_ledkey_ioctl_rw_LEDKEY_ksh/ioctl_dev.c:*)
(* the lines are requested and given back by ioctl commands that any       *)
(* process may issue at any time, and given back by release() if the flags *)
(* gpioLedInitFlag and gpioKeyInitFlag say so.  No lock is taken anywhere. *)
(*                                                                         *)
(* Every statement on a flag or a line is a step.  The commands that read  *)
(* keys or set LEDs change neither and are left out, and so is the         *)
(* module's reference count, with the unloading: open() takes a reference  *)
(* without looking at the result and release() gives it back, which is the *)
(* version P306 in DriverMachine.  Of the lines only                       *)
(* those this driver has requested are followed; gpio_free() of another    *)
(* line, which the kernel complains about, changes nothing here.           *)
(***************************************************************************)
EXTENDS Naturals

CONSTANTS
  Users,            \* processes, each with one file
  GPIOCNT           \* number of LEDs and of keys (8 in the source)

ASSUME GpioAssumption == GPIOCNT \in Nat \ {0}

VARIABLES
  gpioLedInitFlag, gpioKeyInitFlag,
  leds, keys,       \* the lines the driver has requested
  pc,               \* pc[p]: next statement of process p
  cmd,              \* cmd[p]: the command or the call p is in
  i                 \* i[p]: its loop variable, counted from 1

flags == <<gpioLedInitFlag, gpioKeyInitFlag>>
vars == <<flags, leds, keys, pc, cmd, i>>

Lines    == 1..GPIOCNT
Commands == {"KEYLEDINIT", "KEYINIT", "LEDINIT", "KEYLEDFREE"}
Labels   == {"closed", "open", "led_request", "key_request",
             "led_flag", "key_flag", "led_clear", "key_clear",
             "led_test", "led_free", "key_test", "key_free"}

Init ==
  /\ gpioLedInitFlag = 0
  /\ gpioKeyInitFlag = 0
  /\ leds = {}
  /\ keys = {}
  /\ pc = [p \in Users |-> "closed"]
  /\ cmd = [p \in Users |-> "none"]
  /\ i = [p \in Users |-> 1]

Goto(p, from, to) ==
  /\ pc[p] = from
  /\ pc' = [pc EXCEPT ![p] = to]

\* The loop body has run for one line: the next line, or the statement after it.
NextLine(p, from, to) ==
  /\ Goto(p, from, IF i[p] = GPIOCNT THEN to ELSE from)
  /\ i' = [i EXCEPT ![p] = IF @ = GPIOCNT THEN 1 ELSE @ + 1]

\* The loop is left because of an error.
LeaveLoop(p, from, to) ==
  /\ Goto(p, from, to)
  /\ i' = [i EXCEPT ![p] = 1]

Open(p) ==
  /\ Goto(p, "closed", "open")
  /\ UNCHANGED <<flags, leds, keys, cmd, i>>

-----------------------------------------------------------------------------
(* ledkey_ioctl().                                                         *)

FirstLabel(c) ==
  CASE c = "KEYLEDINIT" -> "led_request"
    [] c = "KEYINIT"    -> "key_request"
    [] c = "LEDINIT"    -> "led_flag"
    [] c = "KEYLEDFREE" -> "led_clear"

Ioctl(p, c) ==
  /\ Goto(p, "open", FirstLabel(c))
  /\ cmd' = [cmd EXCEPT ![p] = c]
  /\ UNCHANGED <<flags, leds, keys, i>>

\* gpioLedInit() has returned: KEYLEDINIT goes on with the keys if it succeeded
\* and with the flags if not; LEDINIT, whose flag is set, returns.
AfterLedInit(p) == IF cmd[p] = "LEDINIT" THEN {"open"} ELSE {"key_request", "led_flag"}

LedRequest(p) ==
  /\ i[p] \notin leds
  /\ \E to \in AfterLedInit(p) : NextLine(p, "led_request", to)
  /\ leds' = leds \cup {i[p]}
  /\ UNCHANGED <<flags, keys, cmd>>

\* gpio_request() fails: the line is taken, by this driver or by another.
LedRequestFails(p) ==
  /\ \E to \in AfterLedInit(p) \ {"key_request"} : LeaveLoop(p, "led_request", to)
  /\ UNCHANGED <<flags, leds, keys, cmd>>

\* After gpioKeyInit() the flags are set, whatever its result was.
AfterKeyInit(p) == IF cmd[p] = "KEYINIT" THEN "key_flag" ELSE "led_flag"

KeyRequest(p) ==
  /\ i[p] \notin keys
  /\ NextLine(p, "key_request", AfterKeyInit(p))
  /\ keys' = keys \cup {i[p]}
  /\ UNCHANGED <<flags, leds, cmd>>

\* Mutant of KeyRequestFails: a failed gpioKeyInit() returns before the flag.
KeyRequestFailsUnflagged(p) ==
  /\ LeaveLoop(p, "key_request", "open")
  /\ UNCHANGED <<flags, leds, keys, cmd>>

KeyRequestFails(p) ==
  /\ LeaveLoop(p, "key_request", AfterKeyInit(p))
  /\ UNCHANGED <<flags, leds, keys, cmd>>

\* LEDINIT sets its flag before it requests the lines, KEYLEDINIT after.
SetLedFlag(p) ==
  /\ Goto(p, "led_flag", IF cmd[p] = "LEDINIT" THEN "led_request" ELSE "key_flag")
  /\ gpioLedInitFlag' = 1
  /\ UNCHANGED <<gpioKeyInitFlag, leds, keys, cmd, i>>

SetKeyFlag(p) ==
  /\ Goto(p, "key_flag", "open")
  /\ gpioKeyInitFlag' = 1
  /\ UNCHANGED <<gpioLedInitFlag, leds, keys, cmd, i>>

ClearLedFlag(p) ==
  /\ Goto(p, "led_clear", "key_clear")
  /\ gpioLedInitFlag' = 0
  /\ UNCHANGED <<gpioKeyInitFlag, leds, keys, cmd, i>>

ClearKeyFlag(p) ==
  /\ Goto(p, "key_clear", "led_free")
  /\ gpioKeyInitFlag' = 0
  /\ UNCHANGED <<gpioLedInitFlag, leds, keys, cmd, i>>

\* gpioLedFree() and gpioKeyFree(), called by KEYLEDFREE and by release().
LedFree(p) ==
  /\ NextLine(p, "led_free", IF cmd[p] = "KEYLEDFREE" THEN "key_free" ELSE "key_test")
  /\ leds' = leds \ {i[p]}
  /\ UNCHANGED <<flags, keys, cmd>>

KeyFree(p) ==
  /\ NextLine(p, "key_free", IF cmd[p] = "KEYLEDFREE" THEN "open" ELSE "closed")
  /\ keys' = keys \ {i[p]}
  /\ UNCHANGED <<flags, leds, cmd>>

-----------------------------------------------------------------------------
(* ledkey_release(), which leaves the flags as they are.                   *)

Close(p) ==
  /\ Goto(p, "open", "led_test")
  /\ cmd' = [cmd EXCEPT ![p] = "release"]
  /\ UNCHANGED <<flags, leds, keys, i>>

TestLedFlag(p) ==
  /\ Goto(p, "led_test", IF gpioLedInitFlag = 1 THEN "led_free" ELSE "key_test")
  /\ UNCHANGED <<flags, leds, keys, cmd, i>>

\* Mutant of TestKeyFlag: the flag of the LEDs is tested for the keys.
TestWrongFlag(p) ==
  /\ Goto(p, "key_test", IF gpioLedInitFlag = 1 THEN "key_free" ELSE "closed")
  /\ UNCHANGED <<flags, leds, keys, cmd, i>>

TestKeyFlag(p) ==
  /\ Goto(p, "key_test", IF gpioKeyInitFlag = 1 THEN "key_free" ELSE "closed")
  /\ UNCHANGED <<flags, leds, keys, cmd, i>>

-----------------------------------------------------------------------------
ledkey_ioctl(p) ==
  \/ \E c \in Commands : Ioctl(p, c)
  \/ LedRequest(p) \/ LedRequestFails(p) \/ KeyRequest(p) \/ KeyRequestFails(p)
  \/ SetLedFlag(p) \/ SetKeyFlag(p) \/ ClearLedFlag(p) \/ ClearKeyFlag(p)

ledkey_release(p) == Close(p) \/ TestLedFlag(p) \/ TestKeyFlag(p)

Next ==
  \E p \in Users :
    Open(p) \/ ledkey_ioctl(p) \/ LedFree(p) \/ KeyFree(p) \/ ledkey_release(p)

Spec == Init /\ [][Next]_vars

-----------------------------------------------------------------------------
(* Properties.                                                             *)

\* The type invariant.
TypeOK ==
  /\ gpioLedInitFlag \in {0, 1} /\ gpioKeyInitFlag \in {0, 1}
  /\ leds \subseteq Lines /\ keys \subseteq Lines
  /\ pc \in [Users -> Labels]
  /\ cmd \in [Users -> Commands \cup {"none", "release"}]
  /\ i \in [Users -> Lines]

\* A process is about to set gpioKeyInitFlag.
WillSetKeyFlag(p) ==
  \/ pc[p] \in {"key_request", "key_flag"}
  \/ pc[p] \in {"led_request", "led_flag"} /\ cmd[p] = "KEYLEDINIT"

\* A process is about to free key line k on behalf of KEYLEDFREE.
WillFreeKey(p, k) ==
  /\ cmd[p] = "KEYLEDFREE"
  /\ pc[p] = "led_free" \/ (pc[p] = "key_free" /\ i[p] <= k)

\* No key line is held behind the back of the flag: whatever commands of
\* whatever processes overlap, a line that is requested is either flagged, so
\* that release() gives it back, or in the hands of a command that has not
\* ended.  It needs the flag to be set after the lines are requested, which
\* KEYINIT does and LEDINIT does not, and cleared before they are freed.
TrackedKeys ==
  \A k \in keys :
    \/ gpioKeyInitFlag = 1
    \/ \E p \in Users : WillSetKeyFlag(p) \/ WillFreeKey(p, k)

\* When every file is closed all key lines are back, so that the module can be
\* removed and another driver can request them.
ClosedReturnsKeys == (\A p \in Users : pc[p] = "closed") => keys = {}
=============================================================================
