---------------------------- MODULE UserPrograms ----------------------------
(***************************************************************************)
(* The applications of the LED/key driver: each reads the keys in a loop,  *)
(* shows the newest one on the LEDs and ends at the last key.  The body of *)
(* a loop is an operator that takes the byte read (or the line typed) and  *)
(* the program's variables and returns the variables after it.             *)
(*                                                                         *)
(* What read() returns depends on the driver: the keys held, a byte with   *)
(* one bit per key, or the number of the key whose interrupt came last.    *)
(***************************************************************************)
EXTENDS Naturals

CONSTANTS
  GPIOCNT,          \* number of keys and of LEDs (8 in the source)
  Programs,         \* the programs to choose from
  Levels,           \* the bytes of keys held together
  PressedKeys,      \* the keys pressed one at a time
  TypedLines,       \* the lines typed
  none,             \* no line, no key
  MaxLines          \* bound on the lines typed

ASSUME CountAssumption == GPIOCNT \in Nat \ {0}
\* Bit[n]: 1 << n, for the bits of a byte of keys and the value after the last.
Bit[n \in 0 .. GPIOCNT] == IF n = 0 THEN 1 ELSE 2 * Bit[n - 1]

ASSUME InputAssumption ==
  /\ Levels \subseteq 0 .. Bit[GPIOCNT] - 1
  /\ PressedKeys \subseteq 1 .. GPIOCNT
  /\ MaxLines \in Nat

\* buff = 1 << buff-1, a char.  For 0 the machine shifts every bit out.
Mask(key) == IF key \in 1 .. GPIOCNT THEN Bit[key - 1] ELSE 0

LastMask == Bit[GPIOCNT - 1]
AllOn == Bit[GPIOCNT] - 1
Has(byte, bit) == (byte \div bit) % 2 = 1

VARIABLES
  program,          \* the program that runs
  user,             \* its variables: oldBuff (or key_no), the LEDs, where it is
  level,            \* the keys held now
  mail,             \* keyNum of the driver
  line, lines,      \* the line typed and not yet read; lines typed so far
  asked,            \* history: the LEDs the inputs read so far ask for
  quit,             \* history: the input read last ends the program
  pending,          \* history: the key read last, if no line was read since
  empty             \* history: a program told of a key found none

userVars == <<program, user, level, mail, line, lines, asked, quit, pending, empty>>

\* old, leds and stage: what the loops below change.
Go(s, old, leds, stage) == [old |-> old, leds |-> leds, stage |-> stage]
EndIf(end, s) == IF end THEN "done" ELSE s.stage

-----------------------------------------------------------------------------
(* Programs on a driver that returns the keys held.                        *)

\* call_ledkey_app_ox.c
OxLoop(v, s) ==
  IF v = s.old THEN s
  ELSE IF v = 0 THEN [s EXCEPT !.old = 0]
  ELSE Go(s, v, v, EndIf(v = LastMask, s))

\* p184_ledkey_0620/call_ledkey_app.c
App0620Loop(v, s) ==
  IF v = s.old THEN s
  ELSE IF v = 0 THEN [s EXCEPT !.old = 0]
  ELSE Go(s, v, v, EndIf(v = LastMask, s))

\* p238: an array of bits; no key leaves oldBuff as it is.
ArrayLoop(v, s) ==
  IF v \in {0, s.old} THEN s ELSE Go(s, v, v, EndIf(Has(v, LastMask), s))

\* p270/minor_app.c: the last key makes the LEDs flash, then ends it.
MinorLoop(v, s) ==
  IF v = 0 THEN s
  ELSE IF Has(v, LastMask) THEN Go(s, v, 0, "done") ELSE Go(s, v, v, s.stage)

\* p270_minor_ledkey_minor2/minor_app.c: a loop that shows nothing, the flash,
\* a loop that shows the keys.
Minor2Loop(v, s) ==
  IF v = 0 THEN s
  ELSE IF s.stage = "run"
  THEN IF Has(v, LastMask) THEN Go(s, v, 0, "show") ELSE s
  ELSE Go(s, v, v, EndIf(Has(v, LastMask), s))

\* syscall_app.c: sets the LEDs with every call; the last call sets them to -1.
SyscallLoop(v, s) ==
  IF v = s.old THEN s
  ELSE IF v = 0 THEN [s EXCEPT !.old = 0]
  ELSE IF v = LastMask THEN Go(s, v, AllOn, "done") ELSE Go(s, v, v, s.stage)

\* p306_ledkey_ioctl_rw/ioctl_app.c and p306_ledkey_ioctl_rw_LEDKEY/ioctl_app.c,
\* up to their last loop: GETSTATE until the last key, READ until the first key,
\* ten WRITEs, WRITE_READ until the first key.
IoctlStages(v, s) ==
  IF s.stage = "run" THEN
    IF v \in {0, s.old} THEN s
    ELSE IF v = LastMask THEN Go(s, v, 0, "read") ELSE Go(s, v, s.leds, "run")
  ELSE IF s.stage = "read" THEN
    IF v = 1 THEN Go(s, s.old, AllOn - (Bit[GPIOCNT \div 2] - 1), "on") ELSE s
  ELSE
    Go(s, s.old, IF s.stage = "on" THEN AllOn ELSE 0,
       IF v = 1 THEN "ledkey" ELSE IF s.stage = "on" THEN "off" ELSE "on")

\* The last loop: LEDKEY sets the LEDs to oldState and returns the keys; at the
\* end LEDOFF.  The first program wants a key that differs from oldState.
IoctlRwLoop(v, s) ==
  IF s.stage # "ledkey" THEN IoctlStages(v, s)
  ELSE IF v \in {0, s.old} THEN [s EXCEPT !.leds = s.old]
  ELSE IF v = LastMask THEN Go(s, v, 0, "done") ELSE Go(s, v, s.old, s.stage)
IoctlLedkeyLoop(v, s) ==
  IF s.stage # "ledkey" THEN IoctlStages(v, s)
  ELSE IF v = 0 THEN [s EXCEPT !.leds = s.old]
  ELSE IF v = LastMask THEN Go(s, v, 0, "done") ELSE Go(s, v, s.old, s.stage)

-----------------------------------------------------------------------------
(* Programs on a driver that returns the number of a key.                  *)

\* p369_ledkey_int: oldBuff is a mask, buff a number.
IntLoop(v, s) ==
  IF v = s.old THEN s
  ELSE IF v = 0 THEN [s EXCEPT !.old = 0]
  ELSE Go(s, Mask(v), Mask(v), EndIf(Mask(v) = LastMask, s))

\* p369_ledkey_int_ksh, which makes the node first.
IntKshLoop(v, s) == IntLoop(v, s)

\* Mutant of KmallocLoop: it looks for the last key after the shift.
KmallocLoopShiftsFirst(v, s) ==
  IF v = 0 THEN s
  ELSE IF Mask(v) = GPIOCNT THEN [s EXCEPT !.stage = "done"]
  ELSE [s EXCEPT !.leds = Mask(v)]

\* p369_ledkey_int_kmalloc: the last key is not shown.
KmallocLoop(v, s) ==
  IF v = 0 THEN s
  ELSE IF v = GPIOCNT THEN [s EXCEPT !.stage = "done"]
  ELSE [s EXCEPT !.leds = Mask(v)]

\* p399_ledkey_blockio, whose read() waits for a key.
BlockLoop(v, s) ==
  IF v = s.old THEN s
  ELSE IF v = 0 THEN [s EXCEPT !.old = 0]
  ELSE Go(s, Mask(v), Mask(v), EndIf(Mask(v) = LastMask, s))

\* p399_ledkey_blockio_ksh opens with O_NONBLOCK: its read() does not wait.
BlockKshLoop(v, s) == BlockLoop(v, s)

\* Mutant of HjyLoop: it compares the number it has read.
HjyLoopComparesNumber(v, s) ==
  IF v \in {0, s.old} THEN s ELSE Go(s, Mask(v), Mask(v), EndIf(Mask(v) = LastMask, s))

\* kerneltimer_app_hjy.c: it shifts first and compares masks.
HjyLoop(v, s) ==
  IF Mask(v) \in {0, s.old} THEN s
  ELSE Go(s, Mask(v), Mask(v), EndIf(Mask(v) = LastMask, s))

\* p432_ledkey_poll/ledkey_poll_app.c: only a line that is "q" ends it.  A number
\* typed is cut to a char and shown as the key of that number.
PollLoop(v, s) ==
  IF v = GPIOCNT THEN [s EXCEPT !.stage = "done"] ELSE [s EXCEPT !.leds = Mask(v)]
PollLine(l, s) ==
  IF l.text = "q" THEN [s EXCEPT !.stage = "done"] ELSE [s EXCEPT !.leds = Mask(l.dec % Bit[GPIOCNT])]

\* p432_ledkey_poll_builtin/ledkey_poll_app.c, which makes the node first.
PollBuiltinLoop(v, s) == PollLoop(v, s)

\* Mutant of P527Loop: it compares the number it has read with the last mask.
P527LoopComparesNumber(v, s) ==
  [s EXCEPT !.leds = Mask(v), !.stage = EndIf(v = LastMask, s)]

\* p527_ledkey_proc/p527_ledkey_app.c: a line that starts with q ends it, the
\* last key is shown, a number typed is shown bit by bit.
P527Loop(v, s) == [s EXCEPT !.leds = Mask(v), !.stage = EndIf(Mask(v) = LastMask, s)]
P527Line(l, s) ==
  IF l.text \in {"q", "quit"} THEN [s EXCEPT !.stage = "done"]
  ELSE [s EXCEPT !.leds = l.dec % Bit[GPIOCNT]]

\* kerneltimer_app.c: old is key_no, leds the value the timer blinks with.  Key 2
\* waits for a period, key 3 for a value; the keys that start and stop the timer
\* change neither.
TimerLoop(v, s) == [s EXCEPT !.old = v, !.stage = EndIf(v = GPIOCNT, s)]
TimerLine(l, s) ==
  IF l.text \in {"q", "quit"} THEN [s EXCEPT !.stage = "done"]
  ELSE IF s.old = 3 THEN Go(s, 0, l.hex % Bit[GPIOCNT], s.stage) ELSE [s EXCEPT !.old = 0]

-----------------------------------------------------------------------------
(* The programs together.                                                  *)

LevelPrograms ==
  {"Ox", "App0620", "Array", "Minor", "Minor2", "Syscall", "IoctlRw", "IoctlLedkey"}
NumberPrograms == {"Int", "IntKsh", "Kmalloc", "Block", "BlockKsh", "Hjy", "Poll",
                   "PollBuiltin", "P527", "Timer"}
PollPrograms == {"Poll", "PollBuiltin", "P527", "Timer"}
KeyboardFirst == {"Poll", "PollBuiltin", "P527"}
QuitPrograms == {"P527", "Timer"}    \* any line that starts with q ends them
IoctlPrograms == {"IoctlRw", "IoctlLedkey"}

ASSUME ProgramAssumption == Programs \subseteq LevelPrograms \cup NumberPrograms

Loop(v, s) ==
  CASE program = "Ox" -> OxLoop(v, s)
    [] program = "App0620" -> App0620Loop(v, s)
    [] program = "Array" -> ArrayLoop(v, s)
    [] program = "Minor" -> MinorLoop(v, s)
    [] program = "Minor2" -> Minor2Loop(v, s)
    [] program = "Syscall" -> SyscallLoop(v, s)
    [] program = "IoctlRw" -> IoctlRwLoop(v, s)
    [] program = "IoctlLedkey" -> IoctlLedkeyLoop(v, s)
    [] program = "Int" -> IntLoop(v, s)
    [] program = "IntKsh" -> IntKshLoop(v, s)
    [] program = "Kmalloc" -> KmallocLoop(v, s)
    [] program = "Block" -> BlockLoop(v, s)
    [] program = "BlockKsh" -> BlockKshLoop(v, s)
    [] program = "Hjy" -> HjyLoop(v, s)
    [] program = "Poll" -> PollLoop(v, s)
    [] program = "PollBuiltin" -> PollBuiltinLoop(v, s)
    [] program = "P527" -> P527Loop(v, s)
    [] program = "Timer" -> TimerLoop(v, s)

LineLoop(l, s) ==
  CASE program \in {"Poll", "PollBuiltin"} -> PollLine(l, s)
    [] program = "P527" -> P527Line(l, s)
    [] program = "Timer" -> TimerLine(l, s)

\* The LEDs a program has to show after it has read this key or line.
KeyAsks(v) ==
  IF program = "Timer"
  THEN IF pending = none THEN user.leds ELSE asked
  ELSE IF v = 0 \/ (program \in {"Kmalloc", "Poll", "PollBuiltin"} /\ v = GPIOCNT) THEN asked
  ELSE IF program \in NumberPrograms THEN Mask(v) ELSE v
LineAsks(l) ==
  IF l.text = "q" \/ (l.text = "quit" /\ program \in QuitPrograms) THEN asked
  ELSE CASE program \in {"Poll", "PollBuiltin"} -> Mask(l.dec % Bit[GPIOCNT])
         [] program = "P527" -> l.dec % Bit[GPIOCNT]
         [] program = "Timer" -> IF pending = 3 THEN l.hex % Bit[GPIOCNT] ELSE asked

\* The inputs that have to end a program.
KeyQuits(v) ==
  IF program \in NumberPrograms THEN v = GPIOCNT
  ELSE IF program \in {"Array", "Minor"} THEN Has(v, LastMask) ELSE v = LastMask
LineQuits(l) == l.text = "q" \/ (l.text = "quit" /\ program \in QuitPrograms)

Running == user.stage \notin {"start", "done", "failed"}

ProgramInit ==
  /\ program \in Programs
  /\ user \in [old : IF program = "Timer" THEN 0 .. GPIOCNT ELSE {0}, leds : {0},
               stage : {"start"}]
  /\ level = 0 /\ mail = 0
  /\ line = none /\ lines = 0
  /\ asked = 0 /\ quit = FALSE /\ pending = none /\ empty = FALSE

\* main() up to its loop: open() may fail, then the LEDs get the value of the
\* command line.  The ioctl programs request the lines, each request may fail,
\* and turn the LEDs on; the minor programs and syscall_app, whose value is
\* typed, leave them to the loop.
Start ==
  /\ user.stage = "start"
  /\ \/ user' = [user EXCEPT !.stage = "failed"] /\ UNCHANGED asked
     \/ \E leds \in IF program \in IoctlPrograms THEN {AllOn}
                    ELSE IF program \in {"Minor", "Minor2"} THEN {user.leds} ELSE Levels :
          /\ user' = [user EXCEPT !.leds = leds, !.stage = "run"]
          /\ asked' = leds
  /\ UNCHANGED <<program, level, mail, line, lines, quit, pending, empty>>

\* read() or its ioctl() with the body of the loop.
Take(v) ==
  /\ user' = Loop(v, user)
  /\ asked' = KeyAsks(v)
  /\ quit' = KeyQuits(v)
  /\ pending' = IF v = 0 /\ program # "Timer" THEN pending ELSE v
  /\ UNCHANGED <<program, level, line, lines>>

ReadLevel ==
  /\ Running /\ program \in LevelPrograms
  /\ Take(level)
  /\ UNCHANGED <<mail, empty>>

\* poll() comes first in three programs: one looks at the device first, two at
\* the keyboard.
Reads ==
  /\ Running /\ program \in NumberPrograms
  /\ program \in PollPrograms \cup {"Block"} => mail # 0
  /\ program \in KeyboardFirst => line = none

ReadNumber ==
  /\ Reads
  /\ Take(mail)
  /\ mail' = 0
  /\ UNCHANGED empty

\* The trylock of read() meets keyIsr(), which stores its key: read() returns 0.
ReadDuringIsr(k) ==
  /\ Reads
  /\ Take(0)
  /\ mail' = k
  /\ empty' = TRUE

ReadLine ==
  /\ Running /\ line # none
  /\ program = "Timer" => mail = 0
  /\ user' = LineLoop(line, user)
  /\ asked' = LineAsks(line)
  /\ quit' = LineQuits(line)
  /\ pending' = IF pending = none THEN none ELSE 0
  /\ line' = none
  /\ UNCHANGED <<program, level, mail, lines, empty>>

\* The system call returns an error while another process is in it.
CallFails ==
  /\ Running /\ program = "Syscall"
  /\ user' = [user EXCEPT !.stage = "failed"]
  /\ UNCHANGED <<program, level, mail, line, lines, asked, quit, pending, empty>>

\* The person at the keys and the keyboard.
Hold ==
  /\ program \in LevelPrograms
  /\ level' \in Levels
  /\ UNCHANGED <<program, user, mail, line, lines, asked, quit, pending, empty>>
Press(k) ==
  /\ program \in NumberPrograms
  /\ mail' = k
  /\ UNCHANGED <<program, user, level, line, lines, asked, quit, pending, empty>>
Type ==
  /\ program \in PollPrograms /\ line = none /\ lines < MaxLines
  /\ line' \in TypedLines
  /\ lines' = lines + 1
  /\ UNCHANGED <<program, user, level, mail, asked, quit, pending, empty>>

Step == ReadLevel \/ ReadNumber \/ ReadLine

ProgramNext ==
  \/ Start \/ Step \/ CallFails
  \/ \E k \in PressedKeys : ReadDuringIsr(k) \/ Press(k)
  \/ Hold \/ Type

\* A program in its loop goes on.
ProgramSpec == ProgramInit /\ [][ProgramNext]_userVars /\ WF_userVars(Step)

-----------------------------------------------------------------------------
(* Properties.                                                             *)

\* The programs that look at every key.  Those of p369 and p399 compare the number
\* of a key with the mask of the one before: they pass over 4 after 3 and 8 after 4.
Attentive == (LevelPrograms \cup NumberPrograms) \ {"Int", "IntKsh", "Block", "BlockKsh"}

\* The programs whose LEDs follow the keys from the first loop to the end.
Followers == Attentive \ (IoctlPrograms \cup {"Minor", "Minor2", "Syscall"})

\* After every input the LEDs show the newest key or line read that asked for
\* something, whatever keys were pressed before, together or again, and however
\* keys and lines alternate; a program told of a key that then finds none may
\* have turned them off.
ShowsNewest ==
  program \in Followers /\ Running /\ ~(program \in KeyboardFirst /\ empty)
    /\ ~(program = "Timer" /\ pending = none)
  => user.leds = asked

\* A program has ended exactly when the input it read last ends it: the last key
\* is neither missed after another key nor taken from keys that are not it.
EndsWithLastKey ==
  program \in Attentive \ (IoctlPrograms \cup {"Minor2"}) /\ user.stage \notin {"start", "failed"}
  => (user.stage = "done" <=> quit)

\* A person who presses the last key, or holds it, comes to the end of every
\* program that waits for it, whatever came before.
AwaitsLastKey == Running /\ program # "IoctlRw" /\ user.stage \notin {"read", "on", "off"}
LastKeyEnds ==
  /\ []<>~(AwaitsLastKey /\ program \in LevelPrograms /\ level = LastMask)
  /\ (AwaitsLastKey /\ program \in Attentive /\ mail = GPIOCNT)
       ~> (~Running \/ mail \in 1 .. GPIOCNT - 1)
=============================================================================
