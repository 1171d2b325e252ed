------------------------------- MODULE FndDev -------------------------------
(***************************************************************************)
(* fnd_4digit: the driver of a seven-segment display and its application.  *)
(* A kernel thread lights one position after the other; write() stores the *)
(* digits it shows.  The application loads the driver, writes the numbers  *)
(* it reads, and unloads it; several copies of it may run.                 *)
(*                                                                         *)
(* Positions count from 0 at the left, as fnd_sel does.  A position is lit *)
(* while its select line is low.                                           *)
(***************************************************************************)
EXTENDS Integers, FiniteSets

CONSTANTS
  SELCNT,           \* positions of the display (4 in the source)
  DATACNT,          \* lines of the segments (8 in the source)
  Processes,        \* copies of fnd_app
  Numbers,          \* the numbers typed
  junk,             \* the pattern of a byte outside num[]
  none,             \* nobody, no number
  MaxLoads,         \* bound on insmod
  MaxWrites,        \* bound on write()
  MaxBusy           \* bound on the lines somebody else holds at a load

ASSUME CountAssumption == SELCNT \in Nat \ {0, 1} /\ DATACNT \in Nat \ {0}
ASSUME NumberAssumption == Numbers \subseteq Int /\ none \notin Numbers
ASSUME BoundAssumption == {MaxLoads, MaxWrites, MaxBusy} \subseteq Nat

Positions == 0 .. SELCNT - 1
DataLines == 1 .. DATACNT

VARIABLES
  mod,              \* "out", "requested", "running", "live", "stopping"
  selHeld, dataHeld,  \* the lines the driver holds
  level,            \* level[p]: the select line of position p, 0 lights
  face,             \* face[p]: the pattern position p was lit with last
  d,                \* the digits to show, the right one first
  thread,           \* "none" or the next step of fnd_thread()
  i,                \* the position fnd_thread() is at
  should_stop,      \* kthread_should_stop()
  node,             \* /dev/fnd_dev exists
  app,              \* app[p]: where process p is
  tmp, n,           \* tmp[p], n[p]: what p writes, the next digit it stores
  loads, writes,
  unloaded,         \* history: the last thing that happened to mod was an exit
  alone, whole      \* history: the write that met no other; what it has written

loadVars  == <<mod, selHeld, dataHeld, node, loads, unloaded>>
scanVars  == <<level, face, thread, i>>
writeVars == <<d, tmp, n, writes, alone, whole>>
fndVars == <<loadVars, scanVars, writeVars, should_stop, app>>

-----------------------------------------------------------------------------
(* snprintf(tmp, sizeof(tmp), "%04d", data): the sign and as many digits as *)
(* make SELCNT characters, cut after the first SELCNT.  A character is its  *)
(* distance from '0'; that of '-' is -3.                                   *)
Cut(x, size) ==
  LET cut[y \in Nat] == IF y < 10^size THEN y ELSE cut[y \div 10] IN cut[x]
Character(x, size, k) == (Cut(x, size) \div 10^(size - 1 - k)) % 10
Printed(data) ==
  IF data >= 0
  THEN [k \in Positions |-> Character(data, SELCNT, k)]
  ELSE [k \in Positions |-> IF k = 0 THEN -3 ELSE Character(-data, SELCNT - 1, k - 1)]

\* What the segments show for an entry of d.
num(digit) == IF digit \in 0..9 THEN digit ELSE junk

\* The display reads this number.
Shows(number) == \A p \in Positions : face[p] = num(Printed(number)[p])

OpenApps == {p \in Processes : app[p] \in {"prompt", "writing"}}

FndInit ==
  /\ mod = "out"
  /\ selHeld = {} /\ dataHeld = {}
  /\ level \in [Positions -> {0, 1}]
  /\ face = [p \in Positions |-> 0]
  /\ d = [p \in Positions |-> 0]
  /\ thread = "none" /\ i = 0
  /\ should_stop = FALSE
  /\ node = FALSE
  /\ app = [p \in Processes |-> "start"]
  /\ tmp = [p \in Processes |-> [k \in Positions |-> 0]]
  /\ n = [p \in Processes |-> 0]
  /\ loads = 0 /\ writes = 0
  /\ unloaded = FALSE
  /\ alone = none /\ whole = none

-----------------------------------------------------------------------------
(* fnd_thread().                                                           *)

\* Mutant of Previous: the first position forgets the last one.
PreviousNoWrap == IF i = 0 THEN 0 ELSE i - 1

\* fnd_pos() of the position before, from the first one that of the last.
Previous == IF i = 0 THEN SELCNT - 1 ELSE i - 1

\* The code of a module that is gone takes no step.
ScanAt(step) == thread = step /\ mod # "out"

\* A thread that is stopped before its first run does not run at all.
ScanStart ==
  /\ ScanAt("new")
  /\ thread' = IF should_stop THEN "none" ELSE "unselect"
  /\ UNCHANGED <<loadVars, writeVars, level, face, i, should_stop, app>>

ScanUnselect ==
  /\ ScanAt("unselect")
  /\ level' = [level EXCEPT ![Previous] = 1]
  /\ thread' = "select"
  /\ UNCHANGED <<loadVars, writeVars, face, i, should_stop, app>>

ScanSelect ==
  /\ ScanAt("select")
  /\ level' = [level EXCEPT ![i] = 0]
  /\ thread' = "number"
  /\ UNCHANGED <<loadVars, writeVars, face, i, should_stop, app>>

\* fnd_num(): the pattern that is seen during the delay after it.
ScanNumber ==
  /\ ScanAt("number")
  /\ face' = [face EXCEPT ![i] = num(d[SELCNT - 1 - i])]
  /\ thread' = "delay"
  /\ UNCHANGED <<loadVars, writeVars, level, i, should_stop, app>>

ScanDelay ==
  /\ ScanAt("delay")
  /\ IF i < SELCNT - 1
     THEN i' = i + 1 /\ thread' = "unselect"
     ELSE i' = 0 /\ thread' = IF should_stop THEN "none" ELSE "unselect"
  /\ UNCHANGED <<loadVars, writeVars, level, face, should_stop, app>>

Scan == ScanStart \/ ScanUnselect \/ ScanSelect \/ ScanNumber \/ ScanDelay

-----------------------------------------------------------------------------
(* drv_hw_fnd_init() and drv_hw_fnd_exit().                                *)

\* The two loops go on after a refused request; only the last one decides.
InitLines(p) ==
  /\ mod = "out" /\ thread = "none" /\ loads < MaxLoads
  /\ \E busySel \in SUBSET (Positions \ selHeld), busyData \in SUBSET (DataLines \ dataHeld) :
       /\ Cardinality(busySel) + Cardinality(busyData) <= MaxBusy
       /\ level' = [q \in Positions |-> IF q \in selHeld \cup busySel THEN level[q] ELSE 1]
       /\ selHeld' = Positions \ busySel
       /\ dataHeld' = DataLines \ busyData
       /\ mod' = IF DATACNT \in dataHeld \cup busyData THEN "out" ELSE "requested"
  /\ loads' = loads + 1
  /\ unloaded' = FALSE
  /\ app' = [app EXCEPT ![p] = IF mod' = "out" THEN "open" ELSE "insmod"]
  /\ UNCHANGED <<node, face, thread, i, writeVars, should_stop>>

\* kthread_run() may fail.
InitThread ==
  /\ mod = "requested"
  /\ \/ mod' = "running" /\ thread' = "new" /\ i' = 0
     \/ mod' = "out" /\ UNCHANGED <<thread, i>>
  /\ UNCHANGED <<selHeld, dataHeld, node, loads, unloaded, level, face,
                 writeVars, should_stop, app>>

\* misc_register() may fail: the thread is then left in freed memory.
InitRegister ==
  /\ mod = "running"
  /\ \/ mod' = "live" /\ node' = TRUE
     \/ mod' = "out" /\ UNCHANGED node
  /\ UNCHANGED <<selHeld, dataHeld, loads, unloaded, scanVars, writeVars, should_stop, app>>

\* Mutant of ThreadStopped: nobody waits.
ThreadToldToStop == should_stop

\* kthread_stop() waits for the end of the thread.
ThreadStopped == thread = "none"

\* The next load finds its variables as the first did: d is all 0.
ExitFree ==
  /\ mod = "stopping" /\ ThreadStopped
  /\ level' = [q \in Positions |-> 1]
  /\ face' = [q \in Positions |-> 0] /\ d' = [q \in Positions |-> 0]
  /\ should_stop' = FALSE
  /\ alone' = none /\ whole' = none
  /\ selHeld' = {} /\ dataHeld' = {}
  /\ node' = FALSE
  /\ mod' = "out"
  /\ unloaded' = TRUE
  /\ UNCHANGED <<loads, thread, i, tmp, n, writes, app>>

-----------------------------------------------------------------------------
(* fnd_app: main(), and the write() it calls.                              *)

\* access(), and insmod if there is no node; it fails for a loaded module.
AppStart(p) ==
  /\ app[p] = "start"
  /\ \/ ~node /\ InitLines(p)
     \/ /\ node \/ mod # "out"
        /\ app' = [app EXCEPT ![p] = "open"]
        /\ UNCHANGED <<loadVars, scanVars, writeVars, should_stop>>

\* system() returns when insmod has ended.
AppLoaded(p) ==
  /\ app[p] = "insmod" /\ mod \notin {"requested", "running"}
  /\ app' = [app EXCEPT ![p] = "open"]
  /\ UNCHANGED <<loadVars, scanVars, writeVars, should_stop>>

\* .owner = THIS_MODULE: a module that is being unloaded cannot be opened.
AppOpen(p) ==
  /\ app[p] = "open"
  /\ app' = [app EXCEPT ![p] = IF node /\ mod # "stopping" THEN "prompt" ELSE "start"]
  /\ UNCHANGED <<loadVars, scanVars, writeVars, should_stop>>

WriteBegin(p) ==
  /\ app[p] = "prompt" /\ writes < MaxWrites
  /\ \E data \in Numbers :
       tmp' = [tmp EXCEPT ![p] = Printed(data)]
  /\ app' = [app EXCEPT ![p] = "writing"]
  /\ n' = [n EXCEPT ![p] = 0]
  /\ writes' = writes + 1
  /\ alone' = IF \E q \in Processes : app[q] = "writing" THEN none ELSE p
  /\ whole' = none
  /\ UNCHANGED <<d, loadVars, scanVars, should_stop>>

\* Mutant of Source: the digits are not reversed.
SourceSameOrder(k) == k

\* The character that becomes d[k].
Source(k) == SELCNT - 1 - k

WriteDigit(p) ==
  /\ app[p] = "writing" /\ n[p] < SELCNT
  /\ d' = [d EXCEPT ![n[p]] = tmp[p][Source(n[p])]]
  /\ n' = [n EXCEPT ![p] = n[p] + 1]
  /\ UNCHANGED <<loadVars, scanVars, tmp, writes, alone, whole, should_stop, app>>

WriteEnd(p) ==
  /\ app[p] = "writing" /\ n[p] = SELCNT
  /\ app' = [app EXCEPT ![p] = "prompt"]
  /\ n' = [n EXCEPT ![p] = 0]
  /\ tmp' = [tmp EXCEPT ![p] = [k \in Positions |-> 0]]
  /\ whole' = IF alone = p THEN CHOOSE data \in Numbers : Printed(data) = tmp[p] ELSE none
  /\ UNCHANGED <<d, loadVars, scanVars, writes, alone, should_stop>>

\* close(), then rmmod, which needs a module nobody uses.
AppQuit(p) ==
  /\ app[p] = "prompt"
  /\ app' = [app EXCEPT ![p] = "rmmod"]
  /\ UNCHANGED <<loadVars, scanVars, writeVars, should_stop>>

AppRmmod(p) ==
  /\ app[p] = "rmmod"
  /\ app' = [app EXCEPT ![p] = "start"]
  /\ IF mod = "live" /\ OpenApps = {}
     THEN mod' = "stopping" /\ should_stop' = TRUE
     ELSE UNCHANGED <<mod, should_stop>>
  /\ UNCHANGED <<selHeld, dataHeld, node, loads, unloaded, scanVars, writeVars>>

-----------------------------------------------------------------------------
App(p) ==
  \/ AppStart(p) \/ AppLoaded(p) \/ AppOpen(p)
  \/ WriteBegin(p) \/ WriteDigit(p) \/ WriteEnd(p)
  \/ AppQuit(p) \/ AppRmmod(p)

FndNext ==
  \/ Scan
  \/ InitThread \/ InitRegister \/ ExitFree
  \/ \E p \in Processes : App(p)

\* The scheduler runs the thread, which sleeps nowhere.
FndSpec == FndInit /\ [][FndNext]_fndVars /\ WF_fndVars(Scan)

-----------------------------------------------------------------------------
(* Properties.                                                             *)

\* As long as the driver holds the select lines at most one position is lit,
\* loaded any number of times and from whatever levels the lines had before:
\* two lit positions would show one digit twice.
AtMostOneLit ==
  selHeld = Positions =>
    \A p, q \in Positions : level[p] = 0 /\ level[q] = 0 => p = q

\* After an unload the display is dark and stays so, no line is held and nothing
\* of the driver runs on.
UnloadedIsDark ==
  mod = "out" /\ unloaded =>
    /\ \A p \in Positions : level[p] = 1
    /\ thread = "none" /\ ~node
    /\ selHeld = {} /\ dataHeld = {}

\* A number whose write met no other write is what the display comes to show,
\* wherever the scan was while its digits were replaced one by one.
NumberShown ==
  \A data \in Numbers :
    (whole = data /\ mod = "live") ~> (Shows(data) \/ whole # data \/ mod # "live")
=============================================================================
