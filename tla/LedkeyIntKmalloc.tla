-------------------------- MODULE LedkeyIntKmalloc --------------------------
(***************************************************************************)
(* open(), release(), read(), keyIsr() and the unloading of the driver     *)
(* p369_ledkey_int_kmalloc_hjy/ledkey_int_dev.c, which keeps the key state *)
(* in a structure it allocates in every open() and requests the interrupts *)
(* of the keys there, with that structure as the handler's data.  Every    *)
(* error return of open() keeps what open() has got so far.                *)
(*                                                                         *)
(* Structures are numbered in the order of their allocation and not used   *)
(* again.  A key's handler does not interrupt itself; those of different   *)
(* keys may overlap.  The model starts when init has succeeded and ends    *)
(* when the module's text is gone.                                         *)
(***************************************************************************)
EXTENDS Naturals

CONSTANTS
  Users,            \* processes, each with a file of its own
  GPIOCNT,          \* number of keys (8 in the source)
  MaxAllocs         \* bound on the structures kmalloc() can provide

ASSUME GpioAssumption == GPIOCNT \in Nat \ {0}
ASSUME AllocAssumption == MaxAllocs \in Nat

VARIABLES
  openFlag,         \* 0 or 1
  refcnt,           \* the module's reference count
  moduleState,      \* where the life of the module stands, see ModuleStates
  upc,              \* upc[u]: next statement of process u in the driver
  line,             \* line[u]: loop variable of process u, counted from 1
  pKeyData,         \* pKeyData[u]: the structure of process u, 0 for none
  memory,           \* memory[o]: "unused", "live" or "freed"
  keyNum,           \* keyNum[o]: the key stored in structure o, 0 for none
  handler,          \* handler[k]: data of the handler of key k, 0 if it has none
  keyMutex,         \* whether the mutex is held
  isr,              \* isr[k]: next statement of the running handler of key k
  data              \* data[k]: the structure it was called with

opening == <<openFlag, refcnt, moduleState>>
files   == <<line, pKeyData, memory, handler>>
isrs    == <<isr, data>>
vars == <<opening, upc, files, keyNum, keyMutex, isrs>>

Keys == 1..GPIOCNT
Structs == 1..MaxAllocs

OpenLabels    == {"map", "request", "check", "set", "get"}
ReleaseLabels == {"free_irq", "put", "clear", "kfree"}
UserLabels    == {"closed", "opened", "reading"} \cup OpenLabels \cup ReleaseLabels
IsrLabels     == {"idle", "find", "store", "print"}

\* rmmod takes the module from live to gone; unregister_chrdev() is in between.
ModuleStates == {"live", "going", "unregistered", "gone"}

Init ==
  /\ openFlag = 0
  /\ refcnt = 0
  /\ moduleState = "live"
  /\ upc = [u \in Users |-> "closed"]
  /\ line = [u \in Users |-> 1]
  /\ pKeyData = [u \in Users |-> 0]
  /\ memory = [o \in Structs |-> "unused"]
  /\ keyNum = [o \in Structs |-> 0]
  /\ handler = [k \in Keys |-> 0]
  /\ keyMutex = FALSE
  /\ isr = [k \in Keys |-> "idle"]
  /\ data = [k \in Keys |-> 0]

Goto(u, from, to) ==
  /\ moduleState # "gone"
  /\ upc[u] = from
  /\ upc' = [upc EXCEPT ![u] = to]

\* The loop body has run for one line: the next line, or the statement after it.
NextLine(u, from, to) ==
  /\ Goto(u, from, IF line[u] = GPIOCNT THEN to ELSE from)
  /\ line' = [line EXCEPT ![u] = IF @ = GPIOCNT THEN 1 ELSE @ + 1]

\* open() returns an error; nothing points to its structure any more but the
\* handlers it has requested.
OpenFails(u, from) ==
  /\ Goto(u, from, "closed")
  /\ line' = [line EXCEPT ![u] = 1]
  /\ pKeyData' = [pKeyData EXCEPT ![u] = 0]
  /\ UNCHANGED <<opening, memory, handler, keyNum, keyMutex, isrs>>

-----------------------------------------------------------------------------
(* ledkey_open().                                                          *)

\* kmalloc() and memset(); an open that gets no memory changes nothing.  The
\* file operations name no owner: an open may still come in while rmmod goes on.
OpenAlloc(u) ==
  \E o \in Structs :
    /\ moduleState \in {"live", "going"}
    /\ memory[o] = "unused"
    /\ \A p \in 1..(o - 1) : memory[p] # "unused"
    /\ Goto(u, "closed", "map")
    /\ memory' = [memory EXCEPT ![o] = "live"]
    /\ pKeyData' = [pKeyData EXCEPT ![u] = o]
    /\ UNCHANGED <<opening, line, handler, keyNum, keyMutex, isrs>>

OpenMap(u) ==
  /\ Goto(u, "map", "request")
  /\ UNCHANGED <<opening, files, keyNum, keyMutex, isrs>>

OpenMapFails(u) == OpenFails(u, "map")

\* Mutant of OpenRequest: the result of request_irq() is not looked at.
OpenRequestUnchecked(u) ==
  LET k == line[u] IN
  /\ NextLine(u, "request", "check")
  /\ handler' = [handler EXCEPT ![k] = IF @ = 0 THEN pKeyData[u] ELSE @]
  /\ UNCHANGED <<opening, pKeyData, memory, keyNum, keyMutex, isrs>>

OpenRequest(u) ==
  LET k == line[u] IN
  /\ handler[k] = 0
  /\ NextLine(u, "request", "check")
  /\ handler' = [handler EXCEPT ![k] = pKeyData[u]]
  /\ UNCHANGED <<opening, pKeyData, memory, keyNum, keyMutex, isrs>>

\* request_irq() without IRQF_SHARED: -EBUSY for a line that has a handler, and
\* any line may be refused for a reason outside the driver.
OpenRequestFails(u) == OpenFails(u, "request")

OpenCheck(u) ==
  /\ openFlag = 0
  /\ Goto(u, "check", "set")
  /\ UNCHANGED <<opening, files, keyNum, keyMutex, isrs>>

OpenBusy(u) ==
  /\ openFlag = 1
  /\ OpenFails(u, "check")

OpenSet(u) ==
  /\ Goto(u, "set", "get")
  /\ openFlag' = 1
  /\ UNCHANGED <<refcnt, moduleState, files, keyNum, keyMutex, isrs>>

OpenGet(u) ==
  /\ moduleState = "live"
  /\ Goto(u, "get", "opened")
  /\ refcnt' = refcnt + 1
  /\ UNCHANGED <<openFlag, moduleState, files, keyNum, keyMutex, isrs>>

\* try_module_get() fails once rmmod has begun: -ENODEV, and openFlag stays set.
OpenNoDevice(u) ==
  /\ moduleState # "live"
  /\ OpenFails(u, "get")

-----------------------------------------------------------------------------
(* ledkey_read() and keyIsr().                                             *)

ReadLock(u) ==
  /\ ~keyMutex
  /\ Goto(u, "opened", "reading")
  /\ keyMutex' = TRUE
  /\ UNCHANGED <<opening, files, keyNum, isrs>>

\* The key leaves the structure, if there is one, and the mutex is unlocked.
ReadTake(u) ==
  /\ Goto(u, "reading", "opened")
  /\ keyNum' = [keyNum EXCEPT ![pKeyData[u]] = 0]
  /\ keyMutex' = FALSE
  /\ UNCHANGED <<opening, files, isrs>>

\* A read whose trylock fails returns 0 and leaves everything as it was.
ReadBusy(u) ==
  /\ keyMutex
  /\ Goto(u, "opened", "opened")
  /\ UNCHANGED <<opening, files, keyNum, keyMutex, isrs>>

IsrStep(k, from, to) ==
  /\ moduleState # "gone"
  /\ isr[k] = from
  /\ isr' = [isr EXCEPT ![k] = to]

\* A press of key k: the handler is called with the data it was requested with.
IsrEnter(k) ==
  /\ handler[k] # 0
  /\ IsrStep(k, "idle", "find")
  /\ data' = [data EXCEPT ![k] = handler[k]]
  /\ UNCHANGED <<opening, upc, files, keyNum, keyMutex>>

\* irq == irqKey[k - 1], and the trylock succeeds ...
IsrLock(k) ==
  /\ ~keyMutex
  /\ IsrStep(k, "find", "store")
  /\ keyMutex' = TRUE
  /\ UNCHANGED <<opening, upc, files, keyNum, data>>

\* ... or does not; the loop goes on and finds no other line with this number.
IsrBusy(k) ==
  /\ keyMutex
  /\ IsrStep(k, "find", "print")
  /\ UNCHANGED <<opening, upc, files, keyNum, keyMutex, data>>

IsrStore(k) ==
  /\ IsrStep(k, "store", "print")
  /\ keyNum' = [keyNum EXCEPT ![data[k]] = k]
  /\ keyMutex' = FALSE
  /\ UNCHANGED <<opening, upc, files, data>>

\* printk() reads keyNum of the structure once more, after the unlock.
IsrReturn(k) ==
  /\ IsrStep(k, "print", "idle")
  /\ data' = [data EXCEPT ![k] = 0]
  /\ UNCHANGED <<opening, upc, files, keyNum, keyMutex>>

-----------------------------------------------------------------------------
(* ledkey_release().                                                       *)

Close(u) ==
  /\ Goto(u, "opened", "free_irq")
  /\ UNCHANGED <<opening, files, keyNum, keyMutex, isrs>>

\* Mutant of ReleaseIrq: one line is forgotten.
ReleaseIrqAllButOne(u) ==
  LET k == line[u] IN
  /\ handler[k] = pKeyData[u] => isr[k] = "idle"
  /\ NextLine(u, "free_irq", "put")
  /\ handler' = [handler EXCEPT ![k] = IF k < GPIOCNT THEN 0 ELSE @]
  /\ UNCHANGED <<opening, pKeyData, memory, keyNum, keyMutex, isrs>>

\* free_irq() frees the line if its handler has this structure as its data, and
\* waits for the handler if it is running.
ReleaseIrq(u) ==
  LET k == line[u] IN
  /\ handler[k] = pKeyData[u] => isr[k] = "idle"
  /\ NextLine(u, "free_irq", "put")
  /\ handler' = [handler EXCEPT ![k] = IF @ = pKeyData[u] THEN 0 ELSE @]
  /\ UNCHANGED <<opening, pKeyData, memory, keyNum, keyMutex, isrs>>

\* Mutant of ReleasePut: module_put() is forgotten.
ReleaseNoPut(u) ==
  /\ Goto(u, "put", "clear")
  /\ UNCHANGED <<opening, files, keyNum, keyMutex, isrs>>

ReleasePut(u) ==
  /\ Goto(u, "put", "clear")
  /\ refcnt' = refcnt - 1
  /\ UNCHANGED <<openFlag, moduleState, files, keyNum, keyMutex, isrs>>

ReleaseClear(u) ==
  /\ Goto(u, "clear", "kfree")
  /\ openFlag' = 0
  /\ UNCHANGED <<refcnt, moduleState, files, keyNum, keyMutex, isrs>>

ReleaseFree(u) ==
  /\ Goto(u, "kfree", "closed")
  /\ memory' = [memory EXCEPT ![pKeyData[u]] = "freed"]
  /\ keyNum' = [keyNum EXCEPT ![pKeyData[u]] = 0]
  /\ pKeyData' = [pKeyData EXCEPT ![u] = 0]
  /\ UNCHANGED <<opening, line, handler, keyMutex, isrs>>

-----------------------------------------------------------------------------
(* rmmod and ledkey_exit(), which frees no interrupt.                      *)

Unload(from, to) ==
  /\ moduleState = from
  /\ moduleState' = to
  /\ UNCHANGED <<openFlag, refcnt, upc, files, keyNum, keyMutex, isrs>>

Rmmod == refcnt = 0 /\ Unload("live", "going")
ExitUnregister == Unload("going", "unregistered")

\* gpioLedFree(), gpioKeyFree() and mutex_destroy(), then the text is given back.
ExitDone == Unload("unregistered", "gone")

-----------------------------------------------------------------------------
ledkey_open(u) ==
  \/ OpenAlloc(u) \/ OpenMap(u) \/ OpenMapFails(u)
  \/ OpenRequest(u) \/ OpenRequestFails(u)
  \/ OpenCheck(u) \/ OpenBusy(u) \/ OpenSet(u)
  \/ OpenGet(u) \/ OpenNoDevice(u)

ledkey_read(u) == ReadLock(u) \/ ReadTake(u) \/ ReadBusy(u)

ledkey_release(u) ==
  Close(u) \/ ReleaseIrq(u) \/ ReleasePut(u) \/ ReleaseClear(u) \/ ReleaseFree(u)

keyIsr(k) == IsrEnter(k) \/ IsrLock(k) \/ IsrBusy(k) \/ IsrStore(k) \/ IsrReturn(k)

ledkey_exit == ExitUnregister \/ ExitDone

Next ==
  \/ \E u \in Users : ledkey_open(u) \/ ledkey_read(u) \/ ledkey_release(u)
  \/ \E k \in Keys : keyIsr(k)
  \/ Rmmod
  \/ ledkey_exit

Spec == Init /\ [][Next]_vars

-----------------------------------------------------------------------------
(* Properties.                                                             *)

\* The type invariant.
TypeOK ==
  /\ openFlag \in {0, 1}
  /\ refcnt \in Nat
  /\ moduleState \in ModuleStates
  /\ upc \in [Users -> UserLabels]
  /\ line \in [Users -> Keys]
  /\ pKeyData \in [Users -> Structs \cup {0}]
  /\ memory \in [Structs -> {"unused", "live", "freed"}]
  /\ keyNum \in [Structs -> Keys \cup {0}]
  /\ handler \in [Keys -> Structs \cup {0}]
  /\ keyMutex \in BOOLEAN
  /\ isr \in [Keys -> IsrLabels]
  /\ data \in [Keys -> Structs \cup {0}]

\* keyIsr() never touches freed memory: whatever opens and releases are under
\* way or have failed, the data of every handler is still allocated, and so is
\* what a handler on its way between its first statement and its last was given.
HandlerDataAlive ==
  \A k \in Keys :
    /\ handler[k] # 0 => memory[handler[k]] = "live"
    /\ isr[k] # "idle" => memory[data[k]] = "live"

IsOpen(u) == upc[u] \in {"opened", "reading"}

\* A process that has the device open gets the presses of all keys, and so no
\* two have it open: what two opens can both read in openFlag, the interrupt
\* lines grant only one of them.
OpenOwnsAllKeys ==
  \A u \in Users : IsOpen(u) => \A k \in Keys : handler[k] = pKeyData[u]

\* From open()'s "openFlag = 1" to release()'s "openFlag = 0".
OwnsFlag(u) ==
  upc[u] \in {"get", "opened", "reading", "free_irq", "put", "clear"}

\* openFlag is tested and set without a lock, and yet it admits one process at a
\* time: past the test is never more than one, the flag is set for as long as
\* that one owns it, and -EBUSY has such a reason -- unless an open refused with
\* -ENODEV has left the flag behind, which only happens to a module on its way out.
FlagHasOneOwner ==
  /\ \A u, v \in Users :
       (upc[u] = "set" \/ OwnsFlag(u)) /\ (upc[v] = "set" \/ OwnsFlag(v)) => u = v
  /\ \A u \in Users : OwnsFlag(u) => openFlag = 1
  /\ openFlag = 1 /\ moduleState = "live" => \E u \in Users : OwnsFlag(u)

\* From try_module_get() to module_put().
HasReference(u) == upc[u] \in {"opened", "reading", "free_irq", "put"}

\* The module counts its open file, through failed opens and unloads refused, and
\* an unload that has begun leaves nobody with the device open, nor lets one in.
OpenFileCounted ==
  /\ refcnt = IF \E u \in Users : HasReference(u) THEN 1 ELSE 0
  /\ moduleState # "live" => \A u \in Users : ~HasReference(u)
=============================================================================
