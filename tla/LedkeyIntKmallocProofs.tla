----------------------- MODULE LedkeyIntKmallocProofs -----------------------
(***************************************************************************)
(* For any set of processes, any number of keys and any amount of memory:  *)
(* no handler's data is ever freed, a process that has the device open has *)
(* all the keys, openFlag admits one process at a time, and the module     *)
(* counts its open file.  The argument is about the lines: a process has   *)
(* the lines its loop has requested, has none its loop has freed, and no   *)
(* two processes share a structure, so that only one can be at the test of *)
(* openFlag with all its lines.                                            *)
(***************************************************************************)
EXTENDS LedkeyIntKmalloc, TLAPS

\* TypeOK of the variables that the lines are about.
Shape ==
  /\ upc \in [Users -> UserLabels]
  /\ line \in [Users -> Keys]
  /\ pKeyData \in [Users -> Structs \cup {0}]
  /\ memory \in [Structs -> {"unused", "live", "freed"}]
  /\ handler \in [Keys -> Structs \cup {0}]
  /\ isr \in [Keys -> IsrLabels]
  /\ data \in [Keys -> Structs \cup {0}]

\* A process between kmalloc() and kfree() or an error has a live structure ...
Allocated ==
  \A u \in Users :
    upc[u] # "closed" => pKeyData[u] \in Structs /\ memory[pKeyData[u]] = "live"

\* ... that no other process has.
Distinct ==
  \A u, v \in Users :
    upc[u] # "closed" /\ upc[v] # "closed" /\ pKeyData[u] = pKeyData[v] => u = v

Mine(u, k) == handler[k] = pKeyData[u]

LineAt(u) == upc[u] \notin {"request", "free_irq"} => line[u] = 1
Requested(u) == upc[u] = "request" => \A k \in Keys : k < line[u] => Mine(u, k)
Held(u) ==
  upc[u] \in {"check", "set", "get", "opened", "reading"} => \A k \in Keys : Mine(u, k)
Freed(u) ==
  /\ upc[u] = "free_irq" => \A k \in Keys : k < line[u] => ~Mine(u, k)
  /\ upc[u] \in {"put", "clear", "kfree"} => \A k \in Keys : ~Mine(u, k)

LineInv(u) == LineAt(u) /\ Requested(u) /\ Held(u) /\ Freed(u)

\* A running handler was called with the data that its line still has.
Running == \A k \in Keys : isr[k] # "idle" => handler[k] # 0 /\ data[k] = handler[k]

LinesInv ==
  /\ Shape /\ Allocated /\ Distinct /\ Running
  /\ \A u \in Users : LineInv(u)
  /\ \A k \in Keys : handler[k] # 0 => memory[handler[k]] = "live"

FlagInv ==
  /\ openFlag \in {0, 1} /\ moduleState \in ModuleStates
  /\ FlagHasOneOwner

IInv == LinesInv /\ FlagInv /\ OpenFileCounted

-----------------------------------------------------------------------------
(* The initial states, and what the lines are told of a step.              *)

LEMMA KeyFacts ==
  /\ GPIOCNT \in Nat /\ 1 \in Keys /\ GPIOCNT \in Keys /\ 0 \notin Structs
  /\ \A k \in Keys : k \in Nat /\ 1 <= k /\ k <= GPIOCNT
  /\ \A k \in Keys : k # GPIOCNT => k + 1 \in Keys
BY GpioAssumption, AllocAssumption DEF Keys, Structs

LEMMA InitInv == Init => IInv
<1> SUFFICES ASSUME Init PROVE IInv
  OBVIOUS
<1>1. Shape
  BY KeyFacts DEF Init, Shape, UserLabels, IsrLabels
<1>2. \A u \in Users : LineInv(u)
  BY DEF Init, LineInv, LineAt, Requested, Held, Freed
<1>3. LinesInv
  BY <1>1, <1>2 DEF Init, LinesInv, Allocated, Distinct, Running
<1>4. FlagInv
  BY DEF Init, FlagInv, FlagHasOneOwner, OwnsFlag, ModuleStates
<1>5. OpenFileCounted
  BY DEF Init, OpenFileCounted, HasReference
<1> QED
  BY <1>3, <1>4, <1>5 DEF IInv

\* The loop of open() or release() goes on to the next line, or to what follows it.
LEMMA LoopStep ==
  ASSUME NEW u \in Users, NEW from, NEW to, Shape, NextLine(u, from, to)
  PROVE  \/ /\ line[u] = GPIOCNT /\ line' = [line EXCEPT ![u] = 1]
            /\ upc' = [upc EXCEPT ![u] = to]
            /\ \A k \in Keys : k < line[u] \/ k = line[u]
         \/ /\ line[u] # GPIOCNT /\ line' = [line EXCEPT ![u] = line[u] + 1]
            /\ upc' = [upc EXCEPT ![u] = from]
            /\ line[u] + 1 \in Keys
            /\ \A k \in Keys : k < line[u] + 1 => k < line[u] \/ k = line[u]
<1>1. line[u] \in Keys
  BY DEF Shape
<1>2. \A k \in Keys : k \in Nat /\ line[u] \in Nat /\ k <= GPIOCNT
  BY <1>1, KeyFacts
<1>3. CASE line[u] = GPIOCNT
  <2>1. line' = [line EXCEPT ![u] = 1] /\ upc' = [upc EXCEPT ![u] = to]
    BY <1>3 DEF NextLine, Goto
  <2>2. \A k \in Keys : k < line[u] \/ k = line[u]
    BY <1>2, <1>3
  <2> QED
    BY <1>3, <2>1, <2>2
<1>4. CASE line[u] # GPIOCNT
  <2>1. line' = [line EXCEPT ![u] = line[u] + 1] /\ upc' = [upc EXCEPT ![u] = from]
    BY <1>4 DEF NextLine, Goto
  <2>2. line[u] + 1 \in Keys
    BY <1>1, <1>4, KeyFacts
  <2>3. \A k \in Keys : k < line[u] + 1 => k < line[u] \/ k = line[u]
    BY <1>2
  <2> QED
    BY <1>4, <2>1, <2>2, <2>3
<1> QED
  BY <1>3, <1>4

\* What leaves the lines, the memory and the handlers alone and moves one process
\* to a statement with the same duties.
LEMMA PlainStep ==
  ASSUME LinesInv, NEW u \in Users, NEW from, NEW to,
         Goto(u, from, to), UNCHANGED <<files, isrs>>,
         \/ from = "map" /\ to = "request"
         \/ from = "check" /\ to = "set"
         \/ from = "set" /\ to = "get"
         \/ from = "get" /\ to = "opened"
         \/ from = "opened" /\ to \in {"opened", "reading", "free_irq"}
         \/ from = "reading" /\ to = "opened"
         \/ from = "put" /\ to = "clear"
         \/ from = "clear" /\ to = "kfree"
  PROVE  LinesInv'
<1>1. /\ upc' = [upc EXCEPT ![u] = to] /\ upc[u] = from
      /\ from # "closed" /\ to # "closed" /\ to \in UserLabels
      /\ UNCHANGED <<line, pKeyData, memory, handler, isr, data>>
  BY DEF Goto, UserLabels, OpenLabels, ReleaseLabels, files, isrs
<1>2. Shape' /\ Allocated' /\ Distinct' /\ Running'
  BY <1>1 DEF LinesInv, Shape, Allocated, Distinct, Running
<1>3. ASSUME NEW w \in Users PROVE LineInv(w)'
  <2>1. CASE w # u
    BY <1>1, <2>1 DEF LinesInv, Shape, LineInv, LineAt, Requested, Held, Freed, Mine
  <2>2. CASE w = u
    <3>1. upc'[u] = to /\ line[u] = 1
      BY <1>1 DEF LinesInv, Shape, LineInv, LineAt
    <3>2. \A k \in Keys : ~(k < 1)
      BY KeyFacts
    <3> QED
      BY <1>1, <2>2, <3>1, <3>2 DEF LinesInv, LineInv, LineAt, Requested, Held, Freed, Mine
  <2> QED
    BY <2>1, <2>2
<1> QED
  BY <1>1, <1>2, <1>3 DEF LinesInv

-----------------------------------------------------------------------------
(* ledkey_open(): the lines.                                               *)

LEMMA AllocStep == ASSUME LinesInv, NEW u \in Users, OpenAlloc(u) PROVE LinesInv'
<1>1. PICK o \in Structs :
        /\ memory[o] = "unused" /\ upc[u] = "closed"
        /\ upc' = [upc EXCEPT ![u] = "map"]
        /\ memory' = [memory EXCEPT ![o] = "live"]
        /\ pKeyData' = [pKeyData EXCEPT ![u] = o]
        /\ UNCHANGED <<line, handler, isr, data>>
  BY DEF OpenAlloc, Goto, isrs
<1>2. Shape' /\ Allocated' /\ Running'
  BY <1>1 DEF LinesInv, Shape, Allocated, Running, UserLabels, OpenLabels
<1>3. Distinct'
  BY <1>1 DEF LinesInv, Shape, Allocated, Distinct
<1>4. ASSUME NEW w \in Users PROVE LineInv(w)'
  BY <1>1 DEF LinesInv, Shape, LineInv, LineAt, Requested, Held, Freed, Mine
<1>5. \A k \in Keys : handler'[k] # 0 => memory'[handler'[k]] = "live"
  BY <1>1 DEF LinesInv, Shape
<1> QED
  BY <1>2, <1>3, <1>4, <1>5 DEF LinesInv

\* An open that fails keeps its structure and its lines: both stay allocated.
LEMMA FailStep ==
  ASSUME LinesInv, NEW u \in Users, NEW from \in OpenLabels, OpenFails(u, from)
  PROVE  LinesInv'
<1>1. /\ upc[u] = from /\ upc' = [upc EXCEPT ![u] = "closed"]
      /\ line' = [line EXCEPT ![u] = 1] /\ pKeyData' = [pKeyData EXCEPT ![u] = 0]
      /\ UNCHANGED <<memory, handler, isr, data>>
  BY DEF OpenFails, Goto, isrs
<1>2. Shape'
  BY <1>1, KeyFacts DEF LinesInv, Shape, UserLabels
<1>3. Allocated' /\ Distinct' /\ Running'
  BY <1>1 DEF LinesInv, Shape, Allocated, Distinct, Running
<1>4. ASSUME NEW w \in Users PROVE LineInv(w)'
  BY <1>1 DEF LinesInv, Shape, LineInv, LineAt, Requested, Held, Freed, Mine
<1> QED
  BY <1>1, <1>2, <1>3, <1>4 DEF LinesInv

\* request_irq() grants a line that has no handler: nobody loses one.
LEMMA RequestStep == ASSUME LinesInv, NEW u \in Users, OpenRequest(u) PROVE LinesInv'
<1> DEFINE k == line[u]
<1>1. /\ k \in Keys /\ handler[k] = 0 /\ upc[u] = "request"
      /\ handler' = [handler EXCEPT ![k] = pKeyData[u]]
      /\ UNCHANGED <<pKeyData, memory, isr, data>>
      /\ pKeyData[u] \in Structs /\ memory[pKeyData[u]] = "live"
  BY DEF LinesInv, Shape, Allocated, OpenRequest, NextLine, Goto, isrs
<1>2. LineInv(u) /\ (\A j \in Keys : j < k => Mine(u, j))
  BY <1>1 DEF LinesInv, LineInv, Requested
<1>3. \A j \in Keys : j < k \/ j = k => handler'[j] = pKeyData'[u]
  BY <1>1, <1>2 DEF LinesInv, Shape, Mine
<1>4. PICK to \in {"request", "check"} :
        /\ upc' = [upc EXCEPT ![u] = to]
        /\ line' \in [Users -> Keys]
        /\ \A w \in Users : w # u => line'[w] = line[w]
        /\ to = "check" => line'[u] = 1 /\ \A j \in Keys : j < k \/ j = k
        /\ to = "request" => \A j \in Keys : j < line'[u] => j < k \/ j = k
  BY LoopStep, KeyFacts DEF LinesInv, Shape, OpenRequest
<1>5. Shape'
  BY <1>1, <1>4 DEF LinesInv, Shape, UserLabels, OpenLabels, ReleaseLabels
<1>6. Allocated' /\ Distinct'
  BY <1>1, <1>4 DEF LinesInv, Shape, Allocated, Distinct
<1>7. Running'
  BY <1>1 DEF LinesInv, Shape, Running
<1>8. \A j \in Keys : handler'[j] # 0 => memory'[handler'[j]] = "live"
  BY <1>1 DEF LinesInv, Shape
<1>9. ASSUME NEW w \in Users PROVE LineInv(w)'
  <2>1. CASE w = u
    BY <1>3, <1>4, <2>1 DEF LinesInv, Shape, LineInv, LineAt, Requested, Held, Freed, Mine
  <2>2. CASE w # u
    <3>1. upc'[w] = upc[w] /\ line'[w] = line[w] /\ LineInv(w)
          /\ pKeyData'[w] = pKeyData[w]
      BY <1>1, <1>4, <2>2 DEF LinesInv, Shape
    <3>2. upc[w] # "closed" => pKeyData[w] # 0 /\ pKeyData[w] # pKeyData[u]
      BY <1>1, <2>2, KeyFacts DEF LinesInv, Allocated, Distinct
    <3>3. \A j \in Keys : upc[w] # "closed" => (Mine(w, j)' <=> Mine(w, j))
      BY <1>1, <3>1, <3>2 DEF LinesInv, Shape, Mine
    <3> QED
      BY <3>1, <3>3 DEF LineInv, LineAt, Requested, Held, Freed
  <2> QED
    BY <2>1, <2>2
<1> QED
  BY <1>5, <1>6, <1>7, <1>8, <1>9 DEF LinesInv

LEMMA OpenLines == ASSUME LinesInv, NEW u \in Users, ledkey_open(u) PROVE LinesInv'
<1>1. CASE OpenAlloc(u)
  BY <1>1, AllocStep
<1>2. CASE OpenMapFails(u) \/ OpenRequestFails(u) \/ OpenBusy(u) \/ OpenNoDevice(u)
  BY <1>2, FailStep DEF OpenMapFails, OpenRequestFails, OpenBusy, OpenNoDevice, OpenLabels
<1>3. CASE OpenRequest(u)
  BY <1>3, RequestStep
<1>4. CASE OpenMap(u)
  BY <1>4, PlainStep DEF OpenMap
<1>5. CASE OpenCheck(u)
  BY <1>5, PlainStep DEF OpenCheck
<1>6. CASE OpenSet(u)
  BY <1>6, PlainStep DEF OpenSet
<1>7. CASE OpenGet(u)
  BY <1>7, PlainStep DEF OpenGet
<1> QED
  BY <1>1, <1>2, <1>3, <1>4, <1>5, <1>6, <1>7 DEF ledkey_open

-----------------------------------------------------------------------------
(* ledkey_release(), ledkey_read(), keyIsr() and the unloading: the lines. *)

\* free_irq() takes the line from this process only, and when its handler rests.
LEMMA FreeIrqStep == ASSUME LinesInv, NEW u \in Users, ReleaseIrq(u) PROVE LinesInv'
<1> DEFINE k == line[u]
<1>1. /\ k \in Keys /\ upc[u] = "free_irq"
      /\ handler[k] = pKeyData[u] => isr[k] = "idle"
      /\ handler' = [handler EXCEPT ![k] = IF @ = pKeyData[u] THEN 0 ELSE @]
      /\ UNCHANGED <<pKeyData, memory, isr, data>>
      /\ pKeyData[u] \in Structs /\ memory[pKeyData[u]] = "live"
  BY DEF LinesInv, Shape, Allocated, ReleaseIrq, NextLine, Goto, isrs
<1>2. LineInv(u) /\ (\A j \in Keys : j < k => ~Mine(u, j))
  BY <1>1 DEF LinesInv, LineInv, Freed
<1>3. \A j \in Keys : j < k \/ j = k => handler'[j] # pKeyData'[u]
  BY <1>1, <1>2, KeyFacts DEF LinesInv, Shape, Mine
<1>4. PICK to \in {"free_irq", "put"} :
        /\ upc' = [upc EXCEPT ![u] = to]
        /\ line' \in [Users -> Keys]
        /\ \A w \in Users : w # u => line'[w] = line[w]
        /\ to = "put" => line'[u] = 1 /\ \A j \in Keys : j < k \/ j = k
        /\ to = "free_irq" => \A j \in Keys : j < line'[u] => j < k \/ j = k
  BY LoopStep, KeyFacts DEF LinesInv, Shape, ReleaseIrq
<1>5. Shape'
  BY <1>1, <1>4 DEF LinesInv, Shape, UserLabels, OpenLabels, ReleaseLabels
<1>6. Allocated' /\ Distinct'
  BY <1>1, <1>4 DEF LinesInv, Shape, Allocated, Distinct
<1>7. Running'
  BY <1>1 DEF LinesInv, Shape, Running
<1>8. \A j \in Keys : handler'[j] # 0 => memory'[handler'[j]] = "live"
  BY <1>1 DEF LinesInv, Shape
<1>9. ASSUME NEW w \in Users PROVE LineInv(w)'
  <2>1. CASE w = u
    BY <1>3, <1>4, <2>1 DEF LinesInv, Shape, LineInv, LineAt, Requested, Held, Freed, Mine
  <2>2. CASE w # u
    <3>1. upc'[w] = upc[w] /\ line'[w] = line[w] /\ LineInv(w)
          /\ pKeyData'[w] = pKeyData[w]
      BY <1>1, <1>4, <2>2 DEF LinesInv, Shape
    <3>2. upc[w] # "closed" => pKeyData[w] # 0 /\ pKeyData[w] # pKeyData[u]
      BY <1>1, <2>2, KeyFacts DEF LinesInv, Allocated, Distinct
    <3>3. \A j \in Keys : upc[w] # "closed" => (Mine(w, j)' <=> Mine(w, j))
      BY <1>1, <3>1, <3>2 DEF LinesInv, Shape, Mine
    <3> QED
      BY <3>1, <3>3 DEF LineInv, LineAt, Requested, Held, Freed
  <2> QED
    BY <2>1, <2>2
<1> QED
  BY <1>5, <1>6, <1>7, <1>8, <1>9 DEF LinesInv

\* kfree() of a structure no handler points to any more.
LEMMA KfreeStep == ASSUME LinesInv, NEW u \in Users, ReleaseFree(u) PROVE LinesInv'
<1>1. /\ upc[u] = "kfree" /\ upc' = [upc EXCEPT ![u] = "closed"]
      /\ memory' = [memory EXCEPT ![pKeyData[u]] = "freed"]
      /\ pKeyData' = [pKeyData EXCEPT ![u] = 0]
      /\ UNCHANGED <<line, handler, isr, data>>
      /\ pKeyData[u] \in Structs
  BY DEF LinesInv, Allocated, ReleaseFree, Goto, isrs
<1>2. \A k \in Keys : handler[k] # pKeyData[u]
  BY <1>1 DEF LinesInv, LineInv, Freed, Mine
<1>3. Shape'
  BY <1>1 DEF LinesInv, Shape, UserLabels
<1>4. Allocated' /\ Distinct' /\ Running'
  BY <1>1 DEF LinesInv, Shape, Allocated, Distinct, Running
<1>5. \A k \in Keys : handler'[k] # 0 => memory'[handler'[k]] = "live"
  BY <1>1, <1>2 DEF LinesInv, Shape
<1>6. ASSUME NEW w \in Users PROVE LineInv(w)'
  BY <1>1 DEF LinesInv, Shape, LineInv, LineAt, Requested, Held, Freed, Mine
<1> QED
  BY <1>3, <1>4, <1>5, <1>6 DEF LinesInv

LEMMA ReleaseLines == ASSUME LinesInv, NEW u \in Users, ledkey_release(u) PROVE LinesInv'
<1>1. CASE ReleaseIrq(u)
  BY <1>1, FreeIrqStep
<1>2. CASE ReleaseFree(u)
  BY <1>2, KfreeStep
<1>3. CASE Close(u)
  BY <1>3, PlainStep DEF Close
<1>4. CASE ReleasePut(u)
  BY <1>4, PlainStep DEF ReleasePut
<1>5. CASE ReleaseClear(u)
  BY <1>5, PlainStep DEF ReleaseClear
<1> QED
  BY <1>1, <1>2, <1>3, <1>4, <1>5 DEF ledkey_release

LEMMA ReadLines == ASSUME LinesInv, NEW u \in Users, ledkey_read(u) PROVE LinesInv'
<1>1. CASE ReadLock(u)
  BY <1>1, PlainStep DEF ReadLock
<1>2. CASE ReadTake(u)
  BY <1>2, PlainStep DEF ReadTake
<1>3. CASE ReadBusy(u)
  BY <1>3, PlainStep DEF ReadBusy
<1> QED
  BY <1>1, <1>2, <1>3 DEF ledkey_read

\* A handler is called with the data of its line, and keeps it until it returns.
LEMMA IsrLines == ASSUME LinesInv, NEW k \in Keys, keyIsr(k) PROVE LinesInv'
<1>1. PICK to \in IsrLabels :
        /\ isr' = [isr EXCEPT ![k] = to]
        /\ \/ data' = data /\ isr[k] # "idle"
           \/ data' = [data EXCEPT ![k] = handler[k]] /\ handler[k] # 0
           \/ data' = [data EXCEPT ![k] = 0] /\ to = "idle"
        /\ UNCHANGED <<upc, line, pKeyData, memory, handler>>
  BY DEF keyIsr, IsrEnter, IsrLock, IsrBusy, IsrStore, IsrReturn, IsrStep, IsrLabels, files
<1>2. Shape'
  BY <1>1 DEF LinesInv, Shape
<1>3. Running'
  BY <1>1 DEF LinesInv, Shape, Running
<1>4. Allocated' /\ Distinct' /\ \A u \in Users : LineInv(u)'
  BY <1>1 DEF LinesInv, Allocated, Distinct, LineInv, LineAt, Requested, Held, Freed, Mine
<1> QED
  BY <1>1, <1>2, <1>3, <1>4 DEF LinesInv

LEMMA QuietLines == LinesInv /\ UNCHANGED <<upc, files, isrs>> => LinesInv'
BY DEF LinesInv, Shape, Allocated, Distinct, Running, LineInv, LineAt, Requested, Held,
       Freed, Mine, files, isrs

LEMMA LinesStep == LinesInv /\ [Next]_vars => LinesInv'
<1> SUFFICES ASSUME LinesInv, [Next]_vars PROVE LinesInv'
  OBVIOUS
<1>1. CASE \E u \in Users : ledkey_open(u) \/ ledkey_read(u) \/ ledkey_release(u)
  BY <1>1, OpenLines, ReadLines, ReleaseLines
<1>2. CASE \E k \in Keys : keyIsr(k)
  BY <1>2, IsrLines
<1>3. CASE Rmmod \/ ledkey_exit
  BY <1>3, QuietLines DEF Rmmod, ledkey_exit, ExitUnregister, ExitDone, Unload
<1>4. CASE UNCHANGED vars
  BY <1>4, QuietLines DEF vars
<1> QED
  BY <1>1, <1>2, <1>3, <1>4 DEF Next

-----------------------------------------------------------------------------
(* openFlag.                                                               *)

AfterTest(u) == upc[u] = "set" \/ OwnsFlag(u)

\* A step that leaves the flag and the module alone, and takes no process past the
\* test of openFlag or from the flag it owns.
LEMMA SameFlag ==
  ASSUME FlagInv, UNCHANGED <<openFlag, moduleState>>,
         \A u \in Users : OwnsFlag(u)' <=> OwnsFlag(u),
         \A u \in Users : AfterTest(u)' <=> AfterTest(u)
  PROVE  FlagInv'
BY DEF FlagInv, FlagHasOneOwner, AfterTest

\* The same for a process that goes from one statement to another.
LEMMA FlagGoto ==
  ASSUME LinesInv, FlagInv, UNCHANGED <<openFlag, moduleState>>,
         NEW u \in Users, NEW from, NEW to, Goto(u, from, to),
         LET owners == {"get", "opened", "reading", "free_irq", "put", "clear"} IN
           \/ from \in owners /\ to \in owners
           \/ from \notin owners \cup {"set"} /\ to \notin owners \cup {"set"}
  PROVE  FlagInv'
<1>1. upc[u] = from /\ upc' = [upc EXCEPT ![u] = to] /\ upc \in [Users -> UserLabels]
  BY DEF Goto, LinesInv, Shape
<1>2. \A w \in Users : (OwnsFlag(w)' <=> OwnsFlag(w)) /\ (AfterTest(w)' <=> AfterTest(w))
  BY <1>1 DEF OwnsFlag, AfterTest
<1> QED
  BY <1>2, SameFlag

\* Whoever is past the test of openFlag and before set or owner of it has all the
\* lines, and so has a process at the test: they are the same.
LEMMA CheckFlag == ASSUME LinesInv, FlagInv, NEW u \in Users, OpenCheck(u) PROVE FlagInv'
<1>1. /\ openFlag = 0 /\ upc[u] = "check" /\ upc' = [upc EXCEPT ![u] = "set"]
      /\ UNCHANGED <<openFlag, moduleState>> /\ upc \in [Users -> UserLabels]
  BY DEF OpenCheck, Goto, opening, LinesInv, Shape
<1>2. ASSUME NEW w \in Users PROVE ~AfterTest(w)
  <2>1. ~OwnsFlag(w)
    BY <1>1 DEF FlagInv, FlagHasOneOwner
  <2>2. ASSUME upc[w] = "set" PROVE FALSE
    <3>1. handler[1] = pKeyData[u] /\ handler[1] = pKeyData[w]
      BY <1>1, <2>2, KeyFacts DEF LinesInv, LineInv, Held, Mine
    <3>2. u = w
      BY <1>1, <2>2, <3>1 DEF LinesInv, Distinct
    <3> QED
      BY <1>1, <2>2, <3>2
  <2> QED
    BY <2>1, <2>2 DEF AfterTest
<1>3. \A w \in Users : ~OwnsFlag(w)' /\ (AfterTest(w)' => w = u)
  BY <1>1, <1>2 DEF OwnsFlag, AfterTest
<1> QED
  BY <1>1, <1>3 DEF FlagInv, FlagHasOneOwner, AfterTest

LEMMA OpenFlagStep ==
  ASSUME LinesInv, FlagInv, NEW u \in Users, ledkey_open(u) PROVE FlagInv'
<1>1. CASE OpenAlloc(u) \/ OpenMap(u)
  BY <1>1, FlagGoto DEF OpenAlloc, OpenMap, opening
<1>2. CASE OpenMapFails(u) \/ OpenRequestFails(u) \/ OpenBusy(u)
  BY <1>2, FlagGoto DEF OpenMapFails, OpenRequestFails, OpenBusy, OpenFails, opening
<1>3. CASE OpenRequest(u)
  BY <1>3, FlagGoto DEF OpenRequest, NextLine, opening
<1>4. CASE OpenCheck(u)
  BY <1>4, CheckFlag
<1>5. CASE OpenSet(u)
  <2>1. /\ upc[u] = "set" /\ upc' = [upc EXCEPT ![u] = "get"] /\ openFlag' = 1
        /\ moduleState' = moduleState /\ upc \in [Users -> UserLabels]
    BY <1>5 DEF OpenSet, Goto, LinesInv, Shape
  <2>2. \A w \in Users : /\ AfterTest(w)' <=> AfterTest(w)
                         /\ OwnsFlag(w)' <=> OwnsFlag(w) \/ w = u
    BY <2>1 DEF OwnsFlag, AfterTest
  <2> QED
    BY <2>1, <2>2 DEF FlagInv, FlagHasOneOwner, AfterTest
<1>6. CASE OpenGet(u)
  BY <1>6, FlagGoto DEF OpenGet
<1>7. CASE OpenNoDevice(u)
  <2>1. /\ upc' = [upc EXCEPT ![u] = "closed"] /\ moduleState # "live"
        /\ UNCHANGED <<openFlag, moduleState>> /\ upc \in [Users -> UserLabels]
    BY <1>7 DEF OpenNoDevice, OpenFails, Goto, opening, LinesInv, Shape
  <2>2. \A w \in Users : (AfterTest(w)' => AfterTest(w)) /\ (OwnsFlag(w)' => OwnsFlag(w))
    BY <2>1 DEF OwnsFlag, AfterTest
  <2> QED
    BY <2>1, <2>2 DEF FlagInv, FlagHasOneOwner, AfterTest
<1> QED
  BY <1>1, <1>2, <1>3, <1>4, <1>5, <1>6, <1>7 DEF ledkey_open

LEMMA ReleaseFlagStep ==
  ASSUME LinesInv, FlagInv, NEW u \in Users, ledkey_release(u) PROVE FlagInv'
<1>1. CASE Close(u) \/ ReleasePut(u) \/ ReleaseFree(u)
  BY <1>1, FlagGoto DEF Close, ReleasePut, ReleaseFree, opening
<1>2. CASE ReleaseIrq(u)
  BY <1>2, FlagGoto DEF ReleaseIrq, NextLine, opening
<1>3. CASE ReleaseClear(u)
  <2>1. /\ upc[u] = "clear" /\ upc' = [upc EXCEPT ![u] = "kfree"] /\ openFlag' = 0
        /\ moduleState' = moduleState /\ upc \in [Users -> UserLabels]
    BY <1>3 DEF ReleaseClear, Goto, LinesInv, Shape
  <2>2. \A w \in Users : AfterTest(w) => w = u
    BY <2>1 DEF FlagInv, FlagHasOneOwner, OwnsFlag, AfterTest
  <2>3. \A w \in Users : ~AfterTest(w)' /\ ~OwnsFlag(w)'
    BY <2>1, <2>2 DEF OwnsFlag, AfterTest
  <2> QED
    BY <2>1, <2>3 DEF FlagInv, FlagHasOneOwner, AfterTest
<1> QED
  BY <1>1, <1>2, <1>3 DEF ledkey_release

LEMMA FlagStep == LinesInv /\ FlagInv /\ [Next]_vars => FlagInv'
<1> SUFFICES ASSUME LinesInv, FlagInv, [Next]_vars PROVE FlagInv'
  OBVIOUS
<1>1. CASE \E u \in Users : ledkey_open(u) \/ ledkey_release(u)
  BY <1>1, OpenFlagStep, ReleaseFlagStep
<1>2. CASE \E u \in Users : ledkey_read(u)
  BY <1>2, FlagGoto DEF ledkey_read, ReadLock, ReadTake, ReadBusy, opening
<1>3. CASE (\E k \in Keys : keyIsr(k)) \/ UNCHANGED vars
  <2>1. UNCHANGED <<openFlag, moduleState, upc>>
    BY <1>3 DEF keyIsr, IsrEnter, IsrLock, IsrBusy, IsrStore, IsrReturn, opening, vars
  <2> QED
    BY <2>1, SameFlag DEF OwnsFlag, AfterTest
<1>4. CASE Rmmod \/ ledkey_exit
  <2>1. UNCHANGED <<openFlag, upc>> /\ moduleState' \in ModuleStates \ {"live"}
    BY <1>4 DEF Rmmod, ledkey_exit, ExitUnregister, ExitDone, Unload, ModuleStates
  <2> QED
    BY <2>1 DEF FlagInv, FlagHasOneOwner, OwnsFlag
<1> QED
  BY <1>1, <1>2, <1>3, <1>4 DEF Next

-----------------------------------------------------------------------------
(* The reference count.                                                    *)

\* Only the owner of the flag has a reference.
LEMMA OneReference ==
  ASSUME FlagInv, NEW u \in Users, NEW v \in Users, OwnsFlag(u), HasReference(v)
  PROVE  u = v
BY DEF FlagInv, FlagHasOneOwner, OwnsFlag, HasReference

LEMMA SameReferences ==
  ASSUME OpenFileCounted, UNCHANGED <<refcnt, moduleState>>,
         \A u \in Users : HasReference(u)' <=> HasReference(u)
  PROVE  OpenFileCounted'
BY DEF OpenFileCounted

LEMMA ReferenceGoto ==
  ASSUME LinesInv, OpenFileCounted, UNCHANGED <<refcnt, moduleState>>,
         NEW u \in Users, NEW from, NEW to, Goto(u, from, to),
         LET holders == {"opened", "reading", "free_irq", "put"} IN
           from \in holders <=> to \in holders
  PROVE  OpenFileCounted'
<1>1. upc[u] = from /\ upc' = [upc EXCEPT ![u] = to] /\ upc \in [Users -> UserLabels]
  BY DEF Goto, LinesInv, Shape
<1>2. \A w \in Users : HasReference(w)' <=> HasReference(w)
  BY <1>1 DEF HasReference
<1> QED
  BY <1>2, SameReferences

LEMMA OpenReferenceStep ==
  ASSUME LinesInv, FlagInv, OpenFileCounted, NEW u \in Users, ledkey_open(u)
  PROVE  OpenFileCounted'
<1>1. CASE OpenAlloc(u) \/ OpenMap(u) \/ OpenCheck(u) \/ OpenSet(u)
  BY <1>1, ReferenceGoto DEF OpenAlloc, OpenMap, OpenCheck, OpenSet, opening
<1>2. CASE OpenMapFails(u) \/ OpenRequestFails(u) \/ OpenBusy(u) \/ OpenNoDevice(u)
  BY <1>2, ReferenceGoto
     DEF OpenMapFails, OpenRequestFails, OpenBusy, OpenNoDevice, OpenFails, opening
<1>3. CASE OpenRequest(u)
  BY <1>3, ReferenceGoto DEF OpenRequest, NextLine, opening
<1>4. CASE OpenGet(u)
  <2>1. /\ upc[u] = "get" /\ upc' = [upc EXCEPT ![u] = "opened"]
        /\ moduleState = "live" /\ moduleState' = moduleState
        /\ refcnt' = refcnt + 1 /\ upc \in [Users -> UserLabels]
    BY <1>4 DEF OpenGet, Goto, LinesInv, Shape
  <2>2. \A w \in Users : ~HasReference(w)
    BY <2>1, OneReference DEF OwnsFlag, HasReference
  <2>3. HasReference(u)' /\ refcnt = 0
    BY <2>1, <2>2 DEF HasReference, OpenFileCounted
  <2> QED
    BY <2>1, <2>3 DEF OpenFileCounted
<1> QED
  BY <1>1, <1>2, <1>3, <1>4 DEF ledkey_open

LEMMA ReleaseReferenceStep ==
  ASSUME LinesInv, FlagInv, OpenFileCounted, NEW u \in Users, ledkey_release(u)
  PROVE  OpenFileCounted'
<1>1. CASE Close(u) \/ ReleaseClear(u) \/ ReleaseFree(u)
  BY <1>1, ReferenceGoto DEF Close, ReleaseClear, ReleaseFree, opening
<1>2. CASE ReleaseIrq(u)
  BY <1>2, ReferenceGoto DEF ReleaseIrq, NextLine, opening
<1>3. CASE ReleasePut(u)
  <2>1. /\ upc[u] = "put" /\ upc' = [upc EXCEPT ![u] = "clear"]
        /\ moduleState' = moduleState
        /\ refcnt' = refcnt - 1 /\ upc \in [Users -> UserLabels]
    BY <1>3 DEF ReleasePut, Goto, LinesInv, Shape
  <2>2. refcnt = 1
    BY <2>1 DEF OpenFileCounted, HasReference
  <2>3. \A w \in Users : HasReference(w) => w = u
    BY <2>1, OneReference DEF OwnsFlag
  <2>4. \A w \in Users : ~HasReference(w)'
    BY <2>1, <2>3 DEF HasReference
  <2> QED
    BY <2>1, <2>2, <2>4 DEF OpenFileCounted
<1> QED
  BY <1>1, <1>2, <1>3 DEF ledkey_release

LEMMA ReferenceStep ==
  LinesInv /\ FlagInv /\ OpenFileCounted /\ [Next]_vars => OpenFileCounted'
<1> SUFFICES ASSUME LinesInv, FlagInv, OpenFileCounted, [Next]_vars PROVE OpenFileCounted'
  OBVIOUS
<1>1. CASE \E u \in Users : ledkey_open(u) \/ ledkey_release(u)
  BY <1>1, OpenReferenceStep, ReleaseReferenceStep
<1>2. CASE \E u \in Users : ledkey_read(u)
  BY <1>2, ReferenceGoto DEF ledkey_read, ReadLock, ReadTake, ReadBusy, opening
<1>3. CASE (\E k \in Keys : keyIsr(k)) \/ UNCHANGED vars
  <2>1. UNCHANGED <<refcnt, moduleState, upc>>
    BY <1>3 DEF keyIsr, IsrEnter, IsrLock, IsrBusy, IsrStore, IsrReturn, opening, vars
  <2> QED
    BY <2>1, SameReferences DEF HasReference
<1>4. CASE Rmmod \/ ledkey_exit
  <2>1. UNCHANGED <<refcnt, upc>>
    BY <1>4 DEF Rmmod, ledkey_exit, ExitUnregister, ExitDone, Unload
  <2>2. \A u \in Users : ~HasReference(u)
    BY <1>4 DEF Rmmod, ledkey_exit, ExitUnregister, ExitDone, Unload, OpenFileCounted
  <2> QED
    BY <2>1, <2>2 DEF OpenFileCounted, HasReference
<1> QED
  BY <1>1, <1>2, <1>3, <1>4 DEF Next

LEMMA Inductive == Spec => []IInv
<1>1. IInv /\ [Next]_vars => IInv'
  BY LinesStep, FlagStep, ReferenceStep DEF IInv
<1> QED
  BY <1>1, InitInv, PTL DEF Spec

-----------------------------------------------------------------------------
(* The properties.                                                         *)

\* ledkey_int_dev.c: keyIsr() is never called with a freed structure, and none is
\* freed under it, whatever number of processes open, fail to open and close.
THEOREM NoUseAfterFree == Spec => []HandlerDataAlive
<1>1. IInv => HandlerDataAlive
  BY DEF IInv, LinesInv, Running, HandlerDataAlive
<1> QED
  BY <1>1, Inductive, PTL

\* ledkey_open(): an open that succeeds has all the lines, so two cannot.
THEOREM KeysAreOwned == Spec => []OpenOwnsAllKeys
<1>1. IInv => OpenOwnsAllKeys
  BY DEF IInv, LinesInv, LineInv, Held, Mine, IsOpen, OpenOwnsAllKeys
<1> QED
  BY <1>1, Inductive, PTL

\* ledkey_open(): of all the processes that race for openFlag one at a time gets
\* past its test, and the flag is set as long as that one owns it.
THEOREM OneIsAdmitted == Spec => []FlagHasOneOwner
<1>1. IInv => FlagHasOneOwner
  BY DEF IInv, FlagInv
<1> QED
  BY <1>1, Inductive, PTL

\* ledkey_open(), ledkey_release() and rmmod: the module counts its open file, and
\* is not unloaded under it.
THEOREM OpenFileKeepsModule == Spec => []OpenFileCounted
<1>1. IInv => OpenFileCounted
  BY DEF IInv
<1> QED
  BY <1>1, Inductive, PTL
=============================================================================
