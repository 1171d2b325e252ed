---------------------------- MODULE DriverMachine ----------------------------
(***************************************************************************)
(* The kernel around one of the driver's versions: it loads and unloads    *)
(* the module, lets processes open, use and close its device, delivers the *)
(* interrupts of its keys and the expiry of its timer, and carries out the *)
(* calls the driver's functions make, one statement at a time, in any      *)
(* interleaving.  Which version runs is chosen in the initial state; what  *)
(* its functions are is in PollingVersions, InterruptVersions and          *)
(* TimerVersions.                                                          *)
(*                                                                         *)
(* A file may be shared by processes (fork(), threads): release() runs at  *)
(* the last close, when nobody is in another call on that file.  Once the  *)
(* module's memory has been given back, what code of it that still runs    *)
(* would do is not modelled: it takes no step.                             *)
(***************************************************************************)
EXTENDS PollingVersions, TimerVersions

CONSTANTS
  Versions,         \* the versions to choose from
  Threads,          \* threads of the applications
  Files,            \* open files, or places for them
  NonBlocking,      \* the files opened with O_NONBLOCK
  admin,            \* who runs insmod and rmmod
  softirq,          \* who runs the timer's function
  kernel,           \* the data of a handler registered without a structure
  none,             \* nobody, no handler, no file
  MaxLoads,         \* bound on insmod
  MaxFailures,      \* bound on the requests that fail for a foreign reason
  MaxPresses,       \* bound on key edges
  MaxRefs           \* bound on the references open() may find

ASSUME FileAssumption == NonBlocking \subseteq Files /\ {kernel, none} \cap Files = {}
ASSUME ActorAssumption ==
  /\ admin # softirq /\ kernel # none
  /\ {admin, softirq, none} \cap (Threads \cup Keys) = {}
  /\ Threads \cap Keys = {}
ASSUME BoundAssumption == {MaxLoads, MaxFailures, MaxPresses, MaxRefs} \subseteq Nat

Driver ==
  [P122 |-> P122, P122Param |-> P122Param, P106 |-> P106, Mysyscall |-> Mysyscall,
   Calldev |-> Calldev, Backup |-> Backup, P184 |-> P184, P184b0620 |-> P184b0620,
   P184Ksh |-> P184Ksh, CalldevLedkey |-> CalldevLedkey, P238 |-> P238,
   P270 |-> P270, P306 |-> P306, P306Ledkey |-> P306Ledkey, P369 |-> P369,
   P369Ksh |-> P369Ksh, Kmalloc |-> Kmalloc, P399 |-> P399, P399Ksh |-> P399Ksh,
   P432 |-> P432, P527 |-> P527, TimerOnly |-> TimerOnly, TimerLed |-> TimerLed,
   TimerDev |-> TimerDev, TimerHjy |-> TimerHjy, Timer0625 |-> Timer0625]

ASSUME VersionAssumption == Versions \subseteq DOMAIN Driver

VARIABLES
  drv,              \* the version that runs
  mod,              \* "out", "loading", "live", "unloading"
  run,              \* run[a]: the function actor a is in, see Idle
  asleep,           \* the threads that sleep in wait_event_interruptible()
  held, directed,   \* lines requested; lines given their direction since
  irqKey,           \* the key lines whose interrupt number is known
  handler,          \* handler[k]: data of the handler of line k, or none
  nodes,            \* what can be called: "chrdev", "call"
  armed,            \* the timer is pending
  openFlag, gpioInitFlag,
  keyMutex,         \* who holds it, or none
  keyNum,           \* keyNum[o]: the key stored in structure o, 0 for none
  structs,          \* the files whose structure is allocated
  refs,             \* the module's reference count
  files,            \* files[f]: "closed", "opening", "open" or "closing"
  minor,            \* minor[f]: the minor number file f was opened with
  loads, failures, presses,
  clean             \* history: no call has failed for a foreign reason

modVars  == <<drv, mod, loads, clean>>
lineVars == <<held, directed>>
irqVars  == <<irqKey, handler, presses>>
keyVars  == <<keyMutex, keyNum, asleep>>
fileVars == <<openFlag, gpioInitFlag, structs, refs, files, minor>>
vars == <<modVars, lineVars, irqVars, keyVars, fileVars, run, nodes, armed, failures>>

Actors == Threads \cup {admin, softirq} \cup Keys

Idle == [op |-> "idle", todo |-> <<>>, ok |-> TRUE, file |-> none, got |-> 0]

Init ==
  /\ drv \in Versions
  /\ mod = "out"
  /\ run = [a \in Actors |-> Idle]
  /\ asleep = {}
  /\ held = {} /\ directed = {}
  /\ irqKey = {}
  /\ handler = [k \in Keys |-> none]
  /\ nodes = {}
  /\ armed = FALSE
  /\ openFlag = 0 /\ gpioInitFlag = 0
  /\ keyMutex = none
  /\ keyNum = [o \in Files \cup {kernel} |-> 0]
  /\ structs = {}
  /\ refs = 0
  /\ files = [f \in Files |-> "closed"]
  /\ minor = [f \in Files |-> 0]
  /\ loads = 0 /\ failures = 0 /\ presses = 0
  /\ clean = TRUE

-----------------------------------------------------------------------------
(* Control.                                                                *)

Now(a) == Head(run[a].todo)

\* Actor a is about to make this call.
At(a, call) ==
  /\ run[a].todo # <<>>
  /\ Now(a).call = call
  /\ a \notin asleep
  /\ mod # "out"

Start(a, op, program, f) ==
  /\ run[a] = Idle
  /\ run' = [run EXCEPT ![a] =
              [op |-> op, todo |-> program, ok |-> TRUE, file |-> f, got |-> 0]]

Succeed(a) == run' = [run EXCEPT ![a].todo = Tail(@)]

Fail(a) ==
  run' = [run EXCEPT ![a].todo = IF Now(a).checked THEN Now(a).fail ELSE Tail(@),
                     ![a].ok = @ /\ ~Now(a).checked]

\* The call of a fails, because of what the state is or for a foreign reason.
Refused(a, refused) ==
  /\ refused \/ failures < MaxFailures
  /\ failures' = IF refused THEN failures ELSE failures + 1
  /\ clean' = (clean /\ refused)
  /\ Fail(a)

Accepted(a) == Succeed(a) /\ UNCHANGED <<failures, clean>>

\* The function of a has come to its end.
Done(a, op) ==
  /\ run[a].op = op
  /\ run[a].todo = <<>>
  /\ run' = [run EXCEPT ![a] = Idle]

\* The structure that holds the key for the function a is in.
Box(a) == IF Driver[drv].perOpen THEN run[a].file ELSE kernel

-----------------------------------------------------------------------------
(* Lines and interrupts.                                                   *)

GpioRequest(a) ==
  LET lines == Now(a).lines IN
  /\ At(a, "gpio_request")
  /\ \/ lines \cap held = {} /\ held' = held \cup lines /\ Accepted(a)
     \/ Refused(a, lines \cap held # {}) /\ UNCHANGED held
  /\ UNCHANGED <<drv, mod, loads, directed, irqVars, keyVars, fileVars, nodes, armed>>

GpioDirection(a) ==
  /\ At(a, "gpio_direction_output") \/ At(a, "gpio_direction_input")
  /\ \/ directed' = directed \cup Now(a).lines /\ Accepted(a)
     \/ Refused(a, FALSE) /\ UNCHANGED directed
  /\ UNCHANGED <<drv, mod, loads, held, irqVars, keyVars, fileVars, nodes, armed>>

GpioFree(a) ==
  /\ At(a, "gpio_free")
  /\ held' = held \ Now(a).lines
  /\ directed' = directed \ Now(a).lines
  /\ Succeed(a)
  /\ UNCHANGED <<modVars, irqVars, keyVars, fileVars, nodes, armed, failures>>

\* gpio_get_value() or gpio_set_value(); TouchesHeldLines says what they need.
TouchLines(a) ==
  /\ At(a, "touch")
  /\ Succeed(a)
  /\ UNCHANGED <<modVars, lineVars, irqVars, keyVars, fileVars, nodes, armed, failures>>

GpioToIrq(a) ==
  /\ At(a, "gpio_to_irq")
  /\ \/ irqKey' = irqKey \cup Now(a).lines /\ Accepted(a)
     \/ Refused(a, FALSE) /\ UNCHANGED irqKey
  /\ UNCHANGED <<drv, mod, loads, lineVars, handler, presses, keyVars, fileVars,
                 nodes, armed>>

\* Without IRQF_SHARED a line has one handler.
RequestIrq(a) ==
  LET lines == Now(a).lines
      busy  == \E k \in lines : k \notin irqKey \/ handler[k] # none
  IN
  /\ At(a, "request_irq")
  /\ \/ /\ ~busy
        /\ handler' = [k \in Keys |-> IF k \in lines THEN Box(a) ELSE handler[k]]
        /\ Accepted(a)
     \/ Refused(a, busy) /\ UNCHANGED handler
  /\ UNCHANGED <<drv, mod, loads, lineVars, irqKey, presses, keyVars, fileVars,
                 nodes, armed>>

\* free_irq() frees the handler with this data, after its last run has ended.
FreeIrq(a) ==
  LET lines == Now(a).lines IN
  /\ At(a, "free_irq")
  /\ \A k \in lines : run[k] = Idle
  /\ handler' = [k \in Keys |->
                  IF k \in lines /\ handler[k] = Box(a) THEN none ELSE handler[k]]
  /\ Succeed(a)
  /\ UNCHANGED <<modVars, lineVars, irqKey, presses, keyVars, fileVars, nodes, armed,
                 failures>>

-----------------------------------------------------------------------------
(* Registering.                                                            *)

RegisterChrdev(a) ==
  /\ At(a, "register_chrdev")
  /\ \/ "chrdev" \notin nodes /\ nodes' = nodes \cup {"chrdev"} /\ Accepted(a)
     \/ Refused(a, "chrdev" \in nodes) /\ UNCHANGED nodes
  /\ UNCHANGED <<drv, mod, loads, lineVars, irqVars, keyVars, fileVars, armed>>

UnregisterChrdev(a) ==
  /\ At(a, "unregister_chrdev")
  /\ nodes' = nodes \ {"chrdev"}
  /\ Succeed(a)
  /\ UNCHANGED <<modVars, lineVars, irqVars, keyVars, fileVars, armed, failures>>

\* proc_create_data(), and the table of system calls of a built-in call.
ProvideCall(a) ==
  /\ At(a, "provide_call")
  /\ nodes' = nodes \cup {"call"}
  /\ Succeed(a)
  /\ UNCHANGED <<modVars, lineVars, irqVars, keyVars, fileVars, armed, failures>>

\* remove_proc_entry() waits for the calls that are under way.
RemoveCall(a) ==
  /\ At(a, "remove_call")
  /\ \A t \in Threads : run[t].op # "direct"
  /\ nodes' = nodes \ {"call"}
  /\ Succeed(a)
  /\ UNCHANGED <<modVars, lineVars, irqVars, keyVars, fileVars, armed, failures>>

\* add_timer(), mod_timer() and del_timer(), which waits for nobody.
SetTimer(a) ==
  /\ \/ At(a, "add_timer") /\ armed' = TRUE
     \/ At(a, "mod_timer") /\ armed' = TRUE
     \/ At(a, "del_timer") /\ armed' = FALSE
  /\ Succeed(a)
  /\ UNCHANGED <<modVars, lineVars, irqVars, keyVars, fileVars, nodes, failures>>

\* try_module_get() refuses a module that is being unloaded.
TryModuleGet(a) ==
  /\ At(a, "try_module_get")
  /\ \/ mod # "unloading" /\ refs' = refs + 1 /\ Succeed(a)
     \/ mod = "unloading" /\ Fail(a) /\ UNCHANGED refs
  /\ UNCHANGED <<modVars, lineVars, irqVars, keyVars, openFlag, gpioInitFlag, structs,
                 files, minor, nodes, armed, failures>>

\* module_put() of a count of 0 warns and leaves it.
ModulePut(a) ==
  /\ At(a, "module_put")
  /\ refs' = IF refs > 0 THEN refs - 1 ELSE 0
  /\ Succeed(a)
  /\ UNCHANGED <<modVars, lineVars, irqVars, keyVars, openFlag, gpioInitFlag, structs,
                 files, minor, nodes, armed, failures>>

Kmalloc_(a) ==
  /\ At(a, "kmalloc")
  /\ \/ structs' = structs \cup {run[a].file} /\ Accepted(a)
        /\ keyNum' = [keyNum EXCEPT ![run[a].file] = 0]
     \/ Refused(a, FALSE) /\ UNCHANGED <<structs, keyNum>>
  /\ UNCHANGED <<drv, mod, loads, lineVars, irqVars, keyMutex, asleep, openFlag,
                 gpioInitFlag, refs, files, minor, nodes, armed>>

Kfree(a) ==
  /\ At(a, "kfree")
  /\ structs' = structs \ {run[a].file}
  /\ Succeed(a)
  /\ UNCHANGED <<modVars, lineVars, irqVars, keyVars, openFlag, gpioInitFlag, refs,
                 files, minor, nodes, armed, failures>>

-----------------------------------------------------------------------------
(* The driver's static variables.                                          *)

\* A test of one variable: true goes on, false does what is in fail.
Test(a) ==
  /\ \E test \in {"test_open", "test_init", "test_key", "test_blocking", "timer_pending"} :
       /\ At(a, test)
       /\ LET holds ==
                \/ test = "test_open" /\ openFlag = 0
                \/ test = "test_init" /\ gpioInitFlag = 1
                \/ test = "test_key" /\ keyNum[Box(a)] # 0
                \/ test = "test_blocking" /\ run[a].file \notin NonBlocking
                \/ test = "timer_pending" /\ armed
          IN (holds /\ Succeed(a)) \/ (~holds /\ Fail(a))
  /\ UNCHANGED <<modVars, lineVars, irqVars, keyVars, fileVars, nodes, armed, failures>>

SetFlag(a) ==
  /\ \/ At(a, "set_open") /\ openFlag' = 1 /\ UNCHANGED gpioInitFlag
     \/ At(a, "clear_open") /\ openFlag' = 0 /\ UNCHANGED gpioInitFlag
     \/ At(a, "set_init") /\ gpioInitFlag' = 1 /\ UNCHANGED openFlag
     \/ At(a, "clear_init") /\ gpioInitFlag' = 0 /\ UNCHANGED openFlag
  /\ Succeed(a)
  /\ UNCHANGED <<modVars, lineVars, irqVars, keyVars, structs, refs, files, minor,
                 nodes, armed, failures>>

\* mutex_init(), mutex_trylock(), mutex_unlock() and mutex_destroy().
Mutex(a) ==
  /\ \/ At(a, "mutex_init") /\ keyMutex' = none /\ Succeed(a)
     \/ At(a, "mutex_trylock") /\ keyMutex = none /\ keyMutex' = a /\ Succeed(a)
     \/ At(a, "mutex_trylock") /\ keyMutex # none /\ Fail(a) /\ UNCHANGED keyMutex
     \/ At(a, "mutex_unlock") /\ keyMutex' = none /\ Succeed(a)
     \/ At(a, "mutex_destroy") /\ Succeed(a) /\ UNCHANGED keyMutex
  /\ UNCHANGED <<modVars, lineVars, irqVars, keyNum, asleep, fileVars, nodes, armed,
                 failures>>

\* keyIsr() stores its key, read() copies the key and clears it.
StoreKey(a) ==
  /\ At(a, "store_key")
  /\ keyNum' = [keyNum EXCEPT ![run[a].file] = KeyNumber(a)]
  /\ Succeed(a)
  /\ UNCHANGED <<modVars, lineVars, irqVars, keyMutex, asleep, fileVars, nodes, armed,
                 failures>>

CopyKey(a) ==
  /\ At(a, "copy_key")
  /\ run' = [run EXCEPT ![a].todo = Tail(@), ![a].got = keyNum[Box(a)]]
  /\ UNCHANGED <<modVars, lineVars, irqVars, keyVars, fileVars, nodes, armed, failures>>

ClearKey(a) ==
  /\ At(a, "clear_key")
  /\ keyNum' = [keyNum EXCEPT ![Box(a)] = 0]
  /\ Succeed(a)
  /\ UNCHANGED <<modVars, lineVars, irqVars, keyMutex, asleep, fileVars, nodes, armed,
                 failures>>

\* wait_event_interruptible(queue, keyNum): a wake-up tests the condition again.
\* The macro tests, enters the queue, tests again and sleeps; a wake-up after it has
\* entered takes the sleep back, so that what counts is one test, made together with
\* the sleep.  KeyEvent has the four statements one by one.
WaitEvent(a) ==
  /\ At(a, "wait_event")
  /\ \/ keyNum[Box(a)] # 0 /\ Succeed(a) /\ UNCHANGED asleep
     \/ keyNum[Box(a)] = 0 /\ asleep' = asleep \cup {a} /\ UNCHANGED run
  /\ UNCHANGED <<modVars, lineVars, irqVars, keyMutex, keyNum, fileVars, nodes, armed,
                 failures>>

\* A signal ends the wait; no version looks at its result.
Signal(a) ==
  /\ a \in asleep
  /\ asleep' = asleep \ {a}
  /\ Succeed(a)
  /\ UNCHANGED <<modVars, lineVars, irqVars, keyMutex, keyNum, fileVars, nodes, armed,
                 failures>>

WakeUp(a) ==
  /\ At(a, "wake_up")
  /\ asleep' = {}
  /\ Succeed(a)
  /\ UNCHANGED <<modVars, lineVars, irqVars, keyMutex, keyNum, fileVars, nodes, armed,
                 failures>>

-----------------------------------------------------------------------------
(* Loading and unloading.                                                  *)

\* Nothing in the kernel leads into the module's code.
NothingDangles == nodes = {} /\ ~armed /\ \A k \in Keys : handler[k] = none

\* The module gets new memory.  After a load that left a way into memory given
\* back, an open file among them, the model goes no further.
Insmod ==
  /\ mod = "out" /\ loads < MaxLoads
  /\ NothingDangles
  /\ \A f \in Files : files[f] = "closed"
  /\ \A a \in Actors : run[a] = Idle
  /\ Start(admin, "init", Driver[drv].init, none)
  /\ mod' = "loading" /\ loads' = loads + 1
  /\ openFlag' = 0 /\ gpioInitFlag' = 0
  /\ irqKey' = {}
  /\ keyNum' = [o \in DOMAIN keyNum |-> 0] /\ keyMutex' = none
  /\ refs' = 0
  /\ UNCHANGED <<drv, clean, lineVars, handler, presses, asleep, structs, files, minor,
                 nodes, armed, failures>>

InitReturns ==
  /\ Done(admin, "init")
  /\ mod' = IF run[admin].ok THEN "live" ELSE "out"
  /\ UNCHANGED <<drv, loads, clean, lineVars, irqVars, keyVars, fileVars, nodes, armed,
                 failures>>

\* rmmod needs an exit function and a reference count of 0.
Rmmod ==
  /\ mod = "live" /\ refs = 0
  /\ Driver[drv].exit # <<>>
  /\ Start(admin, "exit", Driver[drv].exit, none)
  /\ mod' = "unloading"
  /\ UNCHANGED <<drv, loads, clean, lineVars, irqVars, keyVars, fileVars, nodes, armed,
                 failures>>

ExitReturns ==
  /\ Done(admin, "exit")
  /\ mod' = "out"
  /\ UNCHANGED <<drv, loads, clean, lineVars, irqVars, keyVars, fileVars, nodes, armed,
                 failures>>

-----------------------------------------------------------------------------
(* Processes, interrupts and the timer.                                    *)

\* chrdev_open(): the owner, if the driver names one, gets a reference first.
Open(t, f) ==
  LET minors == Driver[drv].minors IN
  /\ files[f] = "closed" /\ refs < MaxRefs
  /\ "chrdev" \in nodes /\ mod # "out"
  /\ Driver[drv].owner => mod # "unloading"
  /\ \E m \in IF DOMAIN minors = {} THEN {0} ELSE DOMAIN minors :
       minor' = [minor EXCEPT ![f] = m]
  /\ Start(t, "open", Driver[drv].open, f)
  /\ files' = [files EXCEPT ![f] = "opening"]
  /\ refs' = IF Driver[drv].owner THEN refs + 1 ELSE refs
  /\ UNCHANGED <<modVars, lineVars, irqVars, keyVars, openFlag, gpioInitFlag, structs,
                 nodes, armed, failures>>

OpenReturns(t) ==
  LET f == run[t].file IN
  /\ Done(t, "open")
  /\ files' = [files EXCEPT ![f] = IF run[t].ok THEN "open" ELSE "closed"]
  /\ refs' = IF Driver[drv].owner /\ ~run[t].ok THEN refs - 1 ELSE refs
  /\ minor' = [minor EXCEPT ![f] = IF run[t].ok THEN @ ELSE 0]
  /\ UNCHANGED <<modVars, lineVars, irqVars, keyVars, openFlag, gpioInitFlag, structs,
                 nodes, armed, failures>>

Call(t, f) ==
  /\ files[f] = "open" /\ mod # "out"
  /\ \E op \in DOMAIN Driver[drv].calls :
       /\ DOMAIN Driver[drv].minors # {} => op \in Driver[drv].minors[minor[f]]
       /\ Start(t, "call", Driver[drv].calls[op], f)
  /\ UNCHANGED <<modVars, lineVars, irqVars, keyVars, fileVars, nodes, armed, failures>>

\* A file in /proc, or the system call.
DirectCall(t) ==
  /\ "call" \in nodes /\ mod # "out"
  /\ \E op \in DOMAIN Driver[drv].direct :
       Start(t, "direct", Driver[drv].direct[op], none)
  /\ UNCHANGED <<modVars, lineVars, irqVars, keyVars, fileVars, nodes, armed, failures>>

Close(t, f) ==
  /\ files[f] = "open" /\ mod # "out"
  /\ \A u \in Threads : run[u].file # f
  /\ Start(t, "release", Driver[drv].release, f)
  /\ files' = [files EXCEPT ![f] = "closing"]
  /\ UNCHANGED <<modVars, lineVars, irqVars, keyVars, openFlag, gpioInitFlag, structs,
                 refs, minor, nodes, armed, failures>>

ReleaseReturns(t) ==
  LET f == run[t].file IN
  /\ Done(t, "release")
  /\ files' = [files EXCEPT ![f] = "closed"]
  /\ minor' = [minor EXCEPT ![f] = 0]
  /\ refs' = IF Driver[drv].owner THEN refs - 1 ELSE refs
  /\ UNCHANGED <<modVars, lineVars, irqVars, keyVars, openFlag, gpioInitFlag, structs,
                 nodes, armed, failures>>

\* A rising edge of a key whose handler is not running.
Press(k) ==
  /\ handler[k] # none /\ mod # "out"
  /\ presses < MaxPresses
  /\ presses' = presses + 1
  /\ Start(k, "isr", Driver[drv].isr, handler[k])
  /\ UNCHANGED <<modVars, lineVars, irqKey, handler, keyVars, fileVars, nodes, armed,
                 failures>>

TimerExpires ==
  /\ armed /\ mod # "out"
  /\ armed' = FALSE
  /\ Start(softirq, "timer", Driver[drv].timer, none)
  /\ UNCHANGED <<modVars, lineVars, irqVars, keyVars, fileVars, nodes, failures>>

\* A call, a handler or the timer's function returns.
Return(a) ==
  /\ \E op \in {"call", "direct", "isr", "timer"} : Done(a, op)
  /\ UNCHANGED <<modVars, lineVars, irqVars, keyVars, fileVars, nodes, armed, failures>>

-----------------------------------------------------------------------------
Statement(a) ==
  \/ GpioRequest(a) \/ GpioDirection(a) \/ GpioFree(a) \/ TouchLines(a)
  \/ GpioToIrq(a) \/ RequestIrq(a) \/ FreeIrq(a)
  \/ RegisterChrdev(a) \/ UnregisterChrdev(a) \/ ProvideCall(a) \/ RemoveCall(a)
  \/ SetTimer(a) \/ TryModuleGet(a) \/ ModulePut(a) \/ Kmalloc_(a) \/ Kfree(a)
  \/ Test(a) \/ SetFlag(a) \/ Mutex(a)
  \/ StoreKey(a) \/ CopyKey(a) \/ ClearKey(a)
  \/ WaitEvent(a) \/ Signal(a) \/ WakeUp(a)

Next ==
  \/ Insmod \/ InitReturns \/ Rmmod \/ ExitReturns
  \/ \E t \in Threads :
       \/ OpenReturns(t) \/ ReleaseReturns(t) \/ DirectCall(t)
       \/ \E f \in Files : Open(t, f) \/ Call(t, f) \/ Close(t, f)
  \/ \E k \in Keys : Press(k)
  \/ TimerExpires
  \/ \E a \in Actors : Statement(a) \/ Return(a)

Spec == Init /\ [][Next]_vars

-----------------------------------------------------------------------------
(* Properties.                                                             *)

\* The versions that look at the result of every request of init.
HoldBoth == {"P122", "P122Param", "Backup", "P184", "P184b0620", "P184Ksh",
             "CalldevLedkey", "P238", "P270", "Kmalloc"}
HandleKeys == {"P369", "P369Ksh", "P399", "P399Ksh", "P432", "P527", "TimerHjy",
               "Timer0625"}

\* A load that reports success has the lines, each with its direction, and the
\* handlers: whichever call failed for whatever reason, insmod said so.
LiveComplete ==
  mod = "live" =>
    /\ drv \in HoldBoth \cup HandleKeys => Lines \subseteq held /\ Lines \subseteq directed
    /\ drv \in HandleKeys => \A k \in Keys : handler[k] = kernel

\* The versions that let nobody in before they have their lines.
RegisteredLast == {"P122", "P122Param", "P106", "P238", "P369", "P369Ksh", "Kmalloc",
                   "P399", "P399Ksh", "P432", "Mysyscall"}

\* No call, handler or system call reads or writes a line the driver does not
\* hold at that moment: opens and calls, failed and successful loads, unloads
\* and other callers of the system call notwithstanding.
TouchesHeldLines ==
  drv \in RegisteredLast =>
    \A a \in Actors : At(a, "touch") => Now(a).lines \subseteq held

\* The versions in which a device that can be opened is the last thing init asks
\* for, and nothing else leads into the module.
NothingBesidesDevice == {"P122", "P122Param", "P106", "Calldev", "P238", "P306", "P306Ledkey"}

\* However a load ends, the kernel keeps no way into memory of the module that
\* has been given back.
NoWayIntoFreedModule ==
  drv \in NothingBesidesDevice /\ mod = "out" => NothingDangles

\* The versions that count their users: by a try_module_get() whose result they
\* look at, or by the owner field.  Those with the field let users in before init
\* has asked for anything else, and when that fails the module goes with them.
CountsUsers == {"Calldev", "P238", "P369", "P369Ksh", "P399", "P399Ksh", "P432",
                "TimerDev", "TimerHjy", "Timer0625"}
CountsUsersOnceLive == {"Backup", "P184", "P184b0620", "P184Ksh", "CalldevLedkey",
                        "P270", "P527"}

\* As long as no request has failed for a foreign reason, loading, using and
\* unloading the driver any number of times leaves no line, no handler and no node
\* behind, and takes the module from no open file that counts for one: no request
\* is refused for what an earlier load has left.  The ioctl drivers leave the lines
\* to their callers.
UnloadGivesBack ==
  clean /\ mod = "out" /\ drv \notin {"P306", "P306Ledkey", "Kmalloc"} =>
    /\ held = {} /\ nodes = {} /\ \A k \in Keys : handler[k] = none
    /\ drv \in CountsUsers \cup CountsUsersOnceLive => \A f \in Files : files[f] # "open"

\* An open file keeps the module from being unloaded, whatever rmmod and other
\* opens and closes do at the same time and whichever request fails: its reference
\* is there as long as the module is.
OpenFileHoldsModule ==
  drv \in CountsUsers \cup CountsUsersOnceLive =>
    \A f \in Files : files[f] = "open" =>
      /\ mod # "unloading"
      /\ mod = "out" => drv \notin CountsUsers
      /\ mod # "out" => refs > 0

\* The versions whose read() holds the mutex.
ReadsUnderMutex == {"P369", "P369Ksh", "Kmalloc", "P399", "P432", "TimerDev",
                    "TimerHjy", "Timer0625"}

\* What read() clears is the key it has copied: no press is erased unseen and no
\* press is handed out twice, however many threads read one file.
ClearsWhatItCopied ==
  drv \in ReadsUnderMutex =>
    \A t \in Threads : At(t, "clear_key") => keyNum[Box(t)] = run[t].got

\* A thread that sleeps for a key has none to take, or is about to be woken.
SleeperHasNoKey ==
  \A t \in asleep :
    \/ keyNum[Box(t)] = 0
    \/ \E k \in Keys : \E n \in DOMAIN run[k].todo : run[k].todo[n].call = "wake_up"

\* The versions whose open() and release() undo each other, and those of them
\* whose open() forgets its reference when kmalloc() fails.
Balanced == DOMAIN Driver \ {"P184", "Kmalloc"}
LeaksWhenRefused == {"Backup", "P184b0620", "CalldevLedkey"}

\* When every file is closed and nobody is in the driver, the device can be
\* opened and the module unloaded again.
ClosedIsFree ==
  /\ drv \in Balanced
  /\ drv \in LeaksWhenRefused => clean
  /\ mod = "live"
  /\ \A f \in Files : files[f] = "closed"
  => refs = 0 /\ openFlag = 0 /\ structs = {}
=============================================================================
