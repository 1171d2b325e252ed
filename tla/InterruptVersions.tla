-------------------------- MODULE InterruptVersions --------------------------
(***************************************************************************)
(* The versions of the driver whose keys come by interrupt: p369, its      *)
(* allocating variant, p399, p432 (the copy built into the kernel and the  *)
(* one DriverLoad and KeyEvent have in detail) and p527.                   *)
(***************************************************************************)
EXTENDS KernelCalls

-----------------------------------------------------------------------------
(* The statements most of them share.                                      *)

\* keyIsr(): the key is stored unless somebody holds the mutex.
StoreUnderMutex(rest) ==
  IfThen("mutex_trylock", Do("store_key") \o Do("mutex_unlock"), rest)

\* read(): the key is taken unless somebody holds the mutex.
TakeUnderMutex ==
  IfThen("mutex_trylock",
         IfThen("test_key", Do("copy_key") \o Do("clear_key"), Do("mutex_unlock")),
         <<>>)

\* if(!(filp->f_flags & O_NONBLOCK)) wait_event_interruptible(queue, keyNum)
WaitForKey(rest) == IfThen("test_blocking", Do("wait_event"), rest)

\* open() with the flag, and the release() that goes with it.
OpenOnce  == Do("test_open") \o Do("set_open") \o Do("try_module_get")
CloseOnce == Do("module_put") \o Do("clear_open")

-----------------------------------------------------------------------------
(* p369_ledkey_int/ledkey_int_dev.c.                                       *)

\* Mutant of P369Calls: read() takes the key without the mutex.
P369CallsNoMutex ==
  [Plain EXCEPT !.isr = StoreUnderMutex(<<>>),
   !.open = OpenOnce,
   !.calls = [read |-> Do("copy_key") \o Do("clear_key"), write |-> Touch(Leds),
                ioctl |-> <<>>],
   !.release = CloseOnce]

P369Calls ==
  [Plain EXCEPT !.isr = StoreUnderMutex(<<>>),
   !.open = OpenOnce,
   !.calls = [read |-> TakeUnderMutex, write |-> Touch(Leds), ioctl |-> <<>>],
   !.release = CloseOnce]
P369Gpio == OneLoopLines

\* Mutant of P369Load: init does not look at the result of request_irq().
P369LoadUnchecked ==
  [init |-> Do("mutex_init") \o P369Gpio.ledInit \o P369Gpio.keyInit \o IrqLines.toIrq
            \o Unchecked(ForEach(gpioKey, <<"request_irq">>)) \o Do("register_chrdev"),
   exit |-> Do("unregister_chrdev") \o IrqLines.freeIrq
            \o P369Gpio.ledFree \o P369Gpio.keyFree \o Do("mutex_destroy")]

P369Load ==
  [init |-> Do("mutex_init") \o P369Gpio.ledInit \o P369Gpio.keyInit \o IrqLines.toIrq
            \o ForEach(gpioKey, <<"request_irq">>) \o Do("register_chrdev"),
   exit |-> Do("unregister_chrdev") \o IrqLines.freeIrq
            \o P369Gpio.ledFree \o P369Gpio.keyFree \o Do("mutex_destroy")]
P369 == Version(P369Calls, P369Load)

(* p369_ledkey_int_ksh/ledkey_int_dev.c.                                   *)
P369KshCalls ==
  [Plain EXCEPT !.isr = StoreUnderMutex(<<>>),
   !.open = OpenOnce,
   !.calls = [read |-> TakeUnderMutex, write |-> Touch(Leds), ioctl |-> <<>>],
   !.release = CloseOnce]
P369KshGpio == OneLoopLines
P369KshLoad ==
  [init |-> Do("mutex_init") \o P369KshGpio.ledInit \o P369KshGpio.keyInit
            \o IrqLines.toIrq
            \o ForEach(gpioKey, <<"request_irq">>) \o Do("register_chrdev"),
   exit |-> Do("unregister_chrdev") \o IrqLines.freeIrq
            \o P369KshGpio.ledFree \o P369KshGpio.keyFree \o Do("mutex_destroy")]
P369Ksh == Version(P369KshCalls, P369KshLoad)

(* p369_ledkey_int_kmalloc/ledkey_int_dev.c; the _hjy and _ksh files differ *)
(* in blanks.  LedkeyIntKmalloc has the life of the structures.             *)
KmallocCalls ==
  [Plain EXCEPT !.perOpen = TRUE,
   !.isr = StoreUnderMutex(<<>>),
   !.open = Do("kmalloc") \o IrqLines.toIrq
               \o ForEach(gpioKey, <<"request_irq">>) \o OpenOnce,
   !.calls = [llseek |-> <<>>, read |-> TakeUnderMutex, write |-> Touch(Leds),
                ioctl |-> <<>>],
   !.release = IrqLines.freeIrq \o CloseOnce \o Do("kfree")]
KmallocGpio == OneLoopLines
KmallocLoad ==
  [init |-> Do("mutex_init") \o KmallocGpio.ledInit \o KmallocGpio.keyInit
            \o Do("register_chrdev"),
   exit |-> Do("unregister_chrdev")
            \o KmallocGpio.ledFree \o KmallocGpio.keyFree \o Do("mutex_destroy")]
Kmalloc == Version(KmallocCalls, KmallocLoad)

-----------------------------------------------------------------------------
(* p399_ledkey_blockio/ledkey_blockio_dev.c: read() may sleep.             *)

\* Mutant of P399Calls: keyIsr() wakes nobody.
P399CallsNoWake ==
  [Plain EXCEPT !.isr = StoreUnderMutex(<<>>),
   !.open = OpenOnce,
   !.calls = [read |-> WaitForKey(TakeUnderMutex),
                write |-> Touch(Leds), ioctl |-> <<>>],
   !.release = CloseOnce]

P399Calls ==
  [Plain EXCEPT !.isr = StoreUnderMutex(Do("wake_up")),
   !.open = OpenOnce,
   !.calls = [read |-> WaitForKey(TakeUnderMutex),
                write |-> Touch(Leds), ioctl |-> <<>>],
   !.release = CloseOnce]
P399Gpio == OneLoopLines
P399Load ==
  [init |-> Do("mutex_init") \o P399Gpio.ledInit \o P399Gpio.keyInit \o IrqLines.toIrq
            \o ForEach(gpioKey, <<"request_irq">>) \o Do("register_chrdev"),
   exit |-> Do("unregister_chrdev") \o IrqLines.freeIrq
            \o P399Gpio.ledFree \o P399Gpio.keyFree \o Do("mutex_destroy")]
P399 == Version(P399Calls, P399Load)

(* p399_ledkey_blockio_ksh/ledkey_blockio_dev.c: read() takes the key      *)
(* without the mutex.                                                      *)
P399KshCalls ==
  [Plain EXCEPT !.isr = StoreUnderMutex(Do("wake_up")),
   !.open = OpenOnce,
   !.calls = [read |-> WaitForKey(Do("copy_key") \o Do("clear_key")),
                write |-> Touch(Leds), ioctl |-> <<>>],
   !.release = CloseOnce]
P399KshGpio == OneLoopLines
P399KshLoad ==
  [init |-> Do("mutex_init") \o P399KshGpio.ledInit \o P399KshGpio.keyInit
            \o IrqLines.toIrq
            \o ForEach(gpioKey, <<"request_irq">>) \o Do("register_chrdev"),
   exit |-> Do("unregister_chrdev") \o IrqLines.freeIrq
            \o P399KshGpio.ledFree \o P399KshGpio.keyFree \o Do("mutex_destroy")]
P399Ksh == Version(P399KshCalls, P399KshLoad)

-----------------------------------------------------------------------------
(* p432_ledkey_poll_builtin/ledkey_poll_dev.c.  poll() looks at keyNum; the *)
(* waiting of its caller is in KeyEvent.                                   *)
P432Calls ==
  [Plain EXCEPT !.isr = StoreUnderMutex(Do("wake_up")),
   !.open = OpenOnce,
   !.calls = [read |-> WaitForKey(TakeUnderMutex), write |-> Touch(Leds),
                ioctl |-> <<>>, poll |-> Do("test_key")],
   !.release = CloseOnce]
P432Gpio == OneLoopLines
P432Load ==
  [init |-> Do("mutex_init") \o P432Gpio.ledInit \o P432Gpio.keyInit \o IrqLines.toIrq
            \o ForEach(gpioKey, <<"request_irq">>) \o Do("register_chrdev"),
   exit |-> Do("unregister_chrdev") \o IrqLines.freeIrq
            \o P432Gpio.ledFree \o P432Gpio.keyFree \o Do("mutex_destroy")]
P432 == Version(P432Calls, P432Load)

-----------------------------------------------------------------------------
(* p527_ledkey_proc/p527_ledkey_dev.c: no mutex, no flag; the key and the  *)
(* LEDs are also files in /proc/ledkey.                                    *)
P527Gpio == TwoLoopLines
P527Calls ==
  [Plain EXCEPT !.owner = TRUE,
   !.isr = Do("store_key") \o Do("wake_up"),
   !.calls = [read  |-> WaitForKey(Do("copy_key") \o Do("clear_key")),
               write |-> Touch(Leds), ioctl |-> <<>>, poll |-> Do("test_key")],
   !.direct = [proc_read |-> Do("copy_key") \o Do("clear_key"),
               proc_write |-> Touch(Leds)]]

P527Load ==
  [init |-> Do("register_chrdev") \o P527Gpio.ledInit \o P527Gpio.keyInit
            \o Unchecked(IrqLines.toIrq)
            \o CallThen(ForEach(gpioKey, <<"request_irq">>), Do("provide_call")),
   exit |-> Do("unregister_chrdev") \o Do("remove_call") \o P527Gpio.ledFree
            \o IrqLines.freeIrq \o P527Gpio.keyFree]
P527 == Version(P527Calls, P527Load)
=============================================================================
