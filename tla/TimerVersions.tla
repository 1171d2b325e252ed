---------------------------- MODULE TimerVersions ----------------------------
(***************************************************************************)
(* The versions of the driver that blink the LEDs from a kernel timer: the *)
(* first two of p335_kerneltimer, the two character drivers of             *)
(* p335_kerneltimer_dev and the last one, of 0625_TEST.  KernelTimer has   *)
(* the values that one blinks with; here it is the order of arming,        *)
(* registering and freeing.                                                *)
(***************************************************************************)
EXTENDS InterruptVersions

-----------------------------------------------------------------------------
\* if(timer_pending(&timerLed)) del_timer(&timerLed); rest.
DelPendingThen(rest) == IfThen("timer_pending", Do("del_timer"), rest)

(* p335_kerneltimer/kerneltimer.c: no line at all.                         *)
TimerOnly ==
  [Plain EXCEPT !.init = Do("add_timer"), !.exit = DelPendingThen(<<>>),
   !.timer = Do("mod_timer")]

(* p335_kerneltimer/kerneltimer_ledkey.c: the keys are never requested.    *)
TimerLedGpio == OneLoopLines
TimerLedLoad ==
  [init |-> TimerLedGpio.ledInit \o Do("add_timer"),
   exit |-> TimerLedGpio.ledFree \o DelPendingThen(<<>>)]
TimerLed ==
  [Version(Plain, TimerLedLoad) EXCEPT !.timer = Touch(Leds) \o Do("mod_timer")]

-----------------------------------------------------------------------------
(* p335_kerneltimer_dev/kerneltimer_dev.c: gpioLedInit() requests the LEDs *)
(* and never makes them outputs; the device number comes last, after the   *)
(* timer has been armed.                                                   *)
TimerDevGpio ==
  [ledInit |-> ForEach(gpioLed, <<"gpio_request">>),
   ledFree |-> FreeAll(gpioLed),
   keyInit |-> RequestAndDirect(gpioKey, "gpio_direction_input"),
   keyFree |-> FreeAll(gpioKey)]
TimerDevCalls ==
  [Plain EXCEPT !.isr = StoreUnderMutex(Do("wake_up")),
   !.open = OpenOnce,
   !.calls = [TIMER_START |-> Do("mod_timer"), TIMER_STOP |-> Do("del_timer"),
                TIMER_VALUE |-> <<>>, write |-> <<>>, poll |-> Do("test_key"),
                read |-> WaitForKey(TakeUnderMutex)],
   !.release = Do("del_timer") \o CloseOnce,
   !.timer = Touch(Leds) \o Do("mod_timer")]
TimerDevLoad ==
  [init |-> Do("mutex_init") \o TimerDevGpio.ledInit \o TimerDevGpio.keyInit
            \o IrqLines.toIrq \o ForEach(gpioKey, <<"request_irq">>)
            \o Do("add_timer") \o Do("register_chrdev"),
   exit |-> Do("unregister_chrdev")
            \o DelPendingThen(TimerDevGpio.ledFree \o IrqLines.freeIrq
                              \o TimerDevGpio.keyFree \o Do("mutex_destroy"))]
TimerDev == Version(TimerDevCalls, TimerDevLoad)

(* p335_kerneltimer_dev/kerneltimer_dev_hjy.c and its copy in 0625_TEST:   *)
(* init does not look at the result of register_chrdev().                  *)
TimerHjyGpio == 
  [TwoLoopLines EXCEPT !.keyInit = RequestAndDirect(gpioKey, "gpio_direction_input")]
TimerHjyCalls ==
  [Plain EXCEPT !.isr = StoreUnderMutex(<<>>),
   !.open = OpenOnce,
   !.calls = [read |-> TakeUnderMutex, write |-> <<>>, ioctl |-> <<>>],
   !.release = CloseOnce,
   !.timer = Touch(Leds) \o Do("mod_timer")]
TimerHjyLoad ==
  [init |-> Do("mutex_init") \o TimerHjyGpio.ledInit \o TimerHjyGpio.keyInit
            \o IrqLines.toIrq \o ForEach(gpioKey, <<"request_irq">>)
            \o Do("add_timer") \o Unchecked(Do("register_chrdev")),
   exit |-> Do("unregister_chrdev")
            \o DelPendingThen(TimerHjyGpio.ledFree \o IrqLines.freeIrq
                              \o TimerHjyGpio.keyFree \o Do("mutex_destroy"))]
TimerHjy == Version(TimerHjyCalls, TimerHjyLoad)

(* 0625_TEST/p335_kerneltimer_dev/kerneltimer_dev.c: init only prepares    *)
(* the timer; TIMER_START arms it.                                         *)
Timer0625Gpio == 
  [TwoLoopLines EXCEPT !.keyInit = RequestAndDirect(gpioKey, "gpio_direction_input")]
Timer0625Calls ==
  [Plain EXCEPT !.isr = StoreUnderMutex(Do("wake_up")),
   !.open = OpenOnce,
   !.calls = [TIMER_START |-> Do("mod_timer"), TIMER_STOP |-> Do("del_timer"),
                TIMER_VALUE |-> <<>>, write |-> <<>>, poll |-> Do("test_key"),
                read |-> WaitForKey(TakeUnderMutex)],
   !.release = Do("del_timer") \o CloseOnce,
   !.timer = Touch(Leds) \o Do("mod_timer")]
Timer0625Load ==
  [init |-> Do("mutex_init") \o Timer0625Gpio.ledInit \o Timer0625Gpio.keyInit
            \o IrqLines.toIrq \o ForEach(gpioKey, <<"request_irq">>)
            \o Do("register_chrdev"),
   exit |-> Do("unregister_chrdev")
            \o DelPendingThen(Timer0625Gpio.ledFree \o IrqLines.freeIrq
                              \o Timer0625Gpio.keyFree \o Do("mutex_destroy"))]
Timer0625 == Version(Timer0625Calls, Timer0625Load)
=============================================================================
