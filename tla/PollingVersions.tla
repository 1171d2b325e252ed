--------------------------- MODULE PollingVersions ---------------------------
(***************************************************************************)
(* The versions of the driver that use no interrupt: the modules that only *)
(* have an init and an exit function (p106, p122), the character drivers   *)
(* p184, p238 and p270, the ioctl drivers p306, and the system call.  For  *)
(* each file: the lines its helpers loop over, its file operations, and    *)
(* its init and exit function, in the order of their statements.           *)
(***************************************************************************)
EXTENDS KernelCalls

-----------------------------------------------------------------------------
(* p122/led.c, of which p106_ledkey_ksh/led.c is a copy.                   *)

P122Gpio == TwoLoopLines

\* Mutant of P122Load: exit does not free the keys.
P122LoadKeepsKeys ==
  [init |-> P122Gpio.ledInit \o P122Gpio.keyInit \o Touch(Keys) \o Touch(Leds),
   exit |-> Touch(Keys) \o Touch(Leds) \o P122Gpio.ledFree]

P122Load ==
  [init |-> P122Gpio.ledInit \o P122Gpio.keyInit \o Touch(Keys) \o Touch(Leds),
   exit |-> Touch(Keys) \o Touch(Leds) \o P122Gpio.ledFree \o P122Gpio.keyFree]
P122 == Version(Plain, P122Load)

(* p122/ledkey_param.c: init shows the parameter onevalue, not the keys.   *)
P122ParamGpio == TwoLoopLines
P122ParamLoad ==
  [init |-> P122ParamGpio.ledInit \o P122ParamGpio.keyInit \o Touch(Keys) \o Touch(Leds),
   exit |-> Touch(Keys) \o Touch(Leds) \o P122ParamGpio.ledFree \o P122ParamGpio.keyFree]
P122Param == Version(Plain, P122ParamLoad)

(* p106_ledkey/led.c: the keys are held only while they are read.          *)
P106Gpio == TwoLoopLines

P106Load ==
  [init |-> P106Gpio.ledInit
            \o OnFailure(P106Gpio.keyInit, P106Gpio.ledFree)
            \o Touch(Keys) \o Touch(Leds) \o P106Gpio.keyFree,
   exit |-> OnFailure(P106Gpio.keyInit, Touch(Leds) \o P106Gpio.ledFree)
            \o Touch(Keys) \o P106Gpio.keyFree \o Touch(Leds) \o P106Gpio.ledFree]
P106 == Version(Plain, P106Load)

(* p106_ledkey/test_mysyscall_ledkey.c, linked into the kernel: any number *)
(* of processes may be in the system call at once.                         *)
MysyscallGpio == TwoLoopLines
sys_mysyscall ==
  MysyscallGpio.ledInit \o Touch(Leds) \o MysyscallGpio.ledFree
  \o MysyscallGpio.keyInit \o Touch(Keys) \o MysyscallGpio.keyFree
Mysyscall ==
  [Plain EXCEPT !.init = Do("provide_call"),
   !.direct = [mysyscall |-> sys_mysyscall]]

-----------------------------------------------------------------------------
(* p184_calldev/call_dev.c: every operation returns a number.              *)

CalldevCalls ==
  [Plain EXCEPT !.owner = TRUE,
   !.calls = [call_llseek |-> <<>>, call_read |-> <<>>, call_write |-> <<>>,
              call_ioctl |-> <<>>]]
CalldevLoad ==
  [init |-> Do("register_chrdev"), exit |-> Do("unregister_chrdev")]
Calldev == Version(CalldevCalls, CalldevLoad)

(* p184_calldev_ledkey_backup/call_dev.c and its copy in                   *)
(* p184_calldev_ledkey: a structure is allocated for every open file.      *)
BackupGpio == TwoLoopLines
BackupCalls ==
  [Plain EXCEPT !.owner = TRUE,
   !.open = Unchecked(Do("try_module_get")) \o Do("kmalloc"),
   !.calls = [read |-> Touch(Keys), write |-> Touch(Leds), ioctl |-> <<>>],
   !.release = Do("module_put") \o Do("kfree")]
BackupLoad ==
  [init |-> Do("register_chrdev") \o BackupGpio.ledInit \o BackupGpio.keyInit,
   exit |-> Do("unregister_chrdev") \o BackupGpio.ledFree \o BackupGpio.keyFree]
Backup == Version(BackupCalls, BackupLoad)

(* p184_ledkey/call_ledkey_dev.c: release() does not put the module.       *)
P184Gpio == TwoLoopLines
P184Calls ==
  [Plain EXCEPT !.owner = TRUE,
   !.open = Unchecked(Do("try_module_get")) \o Do("kmalloc"),
   !.calls = [read |-> Touch(Keys), write |-> Touch(Leds), ioctl |-> <<>>],
   !.release = Do("kfree")]
P184Load ==
  [init |-> Do("register_chrdev") \o P184Gpio.ledInit \o P184Gpio.keyInit,
   exit |-> Do("unregister_chrdev") \o P184Gpio.ledFree \o P184Gpio.keyFree]
P184 == Version(P184Calls, P184Load)

(* p184_ledkey_0620/call_ledkey_dev.c: exit unregisters last.              *)
P184b0620Gpio == TwoLoopLines
P184b0620Calls ==
  [Plain EXCEPT !.owner = TRUE,
   !.open = Unchecked(Do("try_module_get")) \o Do("kmalloc"),
   !.calls = [read |-> Touch(Keys), write |-> Touch(Leds), ioctl |-> <<>>],
   !.release = Do("module_put") \o Do("kfree")]
P184b0620Load ==
  [init |-> Do("register_chrdev") \o P184b0620Gpio.ledInit \o P184b0620Gpio.keyInit,
   exit |-> P184b0620Gpio.ledFree \o P184b0620Gpio.keyFree \o Do("unregister_chrdev")]
P184b0620 == Version(P184b0620Calls, P184b0620Load)

(* p184_ledkey_ksh/p184_ledkey_ksh/call_ledkey_dev.c: only the owner field *)
(* counts its users.                                                       *)
P184KshGpio == TwoLoopLines
P184KshCalls ==
  [Plain EXCEPT !.owner = TRUE,
   !.open = Do("kmalloc"),
   !.calls = [read |-> Touch(Keys), write |-> Touch(Leds), ioctl |-> <<>>],
   !.release = Do("kfree")]
P184KshLoad ==
  [init |-> Do("register_chrdev") \o P184KshGpio.ledInit \o P184KshGpio.keyInit,
   exit |-> P184KshGpio.ledFree \o P184KshGpio.keyFree \o Do("unregister_chrdev")]
P184Ksh == Version(P184KshCalls, P184KshLoad)

(* p184_calldev_ledkey/call_ledkey_dev.c and its copy in p184_ledkey_ksh:  *)
(* write() touches nothing.                                                *)
CalldevLedkeyGpio == TwoLoopLines
CalldevLedkeyCalls ==
  [Plain EXCEPT !.owner = TRUE,
   !.open = Unchecked(Do("try_module_get")) \o Do("kmalloc"),
   !.calls = [read |-> Touch(Keys), write |-> <<>>, ioctl |-> <<>>],
   !.release = Do("module_put") \o Do("kfree")]
CalldevLedkeyLoad ==
  [init |-> Do("register_chrdev") \o CalldevLedkeyGpio.ledInit \o CalldevLedkeyGpio.keyInit,
   exit |-> CalldevLedkeyGpio.ledFree \o CalldevLedkeyGpio.keyFree \o Do("unregister_chrdev")]
CalldevLedkey == Version(CalldevLedkeyCalls, CalldevLedkeyLoad)

-----------------------------------------------------------------------------
(* p238_ledkey_array/call_ledkey_dev.c.                                    *)

\* Mutants of P238Calls: open() does not look at the result of try_module_get();
\* release() leaves the flag set.
P238CallsUnchecked ==
  [Plain EXCEPT !.open = Do("test_open") \o Do("set_open") \o Unchecked(Do("try_module_get")),
   !.calls = [llseek |-> <<>>, read |-> Touch(Keys), write |-> Touch(Leds),
                ioctl |-> <<>>],
   !.release = Do("module_put") \o Do("clear_open")]
P238CallsKeepFlag ==
  [Plain EXCEPT !.open = Do("test_open") \o Do("set_open") \o Do("try_module_get"),
   !.calls = [llseek |-> <<>>, read |-> Touch(Keys), write |-> Touch(Leds),
                ioctl |-> <<>>],
   !.release = Do("module_put")]

P238Calls ==
  [Plain EXCEPT !.open = Do("test_open") \o Do("set_open") \o Do("try_module_get"),
   !.calls = [llseek |-> <<>>, read |-> Touch(Keys), write |-> Touch(Leds),
                ioctl |-> <<>>],
   !.release = Do("module_put") \o Do("clear_open")]
P238Gpio == OneLoopLines

\* Mutant of P238Load: the device is registered before the lines are requested.
P238LoadRegistersFirst ==
  [init |-> Do("register_chrdev") \o P238Gpio.ledInit \o P238Gpio.keyInit,
   exit |-> Do("unregister_chrdev") \o P238Gpio.ledFree \o P238Gpio.keyFree]

P238Load ==
  [init |-> P238Gpio.ledInit \o P238Gpio.keyInit \o Do("register_chrdev"),
   exit |-> Do("unregister_chrdev") \o P238Gpio.ledFree \o P238Gpio.keyFree]
P238 == Version(P238Calls, P238Load)

(* p270/minor_dev.c and, with other blanks,                                *)
(* p270_minor_ledkey_minor2/minor_dev.c: the minor number of the opened    *)
(* node says what may be done with it.                                     *)
P270Gpio == TwoLoopLines
P270Calls ==
  [Plain EXCEPT !.owner = TRUE,
   !.minors = [m \in 0..2 |-> CASE m = 0 -> {"write"} [] m = 1 -> {"read"}
                              [] m = 2 -> {"read", "write"}],
   !.calls = [read |-> Touch(Keys), write |-> Touch(Leds)]]

P270Load ==
  [init |-> Do("register_chrdev") \o P270Gpio.ledInit \o P270Gpio.keyInit,
   exit |-> Do("unregister_chrdev") \o Touch(Leds) \o P270Gpio.ledFree \o P270Gpio.keyFree]
P270 == Version(P270Calls, P270Load)

-----------------------------------------------------------------------------
(* The ioctl drivers: the lines are requested and freed by commands.  A    *)
(* command with a wrong type or number changes nothing and is left out.    *)

(* p306_ledkey_ioctl_rw/ioctl_dev.c.                                       *)
P306Gpio == TwoLoopLines
P306Calls ==
  [Plain EXCEPT !.open = Unchecked(Do("try_module_get")),
   !.calls = [read |-> Touch(Keys), write |-> Touch(Leds),
                KEYLEDINIT |-> P306Gpio.ledInit \o P306Gpio.keyInit,
                KEYINIT |-> P306Gpio.keyInit, LEDINIT |-> P306Gpio.ledInit,
                KEYLEDFREE |-> P306Gpio.ledFree \o P306Gpio.keyFree,
                LEDOFF |-> Touch(Leds), LEDON |-> Touch(Leds),
                GETSTATE |-> Touch(Keys), READ |-> Touch(Keys),
                WRITE |-> Touch(Leds), WRITE_READ |-> Touch(Leds) \o Touch(Keys),
                LEDKEY |-> Touch(Leds) \o Touch(Keys)],
   !.release = Do("module_put")]
P306Load ==
  [init |-> Do("register_chrdev"), exit |-> Do("unregister_chrdev")]
P306 == Version(P306Calls, P306Load)

(* p306_ledkey_ioctl_rw_LEDKEY/ioctl_dev.c and its two copies: KEYLEDINIT  *)
(* sets gpioInitFlag whether or not it got the lines.                      *)
P306LedkeyGpio == TwoLoopLines
P306LedkeyCalls ==
  [Plain EXCEPT !.open = Unchecked(Do("try_module_get")),
   !.calls = [read |-> Touch(Keys), write |-> Touch(Leds),
                KEYLEDINIT |-> CallThen(P306LedkeyGpio.ledInit \o P306LedkeyGpio.keyInit,
                                        Do("set_init")),
                KEYINIT |-> P306LedkeyGpio.keyInit,
                LEDINIT |-> P306LedkeyGpio.ledInit,
                KEYLEDFREE |-> Do("clear_init")
                               \o P306LedkeyGpio.ledFree \o P306LedkeyGpio.keyFree,
                LEDOFF |-> Touch(Leds), LEDON |-> Touch(Leds),
                GETSTATE |-> Touch(Keys), READ |-> Touch(Keys),
                WRITE |-> Touch(Leds), WRITE_READ |-> Touch(Leds) \o Touch(Keys),
                LEDKEY |-> Touch(Leds) \o Touch(Keys)],
   !.release = Do("module_put")
               \o IfThen("test_init",
                         P306LedkeyGpio.ledFree \o P306LedkeyGpio.keyFree, <<>>)]
P306LedkeyLoad ==
  [init |-> Do("register_chrdev"), exit |-> Do("unregister_chrdev")]
P306Ledkey == Version(P306LedkeyCalls, P306LedkeyLoad)
=============================================================================
