------------------------ MODULE DriverMachineProofs ------------------------
(***************************************************************************)
(* For any number of threads, files, LEDs and keys, and any bounds: no     *)
(* wake-up is lost (26 versions), no way leads into memory of a module     *)
(* that has been given back (7), a load that reports success has its       *)
(* lines and handlers (18), what read() clears is what it has copied (8),  *)
(* an open file holds the module (17), and a device that everybody has     *)
(* closed can be opened and unloaded again (24).                           *)
(*                                                                         *)
(* What a version's functions are enters as the set of programs each of    *)
(* them may have left: Program(C) if it makes calls of C only, or a few    *)
(* named tails.  Such a set is closed: what follows a statement, and what  *)
(* is done when it fails, are members.  So a fact of every member holds    *)
(* whatever the actors have left to do.                                    *)
(***************************************************************************)
EXTENDS DriverMachine, FiniteSets, FiniteSetTheorems, TLAPS

-----------------------------------------------------------------------------
(* Programs, by the calls they make.                                       *)

\* Statements that make calls of C, and do what is in P when they fail.
Statements(C, P) == [call : C, lines : SUBSET Lines, checked : BOOLEAN, fail : P]

\* Programs of such statements, two levels of failures deep.
Simple(C)  == Seq(Statements(C, {<<>>}))
Nested(C)  == Seq(Statements(C, Simple(C)))
Program(C) == Seq(Statements(C, Nested(C)))

LEMMA SeqMonotone ==
  ASSUME NEW S, NEW T, S \subseteq T
  PROVE  Seq(S) \subseteq Seq(T)
OBVIOUS

LEMMA Levels ==
  ASSUME NEW C
  PROVE  /\ <<>> \in Simple(C)
         /\ Simple(C) \subseteq Nested(C)
         /\ Nested(C) \subseteq Program(C)
<1>1. <<>> \in Simple(C)
  BY DEF Simple
<1>2. Simple(C) \subseteq Nested(C)
  <2>1. Statements(C, {<<>>}) \subseteq Statements(C, Simple(C))
    BY <1>1 DEF Statements
  <2>2. QED
    BY <2>1, SeqMonotone DEF Simple, Nested
<1>3. Nested(C) \subseteq Program(C)
  <2>1. Statements(C, Simple(C)) \subseteq Statements(C, Nested(C))
    BY <1>2 DEF Statements
  <2>2. QED
    BY <2>1, SeqMonotone DEF Program, Nested
<1>4. QED
  BY <1>1, <1>2, <1>3

\* What is left of a program after its first statement is a program, and so is
\* what it does when that fails.
LEMMA ProgramSteps ==
  ASSUME NEW C, NEW p \in Program(C), p # <<>>
  PROVE  /\ Tail(p) \in Program(C)
         /\ Head(p).fail \in Program(C)
         /\ Head(p).call \in C
         /\ Head(p).lines \subseteq Lines
         /\ Head(p).checked \in BOOLEAN
<1>1. Tail(p) \in Program(C) /\ Head(p) \in Statements(C, Nested(C))
  BY DEF Program
<1>2. QED
  BY <1>1, Levels DEF Statements

LEMMA ConcatIn ==
  ASSUME NEW S, NEW p \in Seq(S), NEW q \in Seq(S)
  PROVE  p \o q \in Seq(S)
OBVIOUS

LEMMA Concat ==
  ASSUME NEW C
  PROVE  /\ \A p, q \in Simple(C) : p \o q \in Simple(C)
         /\ \A p, q \in Nested(C) : p \o q \in Nested(C)
         /\ \A p, q \in Program(C) : p \o q \in Program(C)
BY ConcatIn DEF Simple, Nested, Program

LEMMA MonotoneIn ==
  ASSUME NEW C, NEW D, C \subseteq D
  PROVE  /\ Simple(C) \subseteq Simple(D) /\ Nested(C) \subseteq Nested(D)
         /\ Program(C) \subseteq Program(D)
<1>1. Statements(C, {<<>>}) \subseteq Statements(D, {<<>>})
  BY DEF Statements
<1>2. Simple(C) \subseteq Simple(D)
  BY <1>1, SeqMonotone DEF Simple
<1>3. Statements(C, Simple(C)) \subseteq Statements(D, Simple(D))
  BY <1>2 DEF Statements
<1>4. Nested(C) \subseteq Nested(D)
  BY <1>3, SeqMonotone DEF Nested
<1>5. Statements(C, Nested(C)) \subseteq Statements(D, Nested(D))
  BY <1>4 DEF Statements
<1>6. QED
  BY <1>2, <1>4, <1>5, SeqMonotone DEF Program

LEMMA DoIn ==
  ASSUME NEW C, NEW call \in C
  PROVE  Do(call) \in Simple(C)
BY DEF Do, On, Simple, Statements

LEMMA TouchIn ==
  ASSUME NEW C, "touch" \in C, NEW L \in SUBSET Lines
  PROVE  Touch(L) \in Simple(C)
BY DEF Touch, On, Simple, Statements

LEMMA SeqOfFunction ==
  ASSUME NEW S, NEW k \in Nat, NEW f \in [1..k -> S]
  PROVE  f \in Seq(S) /\ Len(f) = k /\ DOMAIN f = 1..k
OBVIOUS

LEMMA TablesIn ==
  /\ gpioLed \in Seq(Lines) /\ gpioKey \in Seq(Lines)
  /\ Leds \subseteq Lines /\ Keys \subseteq Lines
  /\ Len(gpioLed) = GPIOLEDCNT /\ Len(gpioKey) = GPIOKEYCNT
<1>1. gpioLed \in [1..GPIOLEDCNT -> Lines] /\ gpioKey \in [1..GPIOKEYCNT -> Lines]
  BY DEF gpioLed, gpioKey, Lines, Leds, Keys
<1>2. QED
  BY <1>1, CountAssumption, SeqOfFunction DEF Lines

LEMMA ForEachOne ==
  ASSUME NEW table \in Seq(Lines), NEW call
  PROVE  ForEach(table, <<call>>) = [n \in 1..Len(table) |-> On({table[n]}, call)]
<1>1. Len(<<call>>) = 1 /\ <<call>>[1] = call
  OBVIOUS
<1>2. Len(table) * 1 = Len(table)
  OBVIOUS
<1>3. \A n \in 1..Len(table) : 1 + ((n - 1) \div 1) = n /\ 1 + ((n - 1) % 1) = 1
  OBVIOUS
<1>4. QED
  BY <1>1, <1>2, <1>3 DEF ForEach

LEMMA ForEachIn ==
  ASSUME NEW C, NEW table \in Seq(Lines), NEW c \in C, NEW d \in C
  PROVE  /\ ForEach(table, <<c>>) \in Simple(C)
         /\ ForEach(table, <<c, d>>) \in Simple(C)
<1> DEFINE S == Statements(C, {<<>>})
<1>1. \A call \in C : \A line \in Lines : On({line}, call) \in S
  BY DEF On, Statements
<1>2. Len(table) \in Nat /\ Len(table) * 2 \in Nat
      /\ \A n \in 1..Len(table) : table[n] \in Lines
  OBVIOUS
<1> HIDE DEF S
<1>3. ForEach(table, <<c>>) \in [1..Len(table) -> S]
  <2>1. \A n \in 1..Len(table) : On({table[n]}, c) \in S
    BY <1>1, <1>2
  <2>2. QED
    BY <2>1, ForEachOne
<1>4. ForEach(table, <<c, d>>) \in [1..(Len(table) * 2) -> S]
  <2>1. Len(<<c, d>>) = 2 /\ <<c, d>>[1] = c /\ <<c, d>>[2] = d
    OBVIOUS
  <2>2. ASSUME NEW n \in 1..(Len(table) * 2)
        PROVE  On({table[1 + ((n - 1) \div 2)]}, <<c, d>>[1 + ((n - 1) % 2)]) \in S
    <3>1. 1 + ((n - 1) \div 2) \in 1..Len(table) /\ 1 + ((n - 1) % 2) \in {1, 2}
      BY <1>2
    <3>2. <<c, d>>[1 + ((n - 1) % 2)] \in C
      BY <2>1, <3>1
    <3>3. QED
      BY <1>1, <1>2, <3>1, <3>2
  <2>3. QED
    BY <2>1, <2>2 DEF ForEach
<1>5. QED
  BY <1>2, <1>3, <1>4, SeqOfFunction DEF Simple, S

LEMMA OnFailureSeq ==
  ASSUME NEW C, NEW P, NEW Q, NEW p \in Seq(Statements(C, P)), NEW q \in Q
  PROVE  OnFailure(p, q) \in Seq(Statements(C, Q))
<1>1. Len(p) \in Nat /\ DOMAIN p = 1..Len(p)
  OBVIOUS
<1>2. \A n \in DOMAIN p : p[n] \in Statements(C, P)
  OBVIOUS
<1>3. OnFailure(p, q) \in [1..Len(p) -> Statements(C, Q)]
  BY <1>1, <1>2 DEF OnFailure, Statements
<1>4. QED
  BY <1>1, <1>3, SeqOfFunction

LEMMA OnFailureIn ==
  ASSUME NEW C
  PROVE  /\ \A p \in Program(C), q \in Simple(C) : OnFailure(p, q) \in Nested(C)
         /\ \A p \in Program(C), q \in Nested(C) : OnFailure(p, q) \in Program(C)
BY OnFailureSeq DEF Nested, Program

LEMMA UncheckedIn ==
  ASSUME NEW C
  PROVE  \A p \in Simple(C) : Unchecked(p) \in Simple(C)
<1>1. SUFFICES ASSUME NEW p \in Seq(Statements(C, {<<>>}))
               PROVE  Unchecked(p) \in Seq(Statements(C, {<<>>}))
  BY DEF Simple
<1>2. Len(p) \in Nat /\ DOMAIN p = 1..Len(p)
  OBVIOUS
<1>3. \A n \in DOMAIN p : p[n] \in Statements(C, {<<>>})
  OBVIOUS
<1>4. Unchecked(p) \in [1..Len(p) -> Statements(C, {<<>>})]
  BY <1>2, <1>3 DEF Unchecked, Statements
<1>5. QED
  BY <1>2, <1>4, SeqOfFunction


\* Every call of KernelCalls' notation.
LineCalls   == {"gpio_request", "gpio_direction_output", "gpio_direction_input",
                "gpio_free", "touch"}
IrqCalls    == {"gpio_to_irq", "request_irq", "free_irq"}
NodeCalls   == {"register_chrdev", "unregister_chrdev", "provide_call", "remove_call"}
TimerCalls  == {"add_timer", "mod_timer", "del_timer", "timer_pending"}
FileCalls   == {"try_module_get", "module_put", "kmalloc", "kfree", "test_open",
                "set_open", "clear_open", "test_init", "set_init", "clear_init"}
MutexCalls  == {"mutex_init", "mutex_trylock", "mutex_unlock", "mutex_destroy"}
KeyCalls    == {"store_key", "copy_key", "clear_key", "test_key", "test_blocking",
                "wait_event", "wake_up"}
AllCalls == LineCalls \cup IrqCalls \cup NodeCalls \cup TimerCalls \cup FileCalls
              \cup MutexCalls \cup KeyCalls

LEMMA Notation ==
  ASSUME NEW C
  PROVE  /\ <<>> \in Simple(C)
         /\ Simple(C) \subseteq Nested(C)
         /\ Nested(C) \subseteq Program(C)
         /\ \A p, q \in Simple(C) : p \o q \in Simple(C)
         /\ \A p, q \in Nested(C) : p \o q \in Nested(C)
         /\ \A p, q \in Program(C) : p \o q \in Program(C)
         /\ \A call \in C : Do(call) \in Simple(C)
         /\ "touch" \in C => Touch(Leds) \in Simple(C) /\ Touch(Keys) \in Simple(C)
         /\ \A call, other \in C :
              /\ ForEach(gpioLed, <<call>>) \in Simple(C)
              /\ ForEach(gpioKey, <<call>>) \in Simple(C)
              /\ ForEach(gpioLed, <<call, other>>) \in Simple(C)
              /\ ForEach(gpioKey, <<call, other>>) \in Simple(C)
         /\ \A p \in Program(C) :
              /\ \A q \in Simple(C) : OnFailure(p, q) \in Nested(C)
              /\ \A q \in Nested(C) : OnFailure(p, q) \in Program(C)
         /\ \A p \in Simple(C) : Unchecked(p) \in Simple(C)
<1>1. "touch" \in C => Touch(Leds) \in Simple(C) /\ Touch(Keys) \in Simple(C)
  BY TablesIn, TouchIn
<1>2. \A call, other \in C :
       /\ ForEach(gpioLed, <<call>>) \in Simple(C)
       /\ ForEach(gpioKey, <<call>>) \in Simple(C)
       /\ ForEach(gpioLed, <<call, other>>) \in Simple(C)
       /\ ForEach(gpioKey, <<call, other>>) \in Simple(C)
  BY TablesIn, ForEachIn
<1>3. QED
  BY <1>1, <1>2, Levels, Concat, DoIn, OnFailureIn, UncheckedIn

RequestCalls == {"gpio_request", "gpio_direction_output", "gpio_direction_input"}

LEMMA SharedPrograms ==
  ASSUME NEW C
  PROVE  /\ RequestCalls \subseteq C =>
              /\ TwoLoopLines.ledInit \in Simple(C) /\ TwoLoopLines.keyInit \in Simple(C)
              /\ OneLoopLines.ledInit \in Simple(C) /\ OneLoopLines.keyInit \in Simple(C)
         /\ "gpio_free" \in C =>
              /\ TwoLoopLines.ledFree \in Simple(C) /\ TwoLoopLines.keyFree \in Simple(C)
              /\ OneLoopLines.ledFree \in Simple(C) /\ OneLoopLines.keyFree \in Simple(C)
         /\ "gpio_to_irq" \in C => IrqLines.toIrq \in Simple(C)
         /\ "free_irq" \in C => IrqLines.freeIrq \in Simple(C)
<1>1. ASSUME RequestCalls \subseteq C
      PROVE  /\ TwoLoopLines.ledInit \in Simple(C) /\ TwoLoopLines.keyInit \in Simple(C)
             /\ OneLoopLines.ledInit \in Simple(C) /\ OneLoopLines.keyInit \in Simple(C)
  <2>1. \A p, q \in Simple(C) : p \o q \in Simple(C)
    BY Notation
  <2>2. \A call, other \in RequestCalls :
       /\ ForEach(gpioLed, <<call>>) \in Simple(C)
       /\ ForEach(gpioKey, <<call>>) \in Simple(C)
       /\ ForEach(gpioLed, <<call, other>>) \in Simple(C)
       /\ ForEach(gpioKey, <<call, other>>) \in Simple(C)
    BY <1>1, Notation
  <2>3. QED
    BY <2>1, <2>2 DEF TwoLoopLines, OneLoopLines, RequestThenDirect, RequestAndDirect,
                      RequestCalls
<1>2. \A call \in C : ForEach(gpioLed, <<call>>) \in Simple(C)
                   /\ ForEach(gpioKey, <<call>>) \in Simple(C)
  BY Notation
<1>3. QED
  BY <1>1, <1>2 DEF TwoLoopLines, OneLoopLines, FreeAll, IrqLines

-----------------------------------------------------------------------------
(* What a step does to the functions the actors are in.                    *)

Ops == {"idle", "init", "exit", "open", "release", "call", "direct", "isr", "timer"}

\* Function op of version d may begin with this program.
Begins(d, op, program) ==
  \/ op = "init" /\ program = Driver[d].init
  \/ op = "exit" /\ program = Driver[d].exit
  \/ op = "open" /\ program = Driver[d].open
  \/ op = "release" /\ program = Driver[d].release
  \/ op = "call" /\ \E c \in DOMAIN Driver[d].calls : program = Driver[d].calls[c]
  \/ op = "direct" /\ \E c \in DOMAIN Driver[d].direct : program = Driver[d].direct[c]
  \/ op = "isr" /\ program = Driver[d].isr
  \/ op = "timer" /\ program = Driver[d].timer

\* Who is in which functions.
OpsOf(a) ==
  CASE a = admin -> {"idle", "init", "exit"}
    [] a = softirq -> {"idle", "timer"}
    [] a \in Threads -> {"idle", "open", "release", "call", "direct"}
    [] OTHER -> {"idle", "isr"}

Formed(r) ==
  /\ r = [op |-> r.op, todo |-> r.todo, ok |-> r.ok, file |-> r.file, got |-> r.got]
  /\ r.ok \in BOOLEAN

Base ==
  /\ run = [a \in Actors |-> run[a]]
  /\ \A a \in Actors :
       /\ Formed(run[a])
       /\ run[a].op \in OpsOf(a)
       /\ run[a].op = "idle" => run[a] = Idle
       /\ run[a].todo \in Program(AllCalls)
  /\ mod \in {"out", "loading", "live", "unloading"}
  /\ mod = "loading" <=> run[admin].op = "init"
  /\ mod = "unloading" <=> run[admin].op = "exit"
  /\ \A a \in asleep : run[a].todo # <<>> /\ Now(a).call = "wait_event"
  /\ asleep \subseteq Actors

\* The calls that may fail, and the tests.
MayFail == {"gpio_request", "gpio_direction_output", "gpio_direction_input", "gpio_to_irq",
            "request_irq", "register_chrdev", "try_module_get", "kmalloc", "mutex_trylock",
            "test_open", "test_init", "test_key", "test_blocking", "timer_pending"}

\* What may happen to the function an actor is in.
Same(b)     == run'[b] = run[b]
Advances(b) == /\ run[b].todo # <<>>
               /\ run'[b] = [run[b] EXCEPT !.todo = Tail(@)]
Copies(b)   == /\ At(b, "copy_key")
               /\ run'[b] = [run[b] EXCEPT !.todo = Tail(@), !.got = keyNum[Box(b)]]
Fails(b)    == /\ run[b].todo # <<>> /\ Now(b).checked /\ Now(b).call \in MayFail
               /\ run'[b] = [run[b] EXCEPT !.todo = Now(b).fail, !.ok = FALSE]
Starts(b)   == /\ run[b] = Idle
               /\ run'[b].op \in OpsOf(b) \ {"idle"} /\ Begins(drv, run'[b].op, run'[b].todo)
               /\ run'[b] = [op |-> run'[b].op, todo |-> run'[b].todo, ok |-> TRUE,
                              file |-> run'[b].file, got |-> 0]
Ends(b)     == /\ run[b].op # "idle" /\ run[b].todo = <<>>
               /\ run'[b] = Idle
Steps(b) == Same(b) \/ Advances(b) \/ Copies(b) \/ Fails(b) \/ Starts(b) \/ Ends(b)

\* The steps.
Alone(a) == \A b \in Actors : b # a => Same(b)

LEMMA StatementRun ==
  ASSUME Base, NEW a \in Actors, Statement(a)
  PROVE  /\ DOMAIN run' = DOMAIN run /\ run' = [b \in Actors |-> run'[b]]
         /\ Alone(a)
         /\ Same(a) \/ Advances(a) \/ Copies(a) \/ Fails(a)
<1>1. CASE Succeed(a) /\ run[a].todo # <<>>
  BY <1>1 DEF Succeed, Base, Alone, Same, Advances
<1>2. CASE Fail(a) /\ run[a].todo # <<>> /\ Now(a).call \in MayFail
  <2>1. CASE Now(a).checked
    BY <1>2, <2>1 DEF Fail, Base, Alone, Same, Fails
  <2>2. CASE ~Now(a).checked
    BY <1>2, <2>2 DEF Fail, Base, Alone, Same, Advances, Formed
  <2>3. QED
    BY <2>1, <2>2
<1>3. CASE CopyKey(a)
  BY <1>3 DEF CopyKey, At, Base, Alone, Same, Copies
<1>4. CASE UNCHANGED run
  BY <1>4 DEF Base, Alone, Same
<1>5. run[a].todo # <<>>
  BY DEF Statement, At, Base, GpioRequest, GpioDirection, GpioFree, TouchLines,
         GpioToIrq, RequestIrq, FreeIrq,
         RegisterChrdev, UnregisterChrdev, ProvideCall, RemoveCall, SetTimer,
         TryModuleGet, ModulePut, Kmalloc_, Kfree, Test, SetFlag, Mutex, StoreKey, CopyKey,
         ClearKey, WaitEvent, Signal, WakeUp
<1>6. \/ Succeed(a) \/ CopyKey(a) \/ UNCHANGED run
      \/ Fail(a) /\ Now(a).call \in MayFail
  BY DEF At, MayFail, Statement, Accepted, Refused, GpioRequest, GpioDirection,
         GpioFree, TouchLines, GpioToIrq, RequestIrq, FreeIrq,
         RegisterChrdev, UnregisterChrdev, ProvideCall, RemoveCall, SetTimer,
         TryModuleGet, ModulePut, Kmalloc_, Kfree, Test, SetFlag, Mutex, StoreKey,
         ClearKey, WaitEvent, Signal, WakeUp
<1>7. QED
  BY <1>1, <1>2, <1>3, <1>4, <1>5, <1>6

LEMMA ActorOps ==
  /\ OpsOf(admin) = {"idle", "init", "exit"}
  /\ OpsOf(softirq) = {"idle", "timer"}
  /\ \A t \in Threads : OpsOf(t) = {"idle", "open", "release", "call", "direct"}
  /\ \A k \in Keys : OpsOf(k) = {"idle", "isr"}
BY ActorAssumption DEF OpsOf

LEMMA OtherRun ==
  ASSUME Base, Next, \A a \in Actors : ~Statement(a)
  PROVE  \E a \in Actors :
           /\ run' = [b \in Actors |-> run'[b]]
           /\ Alone(a)
           /\ Starts(a) \/ Ends(a)
<1>1. admin \in Actors /\ softirq \in Actors /\ Threads \subseteq Actors
        /\ Keys \subseteq Actors
  BY DEF Actors
<1>2. ASSUME NEW a \in Actors, NEW op, NEW p, NEW f, Start(a, op, p, f),
             op \in OpsOf(a) \ {"idle"}, Begins(drv, op, p)
      PROVE  run' = [b \in Actors |-> run'[b]] /\ Alone(a) /\ (Starts(a) \/ Ends(a))
  <2>1. run' = [b \in Actors |-> run'[b]] /\ Alone(a) /\ run[a] = Idle
        /\ run'[a] = [op |-> op, todo |-> p, ok |-> TRUE, file |-> f, got |-> 0]
    BY <1>2 DEF Start, Base, Alone, Same
  <2>2. QED
    BY <1>2, <2>1 DEF Starts
<1>3. ASSUME NEW a \in Actors, NEW op, Done(a, op), op # "idle"
      PROVE  run' = [b \in Actors |-> run'[b]] /\ Alone(a) /\ (Starts(a) \/ Ends(a))
  BY <1>3 DEF Done, Base, Alone, Same, Ends
<1>5. CASE Insmod
  BY <1>1, <1>2, ActorOps, <1>5 DEF Insmod, Begins
<1>6. CASE Rmmod
  BY <1>1, <1>2, ActorOps, <1>6 DEF Rmmod, Begins
<1>7. CASE InitReturns \/ ExitReturns
  BY <1>1, <1>3, <1>7 DEF InitReturns, ExitReturns
<1>8. ASSUME NEW t \in Threads, OpenReturns(t) \/ ReleaseReturns(t)
      PROVE  run' = [b \in Actors |-> run'[b]] /\ Alone(t) /\ (Starts(t) \/ Ends(t))
  BY <1>1, <1>3, <1>8 DEF OpenReturns, ReleaseReturns
<1>9. ASSUME NEW t \in Threads, DirectCall(t)
      PROVE  run' = [b \in Actors |-> run'[b]] /\ Alone(t) /\ (Starts(t) \/ Ends(t))
  <2>1. PICK op \in DOMAIN Driver[drv].direct : Start(t, "direct", Driver[drv].direct[op],
          none)
    BY <1>9 DEF DirectCall
  <2>2. Begins(drv, "direct", Driver[drv].direct[op])
    BY DEF Begins
  <2>3. QED
    BY <1>1, <1>2, ActorOps, <2>1, <2>2
<1>10. ASSUME NEW t \in Threads, NEW f \in Files, Call(t, f)
      PROVE  run' = [b \in Actors |-> run'[b]] /\ Alone(t) /\ (Starts(t) \/ Ends(t))
  <2>1. PICK op \in DOMAIN Driver[drv].calls : Start(t, "call", Driver[drv].calls[op], f)
    BY <1>10 DEF Call
  <2>2. Begins(drv, "call", Driver[drv].calls[op])
    BY DEF Begins
  <2>3. QED
    BY <1>1, <1>2, ActorOps, <2>1, <2>2
<1>11. ASSUME NEW t \in Threads, NEW f \in Files, Open(t, f) \/ Close(t, f)
      PROVE  run' = [b \in Actors |-> run'[b]] /\ Alone(t) /\ (Starts(t) \/ Ends(t))
  <2>1. Begins(drv, "open", Driver[drv].open) /\ Begins(drv, "release", Driver[drv].release)
    BY DEF Begins
  <2>2. QED
    BY <1>1, <1>2, ActorOps, <1>11, <2>1 DEF Open, Close
<1>12. ASSUME NEW k \in Keys, Press(k)
      PROVE  run' = [b \in Actors |-> run'[b]] /\ Alone(k) /\ (Starts(k) \/ Ends(k))
  <2>1. Begins(drv, "isr", Driver[drv].isr)
    BY DEF Begins
  <2>2. QED
    BY <1>1, <1>2, ActorOps, <1>12, <2>1 DEF Press
<1>13. CASE TimerExpires
  <2>1. Begins(drv, "timer", Driver[drv].timer)
    BY DEF Begins
  <2>2. QED
    BY <1>1, <1>2, ActorOps, <1>13, <2>1 DEF TimerExpires
<1>14. ASSUME NEW a \in Actors, Return(a)
      PROVE  run' = [b \in Actors |-> run'[b]] /\ Alone(a) /\ (Starts(a) \/ Ends(a))
  BY <1>3, <1>14 DEF Return
<1>15. QED
  BY <1>1, <1>5, <1>6, <1>7, <1>8, <1>9, <1>10, <1>11, <1>12, <1>13, <1>14 DEF Next

\* What the model's variables besides run do.
LEMMA ModStep ==
  ASSUME Base, Next
  PROVE  \/ mod' = mod /\ run'[admin].op = run[admin].op
         \/ Insmod /\ mod = "out" /\ mod' = "loading" /\ run'[admin].op = "init"
         \/ Rmmod /\ mod = "live" /\ mod' = "unloading" /\ run'[admin].op = "exit"
         \/ /\ InitReturns /\ mod = "loading" /\ run'[admin] = Idle
            /\ mod' = IF run[admin].ok THEN "live" ELSE "out"
         \/ ExitReturns /\ mod = "unloading" /\ mod' = "out" /\ run'[admin] = Idle
<1>1. admin \in Actors /\ DOMAIN run = Actors
  BY DEF Actors, Base
<1>2. CASE Insmod
  BY <1>1, <1>2 DEF Insmod, Start
<1>3. CASE Rmmod
  BY <1>1, <1>3 DEF Rmmod, Start
<1>4. CASE InitReturns
  BY <1>1, <1>4 DEF InitReturns, Done, Base
<1>5. CASE ExitReturns
  BY <1>1, <1>5 DEF ExitReturns, Done, Base
<1>6. ASSUME NEW a \in Actors, Statement(a)
      PROVE  mod' = mod /\ run'[admin].op = run[admin].op
  <2>1. run'[admin].op = run[admin].op
    <3>1. CASE a # admin
      BY <1>1, <1>6, <3>1, StatementRun DEF Alone, Same
    <3>2. Formed(run[admin])
      BY <1>1 DEF Base
    <3>3. CASE a = admin
      BY <1>1, <1>6, <3>2, <3>3, StatementRun DEF Same, Advances, Copies, Fails, Formed
    <3>4. QED
      BY <3>1, <3>3
  <2>2. mod' = mod
    BY <1>6 DEF Statement, Accepted, Refused, modVars, GpioRequest, GpioDirection,
         GpioFree, TouchLines, GpioToIrq, RequestIrq, FreeIrq,
         RegisterChrdev, UnregisterChrdev, ProvideCall, RemoveCall, SetTimer,
         TryModuleGet, ModulePut, Kmalloc_, Kfree, Test, SetFlag, Mutex, StoreKey, CopyKey,
         ClearKey, WaitEvent, Signal, WakeUp
  <2>3. QED
    BY <2>1, <2>2
<1>7. ASSUME NEW a \in Actors \ {admin},
             \/ \E op, p, f : Start(a, op, p, f)
             \/ \E op : Done(a, op)
      PROVE  run'[admin].op = run[admin].op
  BY <1>1, <1>7 DEF Start, Done
<1>8. Threads \cup Keys \cup {softirq} \subseteq Actors \ {admin}
  BY ActorAssumption DEF Actors
<1>9. ASSUME NEW t \in Threads, OpenReturns(t) \/ ReleaseReturns(t) \/ DirectCall(t)
      PROVE  mod' = mod /\ run'[admin].op = run[admin].op
  BY <1>7, <1>8, <1>9 DEF OpenReturns, ReleaseReturns, DirectCall, modVars
<1>10. ASSUME NEW t \in Threads, NEW f \in Files, Open(t, f) \/ Call(t, f) \/ Close(t, f)
      PROVE  mod' = mod /\ run'[admin].op = run[admin].op
  BY <1>7, <1>8, <1>10 DEF Open, Call, Close, modVars
<1>11. ASSUME NEW k \in Keys, Press(k)
      PROVE  mod' = mod /\ run'[admin].op = run[admin].op
  BY <1>7, <1>8, <1>11 DEF Press, modVars
<1>12. CASE TimerExpires
  BY <1>7, <1>8, <1>12 DEF TimerExpires, modVars
<1>13. ASSUME NEW a \in Actors, Return(a)
      PROVE  mod' = mod /\ run'[admin].op = run[admin].op
  <2>1. a # admin
    <3>1. run[admin].op \in {"idle", "init", "exit"}
      <4>1. run[admin].op \in OpsOf(admin)
        BY <1>1 DEF Base
      <4>2. QED
        BY <4>1, ActorOps
    <3>2. QED
      BY <1>13, <3>1 DEF Return, Done
  <2>2. QED
    BY <1>7, <1>13, <2>1 DEF Return, modVars
<1>14. QED
  BY <1>2, <1>3, <1>4, <1>5, <1>6, <1>9, <1>10, <1>11, <1>12, <1>13 DEF Next

\* Which statements change which variables.
LEMMA StatementFrame ==
  ASSUME NEW a \in Actors, Statement(a)
  PROVE  /\ UNCHANGED <<drv, mod, loads, files, minor, presses>>
         /\ UNCHANGED <<held, directed>> \/ GpioRequest(a) \/ GpioDirection(a) \/ GpioFree(a)
         /\ UNCHANGED <<irqKey, handler>> \/ GpioToIrq(a) \/ RequestIrq(a) \/ FreeIrq(a)
         /\ \/ UNCHANGED nodes
            \/ RegisterChrdev(a) \/ UnregisterChrdev(a) \/ ProvideCall(a) \/ RemoveCall(a)
         /\ UNCHANGED armed \/ SetTimer(a)
         /\ UNCHANGED <<openFlag, gpioInitFlag>> \/ SetFlag(a)
         /\ UNCHANGED refs \/ TryModuleGet(a) \/ ModulePut(a)
         /\ UNCHANGED structs \/ Kmalloc_(a) \/ Kfree(a)
         /\ UNCHANGED keyMutex \/ Mutex(a)
         /\ UNCHANGED keyNum \/ Kmalloc_(a) \/ StoreKey(a) \/ ClearKey(a)
         /\ UNCHANGED asleep \/ WaitEvent(a) \/ Signal(a) \/ WakeUp(a)
         /\ Signal(a) \/ (a \notin asleep /\ mod # "out" /\ run[a].todo # <<>>)
<1> USE DEF Statement, modVars, lineVars, irqVars, keyVars, fileVars, Accepted, Refused,
            GpioRequest, GpioDirection, GpioFree, TouchLines, GpioToIrq, RequestIrq,
            FreeIrq, RegisterChrdev, UnregisterChrdev, ProvideCall, RemoveCall, SetTimer,
            TryModuleGet, ModulePut, Kmalloc_, Kfree, Test, SetFlag, Mutex, StoreKey,
            CopyKey, ClearKey, WaitEvent, Signal, WakeUp
<1>1. UNCHANGED <<drv, mod, loads, files, minor, presses>>
  OBVIOUS
<1>2. UNCHANGED <<held, directed>> \/ GpioRequest(a) \/ GpioDirection(a) \/ GpioFree(a)
  OBVIOUS
<1>3. UNCHANGED <<irqKey, handler>> \/ GpioToIrq(a) \/ RequestIrq(a) \/ FreeIrq(a)
  OBVIOUS
<1>4. \/ UNCHANGED nodes
      \/ RegisterChrdev(a) \/ UnregisterChrdev(a) \/ ProvideCall(a) \/ RemoveCall(a)
  OBVIOUS
<1>5. UNCHANGED armed \/ SetTimer(a)
  OBVIOUS
<1>6. UNCHANGED <<openFlag, gpioInitFlag>> \/ SetFlag(a)
  OBVIOUS
<1>7. UNCHANGED refs \/ TryModuleGet(a) \/ ModulePut(a)
  OBVIOUS
<1>8. UNCHANGED structs \/ Kmalloc_(a) \/ Kfree(a)
  OBVIOUS
<1>9. UNCHANGED keyMutex \/ Mutex(a)
  OBVIOUS
<1>10. UNCHANGED keyNum \/ Kmalloc_(a) \/ StoreKey(a) \/ ClearKey(a)
  OBVIOUS
<1>11. UNCHANGED asleep \/ WaitEvent(a) \/ Signal(a) \/ WakeUp(a)
  OBVIOUS
<1>12. Signal(a) \/ (a \notin asleep /\ mod # "out" /\ run[a].todo # <<>>)
  BY DEF At
<1>13. QED
  BY <1>1, <1>2, <1>3, <1>4, <1>5, <1>6, <1>7, <1>8, <1>9, <1>10, <1>11, <1>12

\* A step that is no statement of the driver.
LEMMA OtherFrame ==
  ASSUME Next, \A a \in Actors : ~Statement(a)
  PROVE  /\ UNCHANGED <<drv, clean, held, directed, handler, nodes, structs>>
         /\ UNCHANGED armed \/ TimerExpires
         /\ \/ UNCHANGED <<irqKey, openFlag, gpioInitFlag, keyMutex, keyNum, asleep>>
            \/ Insmod
         /\ \/ UNCHANGED refs
            \/ Insmod
            \/ \E t \in Threads : \/ OpenReturns(t) \/ ReleaseReturns(t)
                                  \/ \E f \in Files : Open(t, f)
         /\ \/ UNCHANGED files
            \/ \E t \in Threads : \/ OpenReturns(t) \/ ReleaseReturns(t)
                                  \/ \E f \in Files : Open(t, f) \/ Close(t, f)
BY DEF Next, modVars, lineVars, irqVars, keyVars, fileVars, Insmod, InitReturns, Rmmod,
       ExitReturns, OpenReturns, ReleaseReturns, DirectCall, Open, Call, Close, Press,
       TimerExpires, Return

\* Whatever happens, every actor makes one of these steps.
LEMMA NextRun ==
  ASSUME Base, [Next]_vars
  PROVE  run' = [b \in Actors |-> run'[b]] /\ \A b \in Actors : Steps(b)
<1>1. CASE \E a \in Actors : Statement(a)
  BY <1>1, StatementRun DEF Steps, Alone
<1>2. CASE Next /\ \A a \in Actors : ~Statement(a)
  BY <1>2, OtherRun DEF Steps, Alone
<1>3. CASE UNCHANGED vars
  BY <1>3 DEF vars, Base, Steps, Same
<1>4. QED
  BY <1>1, <1>2, <1>3

LEMMA AsleepStep ==
  ASSUME Base, Next, NEW b \in asleep'
  PROVE  /\ b \in Actors /\ Same(b)
         /\ b \notin asleep => WaitEvent(b) /\ keyNum[Box(b)] = 0
<1>1. ASSUME NEW a \in Actors, Statement(a)
      PROVE  b \in Actors /\ Same(b) /\ (b \notin asleep => WaitEvent(b) /\ keyNum[Box(b)]
        = 0)
  <2>1. CASE WaitEvent(a)
    <3>1. b \in asleep \/ (b = a /\ keyNum[Box(a)] = 0 /\ UNCHANGED run)
      BY <2>1 DEF WaitEvent
    <3>2. a \notin asleep /\ \A c \in Actors : c # a => Same(c)
      BY <1>1, <2>1, StatementRun DEF WaitEvent, At, Alone
    <3>3. QED
      BY <2>1, <3>1, <3>2 DEF Same, Base
  <2>2. CASE Signal(a)
    BY <2>2, <1>1, StatementRun DEF Signal, Alone, Base
  <2>3. CASE WakeUp(a)
    BY <2>3 DEF WakeUp
  <2>4. CASE UNCHANGED asleep /\ ~Signal(a)
    BY <2>4, <1>1, StatementRun, StatementFrame DEF Alone, Base
  <2>5. QED
    BY <1>1, <2>1, <2>2, <2>3, <2>4, StatementFrame
<1>2. CASE \A a \in Actors : ~Statement(a)
  <2>1. asleep' = asleep
    BY <1>2, OtherFrame DEF Insmod
  <2>2. b \in Actors /\ run[b].todo # <<>>
    BY <2>1 DEF Base
  <2>3. QED
    <3>1. PICK a \in Actors : Alone(a) /\ (Starts(a) \/ Ends(a))
      BY <1>2, OtherRun
    <3>2. a # b
      BY <2>2, <3>1 DEF Starts, Ends, Idle
    <3>3. QED
      BY <2>1, <2>2, <3>1, <3>2 DEF Alone
<1>3. QED
  BY <1>1, <1>2

LEMMA InitBase ==
  ASSUME Init
  PROVE  Base
<1>1. \A a \in Actors : run[a] = Idle /\ "idle" \in OpsOf(a)
  BY ActorOps DEF Init, OpsOf
<1>2. Idle.todo \in Program(AllCalls) /\ Idle.op = "idle" /\ Formed(Idle)
  BY Notation DEF Idle, Formed
<1>3. admin \in Actors
  BY DEF Actors
<1>4. QED
  BY <1>1, <1>2, <1>3 DEF Init, Base

LEMMA NextBase ==
  ASSUME Base, [Next]_vars, \A op, p : Begins(drv, op, p) => p \in Program(AllCalls)
  PROVE  Base'
<1>1. CASE UNCHANGED vars
  BY <1>1 DEF vars, Base, Now, modVars, keyVars
<1> SUFFICES ASSUME Next PROVE Base'
  BY <1>1
<1>3. run' = [a \in Actors |-> run'[a]]
  BY NextRun
<1>4. ASSUME NEW a \in Actors
      PROVE  /\ Formed(run'[a])
             /\ run'[a].op \in OpsOf(a)
             /\ run'[a].op = "idle" => run'[a] = Idle
             /\ run'[a].todo \in Program(AllCalls)
  <2>1. /\ Formed(run[a])
        /\ run[a].op \in OpsOf(a)
        /\ run[a].op = "idle" => run[a] = Idle
        /\ run[a].todo \in Program(AllCalls)
    BY DEF Base
  <2>2. CASE Same(a)
    BY <2>1, <2>2 DEF Same
  <2>3. run[a].todo # <<>> =>
          /\ run[a].op # "idle"
          /\ Tail(run[a].todo) \in Program(AllCalls)
          /\ Now(a).fail \in Program(AllCalls)
    <3>1. ASSUME run[a].todo # <<>>
          PROVE  /\ Tail(run[a].todo) \in Program(AllCalls)
                 /\ Head(run[a].todo).fail \in Program(AllCalls)
      BY <2>1, <3>1, ProgramSteps
    <3>2. QED
      BY <2>1, <3>1 DEF Idle, Now
  <2>4. CASE Advances(a) \/ Copies(a)
    BY <2>1, <2>3, <2>4 DEF Advances, Copies, At, Formed
  <2>5. CASE Fails(a)
    BY <2>1, <2>3, <2>5 DEF Fails, Formed
  <2>6. CASE Starts(a)
    <3>1. run'[a].todo \in Program(AllCalls)
      BY <2>6, Zenon DEF Starts
    <3>2. \A op, p, f : Formed([op |-> op, todo |-> p, ok |-> TRUE, file |-> f, got |-> 0])
      BY DEF Formed
    <3>3. QED
      BY <2>6, <3>1, <3>2, Zenon DEF Starts
  <2>7. CASE Ends(a)
    <3>1. <<>> \in Program(AllCalls) /\ "idle" \in OpsOf(a)
      BY Notation, ActorOps DEF OpsOf
    <3>2. QED
      BY <2>7, <3>1 DEF Ends, Formed, Idle
  <2>8. QED
    BY <2>2, <2>4, <2>5, <2>6, <2>7, NextRun DEF Steps
<1>5. ASSUME NEW a \in asleep'
      PROVE  a \in Actors /\ run'[a].todo # <<>> /\ Head(run'[a].todo).call = "wait_event"
  <2>1. CASE a \in asleep
    BY <1>5, <2>1, AsleepStep DEF Base, Same, Now
  <2>2. CASE a \notin asleep
    BY <1>5, <2>2, AsleepStep DEF Same, Now, WaitEvent, At
  <2>3. QED
    BY <2>1, <2>2
<1>6. /\ mod' \in {"out", "loading", "live", "unloading"}
      /\ mod' = "loading" <=> run'[admin].op = "init"
      /\ mod' = "unloading" <=> run'[admin].op = "exit"
  <2>1. /\ mod \in {"out", "loading", "live", "unloading"}
        /\ mod = "loading" <=> run[admin].op = "init"
        /\ mod = "unloading" <=> run[admin].op = "exit"
    BY DEF Base
  <2>2. QED
    BY <2>1, ModStep DEF Idle
<1>7. QED
  BY <1>3, <1>4, <1>5, <1>6 DEF Base, Now

-----------------------------------------------------------------------------
(* The calls each version makes.                                           *)

\* The functions of version d that are not init, exit and keyIsr make calls of C.
Users(d, C) ==
  /\ d.open \in Program(C) /\ d.release \in Program(C) /\ d.timer \in Program(C)
  /\ \A op \in DOMAIN d.calls : d.calls[op] \in Program(C)
  /\ \A op \in DOMAIN d.direct : d.direct[op] \in Program(C)

OnceCalls == {"test_open", "set_open", "try_module_get", "module_put", "clear_open"}
BoxCalls  == {"try_module_get", "kmalloc", "module_put", "kfree"}
TakeCalls == {"mutex_trylock", "test_key", "copy_key", "clear_key", "mutex_unlock"}
WaitCalls == {"test_blocking", "wait_event"}
StoreCalls == {"mutex_trylock", "store_key", "mutex_unlock", "wake_up"}

LEMMA FilePrograms ==
  ASSUME NEW C
  PROVE  /\ OnceCalls \subseteq C => OpenOnce \in Program(C) /\ CloseOnce \in Program(C)
         /\ TakeCalls \subseteq C => TakeUnderMutex \in Nested(C)
         /\ WaitCalls \cup TakeCalls \subseteq C =>
              /\ WaitForKey(TakeUnderMutex) \in Program(C)
              /\ WaitForKey(Do("copy_key") \o Do("clear_key")) \in Program(C)
         /\ StoreCalls \subseteq C =>
              /\ StoreUnderMutex(<<>>) \in Program(C)
              /\ StoreUnderMutex(Do("wake_up")) \in Program(C)
<1>1. OnceCalls \subseteq C => OpenOnce \in Program(C) /\ CloseOnce \in Program(C)
  BY Notation DEF OpenOnce, CloseOnce, OnceCalls
<1>2. \A call \in C : \A body, rest \in Simple(C) : IfThen(call, body, rest) \in Nested(C)
  BY Notation DEF IfThen
<1>3. \A call \in C : \A body, rest \in Nested(C) : IfThen(call, body, rest) \in Program(C)
  BY Notation DEF IfThen
<1>4. ASSUME TakeCalls \subseteq C PROVE TakeUnderMutex \in Nested(C)
  <2>1. IfThen("test_key", Do("copy_key") \o Do("clear_key"),
          Do("mutex_unlock")) \in Nested(C)
    BY <1>2, <1>4, Notation DEF TakeCalls
  <2>2. OnFailure(Do("mutex_trylock"), <<>>) \in Nested(C)
    BY <1>4, Notation DEF TakeCalls
  <2>3. QED
    BY <2>1, <2>2, Notation DEF TakeUnderMutex, IfThen
<1>5. ASSUME WaitCalls \cup TakeCalls \subseteq C
      PROVE  /\ WaitForKey(TakeUnderMutex) \in Program(C)
             /\ WaitForKey(Do("copy_key") \o Do("clear_key")) \in Program(C)
  <2>1. {Do("wait_event"), TakeUnderMutex,
          Do("copy_key") \o Do("clear_key")} \subseteq Nested(C)
    BY <1>4, <1>5, Notation DEF WaitCalls, TakeCalls
  <2>2. QED
    BY <1>3, <1>5, <2>1 DEF WaitForKey, WaitCalls
<1>6. ASSUME StoreCalls \subseteq C
      PROVE  /\ StoreUnderMutex(<<>>) \in Program(C)
             /\ StoreUnderMutex(Do("wake_up")) \in Program(C)
  BY <1>2, <1>6, Notation DEF StoreUnderMutex, StoreCalls
<1>7. QED
  BY <1>1, <1>4, <1>5, <1>6

LEMMA FreePrograms ==
  ASSUME NEW C, {"timer_pending", "del_timer"} \subseteq C, NEW rest \in Simple(C)
  PROVE  DelPendingThen(rest) \in Program(C)
BY Notation DEF DelPendingThen, IfThen
LEMMA TimerLines ==
  ASSUME NEW C
  PROVE  /\ RequestCalls \subseteq C =>
              /\ TimerDevGpio.ledInit \in Simple(C) /\ TimerDevGpio.keyInit \in Simple(C)
              /\ TimerHjyGpio.ledInit \in Simple(C) /\ TimerHjyGpio.keyInit \in Simple(C)
              /\ Timer0625Gpio.ledInit \in Simple(C) /\ Timer0625Gpio.keyInit \in Simple(C)
         /\ "gpio_free" \in C =>
              /\ TimerDevGpio.ledFree \in Simple(C) /\ TimerDevGpio.keyFree \in Simple(C)
              /\ TimerHjyGpio.ledFree \in Simple(C) /\ TimerHjyGpio.keyFree \in Simple(C)
              /\ Timer0625Gpio.ledFree \in Simple(C) /\ Timer0625Gpio.keyFree \in Simple(C)
<1>1. /\ TimerHjyGpio.ledInit = TwoLoopLines.ledInit /\ TimerHjyGpio.ledFree
           = TwoLoopLines.ledFree
      /\ TimerHjyGpio.keyInit = OneLoopLines.keyInit /\ TimerHjyGpio.keyFree
           = TwoLoopLines.keyFree
  BY DEF TimerHjyGpio, TwoLoopLines, OneLoopLines
<1>2. Timer0625Gpio = TimerHjyGpio
  BY DEF Timer0625Gpio, TimerHjyGpio
<1>3. /\ TimerDevGpio.ledInit = ForEach(gpioLed, <<"gpio_request">>)
      /\ TimerDevGpio.ledFree = TwoLoopLines.ledFree
      /\ TimerDevGpio.keyInit = OneLoopLines.keyInit /\ TimerDevGpio.keyFree
           = TwoLoopLines.keyFree
  BY DEF TimerDevGpio, TwoLoopLines, OneLoopLines
<1>4. RequestCalls \subseteq C => ForEach(gpioLed, <<"gpio_request">>) \in Simple(C)
  BY Notation DEF RequestCalls
<1>5. QED
  BY <1>1, <1>2, <1>3, <1>4, SharedPrograms

LEMMA IrqPrograms ==
  ASSUME NEW C
  PROVE  /\ "request_irq" \in C => ForEach(gpioKey, <<"request_irq">>) \in Simple(C)
         /\ \A call \in C : Do(call) \in Simple(C)
         /\ \A p, q \in Simple(C) : p \o q \in Simple(C)
         /\ \A p \in Simple(C) : Unchecked(p) \in Simple(C)
         /\ Simple(C) \subseteq Program(C)
BY Notation

LEMMA P122In ==
  /\ Users(P122, {}) /\ P122.isr = <<>>
  /\ P122.init \in Program(RequestCalls \cup {"touch"})
  /\ P122.exit \in Program({"touch", "gpio_free"})
<1> USE DEF Plain, Version, P122, P122Load, P122Gpio
<1>1. {<<>>} \subseteq Program({})
  BY Notation, SharedPrograms, FilePrograms
<1>2. P122.init \in Program(RequestCalls \cup {"touch"}) /\ P122.exit \in Program({"touch",
        "gpio_free"})
  BY Notation, SharedPrograms
<1>3. QED
  BY <1>1, <1>2 DEF Users

LEMMA P122ParamIs == P122Param = P122
BY DEF P122Param, P122ParamLoad, P122ParamGpio, P122, P122Load, P122Gpio

LEMMA P106In ==
  /\ Users(P106, {}) /\ P106.isr = <<>>
  /\ P106.init \in Program(RequestCalls \cup {"touch", "gpio_free"})
  /\ P106.exit \in Program(RequestCalls \cup {"touch", "gpio_free"})
<1> USE DEF Plain, Version, P106, P106Load, P106Gpio
<1>1. {<<>>} \subseteq Program({})
  BY Notation, SharedPrograms, FilePrograms
<1>2. P106.init \in Program(RequestCalls \cup {"touch", "gpio_free"})
        /\ P106.exit \in Program(RequestCalls \cup {"touch", "gpio_free"})
  BY Notation, SharedPrograms
<1>3. QED
  BY <1>1, <1>2 DEF Users

LEMMA MysyscallIn ==
  /\ Users(Mysyscall, RequestCalls \cup {"touch", "gpio_free"}) /\ Mysyscall.isr = <<>>
  /\ Mysyscall.init \in Program({"provide_call"})
  /\ Mysyscall.exit \in Program({})
<1> USE DEF Plain, Version, Mysyscall
<1>1. {<<>>, sys_mysyscall} \subseteq Program(RequestCalls \cup {"touch", "gpio_free"})
  BY Notation, SharedPrograms, FilePrograms DEF sys_mysyscall, MysyscallGpio
<1>2. \A op \in DOMAIN Mysyscall.direct : Mysyscall.direct[op] \in Program(RequestCalls
        \cup {"touch", "gpio_free"})
  BY <1>1
<1>3. Mysyscall.init \in Program({"provide_call"}) /\ Mysyscall.exit \in Program({})
  BY Notation, SharedPrograms
<1>4. QED
  BY <1>1, <1>2, <1>3 DEF Users

LEMMA CalldevIn ==
  /\ Users(Calldev, {}) /\ Calldev.isr = <<>>
  /\ Calldev.init \in Program({"register_chrdev"})
  /\ Calldev.exit \in Program({"unregister_chrdev"})
<1> USE DEF Plain, Version, Calldev, CalldevCalls, CalldevLoad
<1>1. {<<>>} \subseteq Program({})
  BY Notation, SharedPrograms, FilePrograms
<1>2. Calldev.init \in Program({"register_chrdev"})
        /\ Calldev.exit \in Program({"unregister_chrdev"})
  BY Notation, SharedPrograms
<1>3. QED
  BY <1>1, <1>2 DEF Users

LEMMA BackupIn ==
  /\ Users(Backup, BoxCalls \cup {"touch"}) /\ Backup.isr = <<>>
  /\ Backup.init \in Program(RequestCalls \cup {"register_chrdev"})
  /\ Backup.exit \in Program({"unregister_chrdev", "gpio_free"})
<1> USE DEF Plain, Version, Backup, BackupCalls, BackupLoad, BackupGpio
<1>1. {<<>>, Touch(Leds), Touch(Keys), Unchecked(Do("try_module_get")) \o Do("kmalloc"),
        Do("module_put") \o Do("kfree")} \subseteq Program(BoxCalls \cup {"touch"})
  BY Notation, SharedPrograms, FilePrograms DEF BoxCalls
<1>2. \A op \in DOMAIN Backup.calls : Backup.calls[op] \in Program(BoxCalls \cup {"touch"})
  BY <1>1
<1>3. Backup.init \in Program(RequestCalls \cup {"register_chrdev"})
        /\ Backup.exit \in Program({"unregister_chrdev", "gpio_free"})
  BY Notation, SharedPrograms
<1>4. QED
  BY <1>1, <1>2, <1>3 DEF Users

LEMMA P184In ==
  /\ Users(P184, BoxCalls \cup {"touch"}) /\ P184.isr = <<>>
  /\ P184.init \in Program(RequestCalls \cup {"register_chrdev"})
  /\ P184.exit \in Program({"unregister_chrdev", "gpio_free"})
<1> USE DEF Plain, Version, P184, P184Calls, P184Load, P184Gpio
<1>1. {<<>>, Touch(Leds), Touch(Keys), Unchecked(Do("try_module_get")) \o Do("kmalloc"),
        Do("kfree")} \subseteq Program(BoxCalls \cup {"touch"})
  BY Notation, SharedPrograms, FilePrograms DEF BoxCalls
<1>2. \A op \in DOMAIN P184.calls : P184.calls[op] \in Program(BoxCalls \cup {"touch"})
  BY <1>1
<1>3. P184.init \in Program(RequestCalls \cup {"register_chrdev"})
        /\ P184.exit \in Program({"unregister_chrdev", "gpio_free"})
  BY Notation, SharedPrograms
<1>4. QED
  BY <1>1, <1>2, <1>3 DEF Users

LEMMA P184b0620In ==
  /\ Users(P184b0620, BoxCalls \cup {"touch"}) /\ P184b0620.isr = <<>>
  /\ P184b0620.init \in Program(RequestCalls \cup {"register_chrdev"})
  /\ P184b0620.exit \in Program({"unregister_chrdev", "gpio_free"})
<1> USE DEF Plain, Version, P184b0620, P184b0620Calls, P184b0620Load, P184b0620Gpio
<1>1. {<<>>, Touch(Leds), Touch(Keys), Unchecked(Do("try_module_get")) \o Do("kmalloc"),
        Do("module_put") \o Do("kfree")} \subseteq Program(BoxCalls \cup {"touch"})
  BY Notation, SharedPrograms, FilePrograms DEF BoxCalls
<1>2. \A op \in DOMAIN P184b0620.calls : P184b0620.calls[op] \in Program(BoxCalls
        \cup {"touch"})
  BY <1>1
<1>3. P184b0620.init \in Program(RequestCalls \cup {"register_chrdev"})
        /\ P184b0620.exit \in Program({"unregister_chrdev", "gpio_free"})
  BY Notation, SharedPrograms
<1>4. QED
  BY <1>1, <1>2, <1>3 DEF Users

LEMMA P184KshIn ==
  /\ Users(P184Ksh, BoxCalls \cup {"touch"}) /\ P184Ksh.isr = <<>>
  /\ P184Ksh.init \in Program(RequestCalls \cup {"register_chrdev"})
  /\ P184Ksh.exit \in Program({"unregister_chrdev", "gpio_free"})
<1> USE DEF Plain, Version, P184Ksh, P184KshCalls, P184KshLoad, P184KshGpio
<1>1. {<<>>, Touch(Leds), Touch(Keys), Do("kmalloc"),
        Do("kfree")} \subseteq Program(BoxCalls \cup {"touch"})
  BY Notation, SharedPrograms, FilePrograms DEF BoxCalls
<1>2. \A op \in DOMAIN P184Ksh.calls : P184Ksh.calls[op] \in Program(BoxCalls \cup {"touch"})
  BY <1>1
<1>3. P184Ksh.init \in Program(RequestCalls \cup {"register_chrdev"})
        /\ P184Ksh.exit \in Program({"unregister_chrdev", "gpio_free"})
  BY Notation, SharedPrograms
<1>4. QED
  BY <1>1, <1>2, <1>3 DEF Users

LEMMA CalldevLedkeyIn ==
  /\ Users(CalldevLedkey, BoxCalls \cup {"touch"}) /\ CalldevLedkey.isr = <<>>
  /\ CalldevLedkey.init \in Program(RequestCalls \cup {"register_chrdev"})
  /\ CalldevLedkey.exit \in Program({"unregister_chrdev", "gpio_free"})
<1> USE DEF Plain, Version, CalldevLedkey, CalldevLedkeyCalls, CalldevLedkeyLoad,
      CalldevLedkeyGpio
<1>1. {<<>>, Touch(Leds), Touch(Keys), Unchecked(Do("try_module_get")) \o Do("kmalloc"),
        Do("module_put") \o Do("kfree")} \subseteq Program(BoxCalls \cup {"touch"})
  BY Notation, SharedPrograms, FilePrograms DEF BoxCalls
<1>2. \A op \in DOMAIN CalldevLedkey.calls : CalldevLedkey.calls[op] \in Program(BoxCalls
        \cup {"touch"})
  BY <1>1
<1>3. CalldevLedkey.init \in Program(RequestCalls \cup {"register_chrdev"})
        /\ CalldevLedkey.exit \in Program({"unregister_chrdev", "gpio_free"})
  BY Notation, SharedPrograms
<1>4. QED
  BY <1>1, <1>2, <1>3 DEF Users

LEMMA P238In ==
  /\ Users(P238, OnceCalls \cup {"touch"}) /\ P238.isr = <<>>
  /\ P238.init \in Program(RequestCalls \cup {"register_chrdev"})
  /\ P238.exit \in Program({"unregister_chrdev", "gpio_free"})
<1> USE DEF Plain, Version, P238, P238Calls, P238Load, P238Gpio
<1>1. {<<>>, Touch(Leds), Touch(Keys),
        Do("test_open") \o Do("set_open") \o Do("try_module_get"),
        Do("module_put") \o Do("clear_open")} \subseteq Program(OnceCalls \cup {"touch"})
  BY Notation, SharedPrograms, FilePrograms DEF OnceCalls
<1>2. \A op \in DOMAIN P238.calls : P238.calls[op] \in Program(OnceCalls \cup {"touch"})
  BY <1>1
<1>3. P238.init \in Program(RequestCalls \cup {"register_chrdev"})
        /\ P238.exit \in Program({"unregister_chrdev", "gpio_free"})
  BY Notation, SharedPrograms
<1>4. QED
  BY <1>1, <1>2, <1>3 DEF Users

LEMMA P270In ==
  /\ Users(P270, {"touch"}) /\ P270.isr = <<>>
  /\ P270.init \in Program(RequestCalls \cup {"register_chrdev"})
  /\ P270.exit \in Program({"unregister_chrdev", "touch", "gpio_free"})
<1> USE DEF Plain, Version, P270, P270Calls, P270Load, P270Gpio
<1>1. {<<>>, Touch(Leds), Touch(Keys)} \subseteq Program({"touch"})
  BY Notation, SharedPrograms, FilePrograms
<1>2. \A op \in DOMAIN P270.calls : P270.calls[op] \in Program({"touch"})
  BY <1>1
<1>3. P270.init \in Program(RequestCalls \cup {"register_chrdev"})
        /\ P270.exit \in Program({"unregister_chrdev", "touch", "gpio_free"})
  BY Notation, SharedPrograms
<1>4. QED
  BY <1>1, <1>2, <1>3 DEF Users

\* What ioctl() asks for.
IoctlPrograms(init, free) ==
  {Touch(Keys), Touch(Leds), Touch(Leds) \o Touch(Keys), TwoLoopLines.ledInit,
   TwoLoopLines.keyInit, init, free}

LEMMA IoctlCalls ==
  /\ \A op \in DOMAIN P306.calls : P306.calls[op] \in
       IoctlPrograms(TwoLoopLines.ledInit \o TwoLoopLines.keyInit,
                     TwoLoopLines.ledFree \o TwoLoopLines.keyFree)
  /\ \A op \in DOMAIN P306Ledkey.calls : P306Ledkey.calls[op] \in
       IoctlPrograms(CallThen(TwoLoopLines.ledInit \o TwoLoopLines.keyInit, Do("set_init")),
                     Do("clear_init") \o TwoLoopLines.ledFree \o TwoLoopLines.keyFree)
<1> DEFINE Commands == {"read", "write", "KEYLEDINIT", "KEYINIT", "LEDINIT", "KEYLEDFREE",
                        "LEDOFF", "LEDON", "GETSTATE", "READ", "WRITE", "WRITE_READ", "LEDKEY"}
           c == P306Calls.calls
           l == P306LedkeyCalls.calls
<1>1. /\ DOMAIN c = Commands /\ P306.calls = c
      /\ c.read = Touch(Keys) /\ c.GETSTATE = Touch(Keys) /\ c.READ = Touch(Keys)
      /\ c.write = Touch(Leds) /\ c.LEDOFF = Touch(Leds) /\ c.LEDON = Touch(Leds)
      /\ c.WRITE = Touch(Leds) /\ c.LEDKEY = Touch(Leds) \o Touch(Keys)
      /\ c.KEYLEDINIT = TwoLoopLines.ledInit \o TwoLoopLines.keyInit
      /\ c.KEYINIT = TwoLoopLines.keyInit /\ c.LEDINIT = TwoLoopLines.ledInit
      /\ c.KEYLEDFREE = TwoLoopLines.ledFree \o TwoLoopLines.keyFree
      /\ c.WRITE_READ = Touch(Leds) \o Touch(Keys)
  BY DEF P306, Version, P306Calls, Plain, P306Gpio
<1>2. /\ DOMAIN l = Commands /\ P306Ledkey.calls = l
      /\ l.read = Touch(Keys) /\ l.GETSTATE = Touch(Keys) /\ l.READ = Touch(Keys)
      /\ l.write = Touch(Leds) /\ l.LEDOFF = Touch(Leds) /\ l.LEDON = Touch(Leds)
      /\ l.WRITE = Touch(Leds) /\ l.LEDKEY = Touch(Leds) \o Touch(Keys)
      /\ l.KEYLEDINIT = CallThen(TwoLoopLines.ledInit \o TwoLoopLines.keyInit, Do("set_init"))
      /\ l.KEYINIT = TwoLoopLines.keyInit /\ l.LEDINIT = TwoLoopLines.ledInit
      /\ l.KEYLEDFREE = Do("clear_init") \o TwoLoopLines.ledFree \o TwoLoopLines.keyFree
      /\ l.WRITE_READ = Touch(Leds) \o Touch(Keys)
  BY DEF P306Ledkey, Version, P306LedkeyCalls, Plain, P306LedkeyGpio
<1> HIDE DEF c, l
<1>3. QED
  BY <1>1, <1>2 DEF IoctlPrograms

LEMMA P306In ==
  /\ Users(P306, LineCalls \cup {"try_module_get", "module_put"}) /\ P306.isr = <<>>
  /\ P306.init \in Program({"register_chrdev"})
  /\ P306.exit \in Program({"unregister_chrdev"})
<1> DEFINE C == LineCalls \cup {"try_module_get", "module_put"}
<1>1. {<<>>, Touch(Leds) \o Touch(Keys), TwoLoopLines.ledInit \o TwoLoopLines.keyInit,
       TwoLoopLines.ledFree \o TwoLoopLines.keyFree, Unchecked(Do("try_module_get")),
       Do("module_put"), Touch(Leds), Touch(Keys), TwoLoopLines.ledInit, TwoLoopLines.keyInit}
        \subseteq Program(C)
  BY Notation, SharedPrograms DEF LineCalls, RequestCalls
<1>2. \A op \in DOMAIN P306.calls : P306.calls[op] \in Program(C)
  BY <1>1, IoctlCalls DEF IoctlPrograms
<1>3. P306.init \in Program({"register_chrdev"})
        /\ P306.exit \in Program({"unregister_chrdev"})
  BY Notation DEF Plain, Version, P306, P306Load
<1>4. QED
  BY <1>1, <1>2, <1>3 DEF Users, Plain, Version, P306, P306Calls

LEMMA P306LedkeyIn ==
  /\ Users(P306Ledkey, LineCalls \cup {"try_module_get", "module_put", "test_init",
       "set_init", "clear_init"})
  /\ P306Ledkey.isr = <<>>
  /\ P306Ledkey.init \in Program({"register_chrdev"})
  /\ P306Ledkey.exit \in Program({"unregister_chrdev"})
<1> DEFINE C == LineCalls \cup {"try_module_get", "module_put", "test_init", "set_init",
      "clear_init"}
<1>1. {<<>>, Touch(Leds), Touch(Keys), Touch(Leds) \o Touch(Keys),
       TwoLoopLines.ledInit, TwoLoopLines.keyInit, Unchecked(Do("try_module_get")),
       CallThen(TwoLoopLines.ledInit \o TwoLoopLines.keyInit, Do("set_init")),
       Do("clear_init") \o TwoLoopLines.ledFree \o TwoLoopLines.keyFree,
       Do("module_put") \o IfThen("test_init",
         TwoLoopLines.ledFree \o TwoLoopLines.keyFree, <<>>)}
        \subseteq Program(C)
  BY Notation, SharedPrograms DEF LineCalls, RequestCalls, CallThen, IfThen
<1>2. \A op \in DOMAIN P306Ledkey.calls : P306Ledkey.calls[op] \in Program(C)
  BY <1>1, IoctlCalls DEF IoctlPrograms
<1>3. P306Ledkey.init \in Program({"register_chrdev"})
        /\ P306Ledkey.exit \in Program({"unregister_chrdev"})
  BY Notation DEF Plain, Version, P306Ledkey, P306LedkeyLoad
<1>4. /\ P306Ledkey.open \in Program(C) /\ P306Ledkey.release \in Program(C)
      /\ P306Ledkey.timer \in Program(C) /\ P306Ledkey.isr = <<>>
      /\ \A op \in DOMAIN P306Ledkey.direct : P306Ledkey.direct[op] \in Program(C)
  BY <1>1 DEF Plain, Version, P306Ledkey, P306LedkeyCalls, P306LedkeyLoad, P306LedkeyGpio
<1>5. QED
  BY <1>2, <1>3, <1>4 DEF Users

LEMMA P369In ==
  /\ Users(P369, OnceCalls \cup TakeCalls \cup {"touch"}) /\ P369.isr = StoreUnderMutex(<<>>)
  /\ P369.init \in Program(RequestCalls \cup {"mutex_init", "gpio_to_irq", "request_irq",
       "register_chrdev"})
  /\ P369.exit \in Program({"unregister_chrdev", "free_irq", "gpio_free", "mutex_destroy"})
<1> USE DEF Plain, Version, P369, P369Calls, P369Load, P369Gpio
<1>1. {<<>>, Touch(Leds), Touch(Keys), OpenOnce, CloseOnce,
        TakeUnderMutex} \subseteq Program(OnceCalls \cup TakeCalls \cup {"touch"})
  BY Notation, SharedPrograms, FilePrograms
<1>2. \A op \in DOMAIN P369.calls : P369.calls[op] \in Program(OnceCalls \cup TakeCalls
        \cup {"touch"})
  BY <1>1
<1>3. P369.init \in Program(RequestCalls \cup {"mutex_init", "gpio_to_irq", "request_irq",
        "register_chrdev"}) /\ P369.exit \in Program({"unregister_chrdev", "free_irq",
        "gpio_free", "mutex_destroy"})
  BY Notation, SharedPrograms
<1>4. QED
  BY <1>1, <1>2, <1>3 DEF Users

LEMMA P369KshIs == P369Ksh = P369
BY DEF P369Ksh, P369KshLoad, P369KshGpio, P369, P369Load, P369Gpio, P369KshCalls, P369Calls

LEMMA KmallocIn ==
  /\ Users(Kmalloc, OnceCalls \cup TakeCalls \cup {"touch", "kmalloc", "kfree",
       "gpio_to_irq", "request_irq", "free_irq"}) /\ Kmalloc.isr = StoreUnderMutex(<<>>)
  /\ Kmalloc.init \in Program(RequestCalls \cup {"mutex_init", "register_chrdev"})
  /\ Kmalloc.exit \in Program({"unregister_chrdev", "gpio_free", "mutex_destroy"})
<1> USE DEF Plain, Version, Kmalloc, KmallocCalls, KmallocLoad, KmallocGpio
<1> DEFINE C == OnceCalls \cup TakeCalls \cup {"touch", "kmalloc", "kfree", "gpio_to_irq",
      "request_irq", "free_irq"}
<1>1. {<<>>, Touch(Leds), Touch(Keys), TakeUnderMutex,
        Do("kmalloc") \o IrqLines.toIrq \o ForEach(gpioKey, <<"request_irq">>) \o OpenOnce,
        IrqLines.freeIrq \o CloseOnce \o Do("kfree")} \subseteq Program(C)
  <2>1. {<<>>, Touch(Leds), Touch(Keys), TakeUnderMutex} \subseteq Program(C)
    BY Notation, FilePrograms
  <2>2. {Do("kmalloc"), IrqLines.toIrq, ForEach(gpioKey, <<"request_irq">>), OpenOnce,
         IrqLines.freeIrq, CloseOnce, Do("kfree")} \subseteq Program(C)
    BY Notation, IrqPrograms, SharedPrograms, FilePrograms
  <2>3. \A p, q \in Program(C) : p \o q \in Program(C)
    BY Notation
  <2>4. Do("kmalloc") \o IrqLines.toIrq \o ForEach(gpioKey, <<"request_irq">>) \o OpenOnce
          \in Program(C)
    BY <2>2, <2>3
  <2>5. IrqLines.freeIrq \o CloseOnce \o Do("kfree") \in Program(C)
    BY <2>2, <2>3
  <2>6. QED
    BY <2>1, <2>4, <2>5
<1>2. \A op \in DOMAIN Kmalloc.calls : Kmalloc.calls[op] \in Program(C)
  BY <1>1
<1>3. Kmalloc.init \in Program(RequestCalls \cup {"mutex_init", "register_chrdev"})
        /\ Kmalloc.exit \in Program({"unregister_chrdev", "gpio_free", "mutex_destroy"})
  BY Notation, SharedPrograms
<1>4. QED
  BY <1>1, <1>2, <1>3 DEF Users

LEMMA P399In ==
  /\ Users(P399, OnceCalls \cup TakeCalls \cup WaitCalls \cup {"touch"}) /\ P399.isr
       = StoreUnderMutex(Do("wake_up"))
  /\ P399.init \in Program(RequestCalls \cup {"mutex_init", "gpio_to_irq", "request_irq",
       "register_chrdev"})
  /\ P399.exit \in Program({"unregister_chrdev", "free_irq", "gpio_free", "mutex_destroy"})
<1> USE DEF Plain, Version, P399, P399Calls, P399Load, P399Gpio
<1>1. {<<>>, Touch(Leds), Touch(Keys), OpenOnce, CloseOnce,
        WaitForKey(TakeUnderMutex)} \subseteq Program(OnceCalls \cup TakeCalls
        \cup WaitCalls \cup {"touch"})
  BY Notation, SharedPrograms, FilePrograms
<1>2. \A op \in DOMAIN P399.calls : P399.calls[op] \in Program(OnceCalls \cup TakeCalls
        \cup WaitCalls \cup {"touch"})
  BY <1>1
<1>3. P399.init \in Program(RequestCalls \cup {"mutex_init", "gpio_to_irq", "request_irq",
        "register_chrdev"}) /\ P399.exit \in Program({"unregister_chrdev", "free_irq",
        "gpio_free", "mutex_destroy"})
  BY Notation, SharedPrograms
<1>4. QED
  BY <1>1, <1>2, <1>3 DEF Users

LEMMA P399KshIn ==
  /\ Users(P399Ksh, OnceCalls \cup TakeCalls \cup WaitCalls \cup {"touch"}) /\ P399Ksh.isr
       = StoreUnderMutex(Do("wake_up"))
  /\ P399Ksh.init \in Program(RequestCalls \cup {"mutex_init", "gpio_to_irq",
       "request_irq", "register_chrdev"})
  /\ P399Ksh.exit \in Program({"unregister_chrdev", "free_irq", "gpio_free", "mutex_destroy"})
<1> USE DEF Plain, Version, P399Ksh, P399KshCalls, P399KshLoad, P399KshGpio
<1>1. {<<>>, Touch(Leds), Touch(Keys), OpenOnce, CloseOnce,
        WaitForKey(Do("copy_key") \o Do("clear_key"))} \subseteq Program(OnceCalls
        \cup TakeCalls \cup WaitCalls \cup {"touch"})
  BY Notation, SharedPrograms, FilePrograms
<1>2. \A op \in DOMAIN P399Ksh.calls : P399Ksh.calls[op] \in Program(OnceCalls
        \cup TakeCalls \cup WaitCalls \cup {"touch"})
  BY <1>1
<1>3. P399Ksh.init \in Program(RequestCalls \cup {"mutex_init", "gpio_to_irq",
        "request_irq", "register_chrdev"})
        /\ P399Ksh.exit \in Program({"unregister_chrdev", "free_irq", "gpio_free",
        "mutex_destroy"})
  BY Notation, SharedPrograms
<1>4. QED
  BY <1>1, <1>2, <1>3 DEF Users

LEMMA P432In ==
  /\ Users(P432, OnceCalls \cup TakeCalls \cup WaitCalls \cup {"touch"}) /\ P432.isr
       = StoreUnderMutex(Do("wake_up"))
  /\ P432.init \in Program(RequestCalls \cup {"mutex_init", "gpio_to_irq", "request_irq",
       "register_chrdev"})
  /\ P432.exit \in Program({"unregister_chrdev", "free_irq", "gpio_free", "mutex_destroy"})
<1> USE DEF Plain, Version, P432, P432Calls, P432Load, P432Gpio
<1>1. {<<>>, Touch(Leds), Touch(Keys), OpenOnce, CloseOnce, WaitForKey(TakeUnderMutex),
        Do("test_key")} \subseteq Program(OnceCalls \cup TakeCalls \cup WaitCalls
        \cup {"touch"})
  BY Notation, SharedPrograms, FilePrograms DEF TakeCalls
<1>2. \A op \in DOMAIN P432.calls : P432.calls[op] \in Program(OnceCalls \cup TakeCalls
        \cup WaitCalls \cup {"touch"})
  BY <1>1
<1>3. P432.init \in Program(RequestCalls \cup {"mutex_init", "gpio_to_irq", "request_irq",
        "register_chrdev"}) /\ P432.exit \in Program({"unregister_chrdev", "free_irq",
        "gpio_free", "mutex_destroy"})
  BY Notation, SharedPrograms
<1>4. QED
  BY <1>1, <1>2, <1>3 DEF Users

LEMMA P527Direct ==
  \A op \in DOMAIN P527.direct : P527.direct[op] \in {Do("copy_key") \o Do("clear_key"),
    Touch(Leds)}
<1> DEFINE c == P527Calls.direct
<1>1. /\ P527.direct = c /\ DOMAIN c = {"proc_read", "proc_write"}
      /\ c.proc_read = Do("copy_key") \o Do("clear_key") /\ c.proc_write = Touch(Leds)
  BY DEF Plain, Version, P527, P527Calls
<1> HIDE DEF c
<1>2. QED
  BY <1>1

LEMMA P527In ==
  /\ Users(P527, TakeCalls \cup WaitCalls \cup {"touch"}) /\ P527.isr
       = Do("store_key") \o Do("wake_up")
  /\ P527.init \in Program(RequestCalls \cup {"gpio_to_irq", "request_irq",
       "register_chrdev", "provide_call"})
  /\ P527.exit \in Program({"unregister_chrdev", "remove_call", "gpio_free", "free_irq"})
<1> USE DEF Plain, Version, P527, P527Calls, P527Load, P527Gpio
<1> DEFINE C == RequestCalls \cup {"gpio_to_irq", "request_irq", "register_chrdev",
      "provide_call"}
           U == TakeCalls \cup WaitCalls \cup {"touch"}
           p == Do("register_chrdev") \o TwoLoopLines.ledInit \o TwoLoopLines.keyInit
                  \o Unchecked(IrqLines.toIrq)
           q == CallThen(ForEach(gpioKey, <<"request_irq">>), Do("provide_call"))
<1>1. {<<>>, Touch(Leds), Touch(Keys), WaitForKey(Do("copy_key") \o Do("clear_key")),
       Do("test_key"), Do("copy_key") \o Do("clear_key")} \subseteq Program(U)
  BY Notation, SharedPrograms, FilePrograms DEF TakeCalls
<1>2. \A op \in DOMAIN P527.calls : P527.calls[op] \in Program(U)
  BY <1>1
<1>3. \A op \in DOMAIN P527.direct : P527.direct[op] \in Program(U)
  BY <1>1, P527Direct
<1>4. q \in Program(C)
  BY Notation DEF CallThen
<1>5. p \in Program(C) /\ P527.init = p \o q
  BY IrqPrograms, SharedPrograms
<1>6. P527.init \in Program(C)
  BY <1>4, <1>5, Notation
<1>7. P527.exit \in Program({"unregister_chrdev", "remove_call", "gpio_free", "free_irq"})
  BY Notation, SharedPrograms
<1>8. QED
  BY <1>1, <1>2, <1>3, <1>6, <1>7 DEF Users

LEMMA TimerOnlyIn ==
  /\ Users(TimerOnly, {"mod_timer"}) /\ TimerOnly.isr = <<>>
  /\ TimerOnly.init \in Program({"add_timer"})
  /\ TimerOnly.exit \in Program({"timer_pending", "del_timer"})
<1> USE DEF Plain, Version, TimerOnly
<1>1. {<<>>, Do("mod_timer")} \subseteq Program({"mod_timer"})
  BY Notation, SharedPrograms, FilePrograms
<1>2. TimerOnly.init \in Program({"add_timer"})
  BY Notation, SharedPrograms
<1>3. TimerOnly.exit \in Program({"timer_pending", "del_timer"})
  BY Notation, SharedPrograms, FreePrograms
<1>4. QED
  BY <1>1, <1>2, <1>3 DEF Users

LEMMA TimerLedIn ==
  /\ Users(TimerLed, {"touch", "mod_timer"}) /\ TimerLed.isr = <<>>
  /\ TimerLed.init \in Program(RequestCalls \cup {"add_timer"})
  /\ TimerLed.exit \in Program({"gpio_free", "timer_pending", "del_timer"})
<1> USE DEF Plain, Version, TimerLed, TimerLedLoad, TimerLedGpio
<1>1. {<<>>, Touch(Leds) \o Do("mod_timer")} \subseteq Program({"touch", "mod_timer"})
  BY Notation, SharedPrograms, FilePrograms
<1>2. TimerLed.init \in Program(RequestCalls \cup {"add_timer"})
  BY Notation, SharedPrograms
<1>3. TimerLed.exit \in Program({"gpio_free", "timer_pending", "del_timer"})
  BY Notation, SharedPrograms, FreePrograms
<1>4. QED
  BY <1>1, <1>2, <1>3 DEF Users

LEMMA TimerDevIn ==
  /\ Users(TimerDev, OnceCalls \cup TakeCalls \cup WaitCalls \cup {"touch", "mod_timer",
       "del_timer"}) /\ TimerDev.isr = StoreUnderMutex(Do("wake_up"))
  /\ TimerDev.init \in Program(RequestCalls \cup {"mutex_init", "add_timer", "gpio_to_irq",
       "request_irq", "register_chrdev"})
  /\ TimerDev.exit \in Program({"unregister_chrdev", "timer_pending", "del_timer",
       "gpio_free", "free_irq", "mutex_destroy"})
<1> USE DEF Plain, Version, TimerDev, TimerDevCalls, TimerDevLoad, TimerDevGpio
<1> DEFINE C == OnceCalls \cup TakeCalls \cup WaitCalls \cup {"touch", "mod_timer",
      "del_timer"}
<1>1. {<<>>, Touch(Leds) \o Do("mod_timer"), Do("mod_timer"), Do("del_timer"), OpenOnce,
        Do("del_timer") \o CloseOnce, WaitForKey(TakeUnderMutex),
        Do("test_key")} \subseteq Program(C)
  <2>1. {<<>>, Touch(Leds), Do("mod_timer"), Do("del_timer"),
          Do("test_key")} \subseteq Program(C)
    BY Notation DEF TakeCalls
  <2>2. {OpenOnce, CloseOnce, WaitForKey(TakeUnderMutex)} \subseteq Program(C)
    BY FilePrograms
  <2>3. \A p, q \in Program(C) : p \o q \in Program(C)
    BY Notation
  <2>4. QED
    BY <2>1, <2>2, <2>3
<1>2. \A op \in DOMAIN TimerDev.calls : TimerDev.calls[op] \in Program(C)
  BY <1>1
<1>3. TimerDev.init \in Program(RequestCalls \cup {"mutex_init", "add_timer",
        "gpio_to_irq", "request_irq", "register_chrdev"})
  BY IrqPrograms, SharedPrograms, TimerLines
<1>4. TimerDev.exit \in Program({"unregister_chrdev", "timer_pending", "del_timer",
        "gpio_free", "free_irq", "mutex_destroy"})
  BY Notation, SharedPrograms, TimerLines, FreePrograms
<1>5. QED
  BY <1>1, <1>2, <1>3, <1>4 DEF Users

LEMMA TimerHjyIn ==
  /\ Users(TimerHjy, OnceCalls \cup TakeCalls \cup {"touch", "mod_timer"}) /\ TimerHjy.isr
       = StoreUnderMutex(<<>>)
  /\ TimerHjy.init \in Program(RequestCalls \cup {"mutex_init", "add_timer", "gpio_to_irq",
       "request_irq", "register_chrdev"})
  /\ TimerHjy.exit \in Program({"unregister_chrdev", "timer_pending", "del_timer",
       "gpio_free", "free_irq", "mutex_destroy"})
<1> USE DEF Plain, Version, TimerHjy, TimerHjyCalls, TimerHjyLoad, TimerHjyGpio
<1>1. {<<>>, Touch(Leds) \o Do("mod_timer"), OpenOnce, CloseOnce,
        TakeUnderMutex} \subseteq Program(OnceCalls \cup TakeCalls \cup {"touch",
        "mod_timer"})
  BY Notation, SharedPrograms, FilePrograms
<1>2. \A op \in DOMAIN TimerHjy.calls : TimerHjy.calls[op] \in Program(OnceCalls
        \cup TakeCalls \cup {"touch", "mod_timer"})
  BY <1>1
<1>3. TimerHjy.init \in Program(RequestCalls \cup {"mutex_init", "add_timer",
        "gpio_to_irq", "request_irq", "register_chrdev"})
  BY IrqPrograms, SharedPrograms, TimerLines
<1>4. TimerHjy.exit \in Program({"unregister_chrdev", "timer_pending", "del_timer",
        "gpio_free", "free_irq", "mutex_destroy"})
  BY Notation, SharedPrograms, TimerLines, FreePrograms
<1>5. QED
  BY <1>1, <1>2, <1>3, <1>4 DEF Users

LEMMA Timer0625In ==
  /\ Users(Timer0625, OnceCalls \cup TakeCalls \cup WaitCalls \cup {"touch", "mod_timer",
       "del_timer"}) /\ Timer0625.isr = StoreUnderMutex(Do("wake_up"))
  /\ Timer0625.init \in Program(RequestCalls \cup {"mutex_init", "gpio_to_irq",
       "request_irq", "register_chrdev"})
  /\ Timer0625.exit \in Program({"unregister_chrdev", "timer_pending", "del_timer",
       "gpio_free", "free_irq", "mutex_destroy"})
<1> USE DEF Plain, Version, Timer0625, Timer0625Calls, Timer0625Load, Timer0625Gpio
<1> DEFINE C == OnceCalls \cup TakeCalls \cup WaitCalls \cup {"touch", "mod_timer",
      "del_timer"}
<1>1. {<<>>, Touch(Leds) \o Do("mod_timer"), Do("mod_timer"), Do("del_timer"), OpenOnce,
        Do("del_timer") \o CloseOnce, WaitForKey(TakeUnderMutex),
        Do("test_key")} \subseteq Program(C)
  <2>1. {<<>>, Touch(Leds), Do("mod_timer"), Do("del_timer"),
          Do("test_key")} \subseteq Program(C)
    BY Notation DEF TakeCalls
  <2>2. {OpenOnce, CloseOnce, WaitForKey(TakeUnderMutex)} \subseteq Program(C)
    BY FilePrograms
  <2>3. \A p, q \in Program(C) : p \o q \in Program(C)
    BY Notation
  <2>4. QED
    BY <2>1, <2>2, <2>3
<1>2. \A op \in DOMAIN Timer0625.calls : Timer0625.calls[op] \in Program(C)
  BY <1>1
<1>3. Timer0625.init \in Program(RequestCalls \cup {"mutex_init", "gpio_to_irq",
        "request_irq", "register_chrdev"})
  BY IrqPrograms, SharedPrograms, TimerLines
<1>4. Timer0625.exit \in Program({"unregister_chrdev", "timer_pending", "del_timer",
        "gpio_free", "free_irq", "mutex_destroy"})
  BY Notation, SharedPrograms, TimerLines, FreePrograms
<1>5. QED
  BY <1>1, <1>2, <1>3, <1>4 DEF Users

-----------------------------------------------------------------------------
(* The same, of all versions.                                              *)

LEMMA DriverIs ==
  /\ DOMAIN Driver =
       {"P122", "P122Param", "P106", "Mysyscall", "Calldev", "Backup", "P184", "P184b0620",
        "P184Ksh", "CalldevLedkey", "P238", "P270", "P306", "P306Ledkey", "P369", "P369Ksh",
        "Kmalloc", "P399", "P399Ksh", "P432", "P527", "TimerOnly", "TimerLed", "TimerDev",
        "TimerHjy", "Timer0625"}
  /\ Driver["P122"] = P122 /\ Driver["P122Param"] = P122Param /\ Driver["P106"] = P106
  /\ Driver["Mysyscall"] = Mysyscall /\ Driver["Calldev"] = Calldev
  /\ Driver["Backup"] = Backup /\ Driver["P184"] = P184 /\ Driver["P184b0620"] = P184b0620
  /\ Driver["P184Ksh"] = P184Ksh /\ Driver["CalldevLedkey"] = CalldevLedkey
  /\ Driver["P238"] = P238 /\ Driver["P270"] = P270 /\ Driver["P306"] = P306
  /\ Driver["P306Ledkey"] = P306Ledkey /\ Driver["P369"] = P369
  /\ Driver["P369Ksh"] = P369Ksh /\ Driver["Kmalloc"] = Kmalloc /\ Driver["P399"] = P399
  /\ Driver["P399Ksh"] = P399Ksh /\ Driver["P432"] = P432 /\ Driver["P527"] = P527
  /\ Driver["TimerOnly"] = TimerOnly /\ Driver["TimerLed"] = TimerLed
  /\ Driver["TimerDev"] = TimerDev /\ Driver["TimerHjy"] = TimerHjy
  /\ Driver["Timer0625"] = Timer0625
BY DEF Driver

\* Every function of version d but keyIsr makes calls of C.
Makes(d, C) == Users(d, C) /\ d.init \in Program(C) /\ d.exit \in Program(C)

LEMMA MakesMore ==
  ASSUME NEW d, NEW C, NEW D, NEW E, NEW F, C \cup E \cup F \subseteq D,
         Users(d, C), d.init \in Program(E), d.exit \in Program(F)
  PROVE  Makes(d, D)
<1>1. Program(C) \subseteq Program(D) /\ Program(E) \subseteq Program(D)
        /\ Program(F) \subseteq Program(D)
  BY MonotoneIn
<1>2. QED
  BY <1>1 DEF Makes, Users

\* The versions that never sleep.
Sleepless == DOMAIN Driver \ {"P399", "P399Ksh", "P432", "P527", "TimerDev", "Timer0625"}

LEMMA SleeplessMakes ==
  ASSUME NEW d \in Sleepless
  PROVE  Makes(Driver[d], AllCalls \ {"wait_event"})
<1> DEFINE C == AllCalls \ {"wait_event"}
<1> USE DEF AllCalls, LineCalls, IrqCalls, NodeCalls, TimerCalls, FileCalls, MutexCalls,
            KeyCalls, RequestCalls, OnceCalls, TakeCalls, BoxCalls
<1>1. Makes(P122, C)
  BY P122In, MakesMore
<1>2. Makes(P122Param, C)
  BY P122ParamIs, P122In, MakesMore
<1>3. Makes(P106, C)
  BY P106In, MakesMore
<1>4. Makes(Mysyscall, C)
  BY MysyscallIn, MakesMore
<1>5. Makes(Calldev, C)
  BY CalldevIn, MakesMore
<1>6. Makes(Backup, C)
  BY BackupIn, MakesMore
<1>7. Makes(P184, C)
  BY P184In, MakesMore
<1>8. Makes(P184b0620, C)
  BY P184b0620In, MakesMore
<1>9. Makes(P184Ksh, C)
  BY P184KshIn, MakesMore
<1>10. Makes(CalldevLedkey, C)
  BY CalldevLedkeyIn, MakesMore
<1>11. Makes(P238, C)
  BY P238In, MakesMore
<1>12. Makes(P270, C)
  BY P270In, MakesMore
<1>13. Makes(P306, C)
  BY P306In, MakesMore
<1>14. Makes(P306Ledkey, C)
  BY P306LedkeyIn, MakesMore
<1>15. Makes(P369, C)
  BY P369In, MakesMore
<1>16. Makes(P369Ksh, C)
  BY P369KshIs, P369In, MakesMore
<1>17. Makes(Kmalloc, C)
  BY KmallocIn, MakesMore
<1>18. Makes(TimerOnly, C)
  BY TimerOnlyIn, MakesMore
<1>19. Makes(TimerLed, C)
  BY TimerLedIn, MakesMore
<1>20. Makes(TimerHjy, C)
  BY TimerHjyIn, MakesMore
<1>21. QED
  BY <1>1, <1>2, <1>3, <1>4, <1>5, <1>6, <1>7, <1>8, <1>9, <1>10, <1>11, <1>12, <1>13,
    <1>14, <1>15, <1>16, <1>17, <1>18, <1>19, <1>20, DriverIs DEF Sleepless

LEMMA SleepersMake ==
  ASSUME NEW d \in DOMAIN Driver \ Sleepless
  PROVE  Makes(Driver[d], AllCalls \ {"store_key"})
<1> DEFINE C == AllCalls \ {"store_key"}
<1> USE DEF AllCalls, LineCalls, IrqCalls, NodeCalls, TimerCalls, FileCalls, MutexCalls,
            KeyCalls, RequestCalls, OnceCalls, TakeCalls, WaitCalls
<1>1. Makes(P399, C)
  BY P399In, MakesMore
<1>2. Makes(P399Ksh, C)
  BY P399KshIn, MakesMore
<1>3. Makes(P432, C)
  BY P432In, MakesMore
<1>4. Makes(P527, C)
  BY P527In, MakesMore
<1>5. Makes(TimerDev, C)
  BY TimerDevIn, MakesMore
<1>6. Makes(Timer0625, C)
  BY Timer0625In, MakesMore
<1>7. QED
  BY <1>1, <1>2, <1>3, <1>4, <1>5, <1>6, DriverIs DEF Sleepless

\* What the interrupt handlers are.
LEMMA Handlers ==
  /\ \A d \in Sleepless : Driver[d].isr \in {<<>>, StoreUnderMutex(<<>>)}
  /\ \A d \in DOMAIN Driver \ Sleepless :
       Driver[d].isr \in {StoreUnderMutex(Do("wake_up")), Do("store_key") \o Do("wake_up")}
BY P122In, P122ParamIs, P106In, MysyscallIn, CalldevIn, BackupIn, P184In, P184b0620In,
  P184KshIn, CalldevLedkeyIn, P238In, P270In, P306In, P306LedkeyIn, P369In, P369KshIs,
  KmallocIn, P399In, P399KshIn, P432In, P527In, TimerOnlyIn, TimerLedIn, TimerDevIn,
  TimerHjyIn, Timer0625In, DriverIs DEF Sleepless

-----------------------------------------------------------------------------
(* The handlers that wake the readers.                                     *)

\* One statement, and one with something to do when it fails.
One(call) == On({}, call)
OneOr(call, cleanup) == [On({}, call) EXCEPT !.fail = cleanup]

LEMMA OneStatement ==
  ASSUME NEW call, NEW cleanup
  PROVE  /\ Do(call) = <<One(call)>>
         /\ OnFailure(Do(call), cleanup) = <<OneOr(call, cleanup)>>
         /\ One(call).call = call /\ One(call).fail = <<>> /\ One(call).checked
         /\ OneOr(call, cleanup).call = call /\ OneOr(call, cleanup).fail = cleanup
         /\ OneOr(call, cleanup).checked
<1>1. Do(call) = <<One(call)>>
  BY DEF Do, One
<1>2. DOMAIN Do(call) = 1..1 /\ Do(call)[1] = On({}, call)
  BY DEF Do
<1>3. OnFailure(Do(call), cleanup) = [n \in 1..1 |-> OneOr(call, cleanup)]
  BY <1>2 DEF OnFailure, OneOr
<1>4. OnFailure(Do(call), cleanup) = <<OneOr(call, cleanup)>>
  BY <1>3
<1>5. QED
  BY <1>1, <1>4 DEF One, OneOr, On

LEMMA FirstOf ==
  ASSUME NEW S, NEW a \in S, NEW p \in Seq(S)
  PROVE  /\ <<a>> \o p \in Seq(S) /\ <<a>> \o p # <<>>
         /\ Tail(<<a>> \o p) = p /\ Head(<<a>> \o p) = a
         /\ Len(<<a>> \o p) = Len(p) + 1
         /\ \A n \in 1..Len(p) : (<<a>> \o p)[n + 1] = p[n]
OBVIOUS

LEMMA ConcatAssociates ==
  ASSUME NEW C, NEW p \in Program(C), NEW q \in Program(C), NEW r \in Program(C)
  PROVE  (p \o q) \o r = p \o (q \o r)
BY DEF Program

LEMMA FirstStatement ==
  ASSUME NEW C, NEW call \in C, NEW p \in Program(C)
  PROVE  /\ Do(call) \o p \in Program(C) /\ Do(call) \o p # <<>>
         /\ Tail(Do(call) \o p) = p /\ Head(Do(call) \o p) = One(call)
<1> DEFINE S == Statements(C, Nested(C))
<1>1. One(call) \in S /\ Program(C) = Seq(S)
  BY Notation DEF One, On, Statements, Program
<1>2. Do(call) = <<One(call)>>
  BY OneStatement
<1> HIDE DEF S
<1>3. <<One(call)>> \o p \in Seq(S) /\ <<One(call)>> \o p # <<>>
      /\ Tail(<<One(call)>> \o p) = p /\ Head(<<One(call)>> \o p) = One(call)
  BY <1>1, FirstOf
<1>4. QED
  BY <1>1, <1>2, <1>3

LEMMA FirstOrElse ==
  ASSUME NEW C, NEW call \in C, NEW p \in Program(C), NEW cleanup \in Nested(C)
  PROVE  /\ OnFailure(Do(call), cleanup) \o p \in Program(C)
         /\ OnFailure(Do(call), cleanup) \o p # <<>>
         /\ Tail(OnFailure(Do(call), cleanup) \o p) = p
         /\ Head(OnFailure(Do(call), cleanup) \o p) = OneOr(call, cleanup)
<1> DEFINE S == Statements(C, Nested(C))
           a == OneOr(call, cleanup)
<1>1. a \in S /\ Program(C) = Seq(S)
  BY DEF OneOr, On, Statements, Program
<1>2. OnFailure(Do(call), cleanup) = <<a>>
  BY OneStatement
<1> HIDE DEF S, a
<1>3. <<a>> \o p \in Seq(S) /\ <<a>> \o p # <<>> /\ Tail(<<a>> \o p) = p
        /\ Head(<<a>> \o p) = a
  BY <1>1, FirstOf
<1>4. QED
  BY <1>1, <1>2, <1>3 DEF a

\* What is left of the keyIsr() of the versions that wake their readers.
Wake1 == Do("wake_up")
Wake2 == Do("mutex_unlock") \o Wake1
Wake3 == Do("store_key") \o Wake2
Wake4 == OnFailure(Do("mutex_trylock"), Wake1) \o Wake3
Wake5 == Do("store_key") \o Wake1
WakeTails == {<<>>, Wake1, Wake2, Wake3, Wake4, Wake5}

Wakes(p) == \E n \in DOMAIN p : p[n].call = "wake_up"

LEMMA WakeTailsIn ==
  /\ WakeTails \subseteq Program(StoreCalls)
  /\ Wake1 \in Simple(StoreCalls)
  /\ StoreUnderMutex(Do("wake_up")) = Wake4
  /\ Do("store_key") \o Do("wake_up") = Wake5
<1> DEFINE C == StoreCalls
<1>1. /\ Wake1 \in Simple(C) /\ Wake2 \in Simple(C) /\ Wake3 \in Simple(C)
           /\ Wake5 \in Simple(C)
      /\ Do("mutex_unlock") \in Simple(C)
  BY Notation DEF Wake1, Wake2, Wake3, Wake5, StoreCalls
<1>2. Wake4 \in Program(C)
  BY <1>1, Notation DEF Wake4, StoreCalls
<1>3. StoreUnderMutex(Do("wake_up"))
       = OnFailure(Do("mutex_trylock"),
         Wake1) \o (Do("store_key") \o Do("mutex_unlock")) \o Wake1
  BY DEF StoreUnderMutex, IfThen, Wake1
<1>4. (Do("store_key") \o Do("mutex_unlock")) \o Wake1 = Wake3
  <2>1. Do("store_key") \in Program(C) /\ Do("mutex_unlock") \in Program(C)
          /\ Wake1 \in Program(C)
    BY <1>1, Notation DEF StoreCalls
  <2>2. QED
    BY <2>1, ConcatAssociates DEF Wake3, Wake2
<1>5. (OnFailure(Do("mutex_trylock"),
        Wake1) \o (Do("store_key") \o Do("mutex_unlock"))) \o Wake1
        = OnFailure(Do("mutex_trylock"),
          Wake1) \o ((Do("store_key") \o Do("mutex_unlock")) \o Wake1)
  <2>1. OnFailure(Do("mutex_trylock"), Wake1) \in Program(C)
        /\ Do("store_key") \o Do("mutex_unlock") \in Program(C) /\ Wake1 \in Program(C)
    BY <1>1, Notation DEF StoreCalls
  <2>2. QED
    BY <2>1, ConcatAssociates
<1>6. QED
  BY <1>1, <1>2, <1>3, <1>4, <1>5, Notation DEF WakeTails, Wake4, Wake5, Wake1

\* Every statement of it but the last leaves the wake-up to be done.
LEMMA WakeTailsClosed ==
  ASSUME NEW p \in WakeTails, p # <<>>
  PROVE  /\ Tail(p) \in WakeTails
         /\ Head(p).fail \in WakeTails
         /\ Head(p).call \in {"wake_up", "mutex_unlock", "store_key", "mutex_trylock"}
         /\ Head(p).call # "wake_up" => Wakes(Tail(p))
         /\ Head(p).call = "mutex_trylock" => Wakes(Head(p).fail)
<1> DEFINE C == StoreCalls
<1>1. Wake1 \in Program(C) /\ Wake2 \in Program(C) /\ Wake3 \in Program(C)
        /\ Wake1 \in Nested(C)
  BY WakeTailsIn, Notation DEF WakeTails
<1>2. Tail(Wake1) = <<>> /\ Head(Wake1) = One("wake_up") /\ Wakes(Wake1)
  <2>1. Wake1 = <<One("wake_up")>> /\ One("wake_up").call = "wake_up"
    BY OneStatement DEF Wake1
  <2>2. QED
    BY <2>1 DEF Wakes
<1>3. /\ Tail(Wake2) = Wake1 /\ Head(Wake2) = One("mutex_unlock")
      /\ Tail(Wake3) = Wake2 /\ Head(Wake3) = One("store_key")
      /\ Tail(Wake5) = Wake1 /\ Head(Wake5) = One("store_key")
  BY <1>1, FirstStatement DEF Wake2, Wake3, Wake5, StoreCalls
<1>4. Tail(Wake4) = Wake3 /\ Head(Wake4) = OneOr("mutex_trylock", Wake1)
  BY <1>1, FirstOrElse DEF Wake4, StoreCalls
<1>5. ASSUME NEW q \in Program(C), Wakes(q), NEW call \in C
      PROVE  Wakes(Do(call) \o q)
  <2> DEFINE S == Statements(C, Nested(C))
  <2>1. /\ Do(call) = <<One(call)>> /\ One(call) \in S /\ q \in Seq(S)
    BY Notation, OneStatement DEF Program, One, On, Statements
  <2> HIDE DEF S
  <2>2. PICK n \in DOMAIN q : q[n].call = "wake_up"
    BY <1>5 DEF Wakes
  <2>3. n \in 1..Len(q) /\ n + 1 \in DOMAIN (Do(call) \o q)
    BY <2>1, <2>2
  <2>4. (Do(call) \o q)[n + 1] = q[n]
    BY <2>1, <2>3, FirstOf
  <2>5. QED
    BY <2>2, <2>3, <2>4 DEF Wakes
<1>6. Wakes(Wake2) /\ Wakes(Wake3)
  BY <1>1, <1>2, <1>5 DEF Wake2, Wake3, StoreCalls
<1>7. /\ One("wake_up").call = "wake_up" /\ One("wake_up").fail = <<>>
      /\ One("mutex_unlock").call = "mutex_unlock" /\ One("mutex_unlock").fail = <<>>
      /\ One("store_key").call = "store_key" /\ One("store_key").fail = <<>>
      /\ OneOr("mutex_trylock", Wake1).call = "mutex_trylock"
      /\ OneOr("mutex_trylock", Wake1).fail = Wake1
  BY OneStatement
<1>8. CASE p = Wake1
  BY <1>2, <1>7, <1>8 DEF WakeTails
<1>9. CASE p \in {Wake2, Wake3, Wake5}
  BY <1>2, <1>3, <1>6, <1>7, <1>9 DEF WakeTails
<1>10. CASE p = Wake4
  BY <1>2, <1>4, <1>6, <1>7, <1>10 DEF WakeTails
<1>11. QED
  BY <1>8, <1>9, <1>10 DEF WakeTails

-----------------------------------------------------------------------------
(* No wake-up is lost.                                                     *)

LEMMA VersionMakes ==
  ASSUME NEW d \in DOMAIN Driver
  PROVE  Makes(Driver[d], AllCalls) /\ Driver[d].isr \in Program(AllCalls)
<1>1. AllCalls \ {"wait_event"} \subseteq AllCalls
        /\ AllCalls \ {"store_key"} \subseteq AllCalls
      /\ StoreCalls \subseteq AllCalls
  BY DEF AllCalls, StoreCalls, MutexCalls, KeyCalls
<1>2. Makes(Driver[d], AllCalls \ {"wait_event"}) \/ Makes(Driver[d],
        AllCalls \ {"store_key"})
  BY SleeplessMakes, SleepersMake DEF Sleepless
<1>3. \A C : C \subseteq AllCalls => Program(C) \subseteq Program(AllCalls)
  BY MonotoneIn
<1>4. Makes(Driver[d], AllCalls)
  BY <1>1, <1>2, <1>3 DEF Makes, Users
<1>5. Driver[d].isr \in {<<>>, StoreUnderMutex(<<>>), StoreUnderMutex(Do("wake_up")),
                         Do("store_key") \o Do("wake_up")}
  BY Handlers DEF Sleepless
<1>6. {<<>>, StoreUnderMutex(<<>>), StoreUnderMutex(Do("wake_up")),
       Do("store_key") \o Do("wake_up")} \subseteq Program(AllCalls)
  BY <1>1, FilePrograms, Notation DEF StoreCalls
<1>7. QED
  BY <1>4, <1>5, <1>6

LEMMA BeginsIn ==
  ASSUME NEW d \in DOMAIN Driver, NEW op, NEW p, Begins(d, op, p), NEW C, Makes(Driver[d], C)
  PROVE  p \in Program(C) \/ (op = "isr" /\ p = Driver[d].isr)
BY DEF Begins, Makes, Users

LEMMA BeginsKnown ==
  ASSUME drv \in DOMAIN Driver
  PROVE  \A op, p : Begins(drv, op, p) => p \in Program(AllCalls)
BY BeginsIn, VersionMakes

\* A set of programs that has what is left of each after any of its statements.
Closed(S) ==
  /\ <<>> \in S
  /\ \A p \in S : p # <<>> =>
       /\ Tail(p) \in S
       /\ Head(p).checked /\ Head(p).call \in MayFail => Head(p).fail \in S

LEMMA ProgramClosed ==
  ASSUME NEW C
  PROVE  Closed(Program(C))
BY ProgramSteps, Notation DEF Closed

LEMMA StaysIn ==
  ASSUME Base, [Next]_vars, NEW a \in Actors, NEW S, Closed(S), run[a].todo \in S,
         \A op \in OpsOf(a) \ {"idle"} : \A p : Begins(drv, op, p) => p \in S
  PROVE  run'[a].todo \in S
<1>1. Formed(run[a]) /\ Steps(a)
  BY NextRun DEF Base
<1>2. run[a].todo # <<>> =>
        /\ Tail(run[a].todo) \in S
        /\ Now(a).checked /\ Now(a).call \in MayFail => Now(a).fail \in S
  BY DEF Closed, Now
<1>3. CASE Same(a)
  BY <1>3 DEF Same
<1>4. CASE Advances(a) \/ Copies(a)
  BY <1>1, <1>2, <1>4 DEF Advances, Copies, At, Formed
<1>5. CASE Fails(a)
  BY <1>1, <1>2, <1>5 DEF Fails, Formed
<1>6. CASE Starts(a)
  BY <1>6, Zenon DEF Starts
<1>7. CASE Ends(a)
  BY <1>7 DEF Ends, Idle, Closed
<1>8. QED
  BY <1>1, <1>3, <1>4, <1>5, <1>6, <1>7 DEF Steps

-----------------------------------------------------------------------------

LEMMA NamedCalls ==
  ASSUME NEW a \in Actors, Statement(a), a \notin asleep
  PROVE  /\ run[a].todo # <<>>
         /\ Now(a).call = "wake_up" => WakeUp(a)
         /\ Now(a).call = "store_key" => StoreKey(a)
<1> USE DEF At, Statement, GpioRequest, GpioDirection, GpioFree, TouchLines, GpioToIrq,
            RequestIrq, FreeIrq, RegisterChrdev, UnregisterChrdev, ProvideCall, RemoveCall,
            SetTimer, TryModuleGet, ModulePut, Kmalloc_, Kfree, Test, SetFlag, Mutex, CopyKey,
            ClearKey, WaitEvent, Signal
<1>1. run[a].todo # <<>>
  BY DEF StoreKey, WakeUp
<1>2. Now(a).call = "wake_up" => WakeUp(a)
  BY DEF StoreKey
<1>3. Now(a).call = "store_key" => StoreKey(a)
  BY DEF WakeUp
<1>4. QED
  BY <1>1, <1>2, <1>3

LEMMA SleepersShare ==
  ASSUME NEW d \in DOMAIN Driver \ Sleepless
  PROVE  ~Driver[d].perOpen
<1>1. ~P399.perOpen /\ ~P399Ksh.perOpen /\ ~P432.perOpen
  BY DEF P399, P399Calls, P399Ksh, P399KshCalls, P432, P432Calls, Version, Plain
<1>2. ~P527.perOpen /\ ~TimerDev.perOpen /\ ~Timer0625.perOpen
  BY DEF P527, P527Calls, TimerDev, TimerDevCalls, Timer0625, Timer0625Calls, Version, Plain
<1>3. QED
  BY <1>1, <1>2, DriverIs DEF Sleepless

\* What is known of the functions that are running, and of the sleepers.
SleepInv ==
  /\ Base /\ drv \in DOMAIN Driver
  /\ DOMAIN keyNum = Files \cup {kernel}
  /\ drv \in Sleepless =>
       /\ asleep = {}
       /\ \A a \in Actors : run[a].todo \in Program(AllCalls \ {"wait_event"})
  /\ drv \notin Sleepless =>
       /\ \A a \in Actors \ Keys : run[a].todo \in Program(AllCalls \ {"store_key"})
       /\ \A k \in Keys : run[k].todo \in WakeTails
  /\ SleeperHasNoKey

LEMMA InitSleepInv ==
  ASSUME Init
  PROVE  SleepInv
<1>1. Base /\ drv \in DOMAIN Driver
  BY InitBase, VersionAssumption DEF Init
<1>2. \A a \in Actors : run[a].todo = <<>>
  BY DEF Init, Idle
<1>3. <<>> \in Program(AllCalls \ {"wait_event"})
        /\ <<>> \in Program(AllCalls \ {"store_key"})
      /\ <<>> \in WakeTails /\ Keys \subseteq Actors
  BY Notation DEF WakeTails, Actors
<1>4. QED
  BY <1>1, <1>2, <1>3 DEF Init, SleepInv, SleeperHasNoKey

LEMMA NextSleepInv ==
  ASSUME SleepInv, [Next]_vars
  PROVE  SleepInv'
<1>1. CASE UNCHANGED vars
  BY <1>1 DEF vars, modVars, keyVars, SleepInv, SleeperHasNoKey, Base, Now, Box
<1> SUFFICES ASSUME Next PROVE SleepInv'
  BY <1>1
<1>2. Base /\ drv \in DOMAIN Driver
  BY DEF SleepInv
<1>3. drv' = drv
  BY StatementFrame, OtherFrame
<1>4. Base'
  BY <1>2, BeginsKnown, NextBase
<1>5. DOMAIN keyNum' = Files \cup {kernel}
  <2>1. ASSUME NEW a \in Actors, Statement(a) PROVE DOMAIN keyNum' = DOMAIN keyNum
    BY <2>1, StatementFrame DEF Kmalloc_, StoreKey, ClearKey
  <2>2. ASSUME \A a \in Actors : ~Statement(a) PROVE DOMAIN keyNum' = DOMAIN keyNum
    BY <2>2, OtherFrame DEF Insmod
  <2>3. QED
    BY <2>1, <2>2 DEF SleepInv
<1>6. ASSUME drv \in Sleepless
      PROVE  /\ asleep' = {}
             /\ \A a \in Actors : run'[a].todo \in Program(AllCalls \ {"wait_event"})
  <2> DEFINE S == Program(AllCalls \ {"wait_event"})
  <2>1. \A op, p : Begins(drv, op, p) => p \in S
    <3>1. Driver[drv].isr \in S
      <4>1. {<<>>, StoreUnderMutex(<<>>)} \subseteq S
        BY FilePrograms, Notation DEF StoreCalls, AllCalls, MutexCalls, KeyCalls
      <4>2. QED
        BY <1>6, <4>1, Handlers
    <3>2. QED
      BY <1>2, <1>6, <3>1, SleeplessMakes, BeginsIn
  <2>2. \A a \in Actors : run[a].todo \in S
    BY <1>6 DEF SleepInv
  <2>3. \A a \in Actors : run'[a].todo \in S
    <3>1. Closed(S)
      BY ProgramClosed
    <3> HIDE DEF S
    <3>2. QED
      BY <1>2, <2>1, <2>2, <3>1, StaysIn
  <2>4. ASSUME NEW b \in asleep' PROVE FALSE
    <3>1. b \in Actors /\ run[b].todo # <<>> /\ Head(run[b].todo).call = "wait_event"
      BY <1>2, <1>6, <2>4, AsleepStep DEF SleepInv, WaitEvent, At, Now
    <3>2. Head(run[b].todo).call \in AllCalls \ {"wait_event"}
      BY <2>2, <3>1, ProgramSteps
    <3>3. QED
      BY <3>1, <3>2
  <2>5. QED
    BY <2>3, <2>4
<1>7. ASSUME drv \notin Sleepless
      PROVE  /\ \A a \in Actors \ Keys : run'[a].todo \in Program(AllCalls \ {"store_key"})
             /\ \A k \in Keys : run'[k].todo \in WakeTails
  <2>1. ASSUME NEW a \in Actors \ Keys
        PROVE  run'[a].todo \in Program(AllCalls \ {"store_key"})
    <3> DEFINE S == Program(AllCalls \ {"store_key"})
    <3>1. \A op, p : Begins(drv, op, p) => p \in S \/ op = "isr"
      BY <1>2, <1>7, SleepersMake, BeginsIn
    <3>2. "isr" \notin OpsOf(a)
      BY ActorOps DEF Actors
    <3>3. Closed(S) /\ run[a].todo \in S
      BY <1>7, ProgramClosed DEF SleepInv
    <3> HIDE DEF S
    <3>4. run'[a].todo \in S
      BY <1>2, <3>1, <3>2, <3>3, StaysIn
    <3>5. QED
      BY <3>4 DEF S
  <2>2. ASSUME NEW k \in Keys
        PROVE  run'[k].todo \in WakeTails
    <3>1. Closed(WakeTails)
      BY WakeTailsClosed DEF Closed, WakeTails
    <3>2. \A op \in OpsOf(k) \ {"idle"} : \A p : Begins(drv, op, p) => p \in WakeTails
      BY <1>2, <1>7, ActorOps, Handlers, WakeTailsIn DEF Begins, WakeTails
    <3>3. run[k].todo \in WakeTails /\ k \in Actors
      BY <1>7 DEF SleepInv, Actors
    <3>4. QED
      BY <1>2, <3>1, <3>2, <3>3, StaysIn
  <2>3. QED
    BY <2>1, <2>2
<1>8. ASSUME drv \notin Sleepless, NEW t \in asleep'
      PROVE  keyNum'[kernel] = 0 \/ \E k \in Keys : Wakes(run'[k].todo)
  <2>1. \A b : Box(b) = kernel
    BY <1>2, <1>8, SleepersShare DEF Box
  <2>2. keyNum[kernel] = 0 \/ (t \in asleep /\ \E k \in Keys : Wakes(run[k].todo))
    BY <1>2, <1>8, <2>1, AsleepStep DEF SleepInv, SleeperHasNoKey, Wakes
  <2>3. ASSUME NEW k \in Keys
        PROVE  k \in Actors /\ Formed(run[k]) /\ run[k].todo \in WakeTails /\ k \notin asleep
    <3>1. k \in Actors /\ run[k].todo \in WakeTails
      BY <1>8 DEF SleepInv, Actors
    <3>2. k \notin asleep
      BY <1>2, <3>1, WakeTailsClosed DEF Base, Now
    <3>3. QED
      BY <1>2, <3>1, <3>2 DEF Base
  <2>4. ASSUME NEW a \in Actors, StoreKey(a)
        PROVE  \E k \in Keys : Wakes(run'[k].todo)
    <3>1. run[a].todo # <<>> /\ Head(run[a].todo).call = "store_key"
      BY <2>4 DEF StoreKey, At, Now
    <3>2. a \in Keys
      <4>1. a \notin Keys => run[a].todo \in Program(AllCalls \ {"store_key"})
        BY <1>8 DEF SleepInv
      <4>2. a \notin Keys => Head(run[a].todo).call \in AllCalls \ {"store_key"}
        BY <3>1, <4>1, ProgramSteps
      <4>3. QED
        BY <3>1, <4>2
    <3>3. Wakes(Tail(run[a].todo))
      BY <2>3, <3>1, <3>2, WakeTailsClosed
    <3>4. run'[a].todo = Tail(run[a].todo)
      <4>1. DOMAIN run = Actors
        BY <1>2 DEF Base
      <4>2. run[a] = [op |-> run[a].op, todo |-> run[a].todo, ok |-> run[a].ok,
                      file |-> run[a].file, got |-> run[a].got]
        BY <2>3, <3>2 DEF Formed
      <4>3. run'[a] = [run[a] EXCEPT !.todo = Tail(@)]
        BY <2>4, <4>1 DEF StoreKey, Succeed
      <4>4. QED
        BY <4>2, <4>3
    <3>5. QED
      BY <3>2, <3>3, <3>4
  <2>5. ASSUME NEW a \in Actors, Statement(a), ~StoreKey(a), NEW k \in Keys,
          Wakes(run[k].todo)
        PROVE  Wakes(run'[k].todo)
    <3>1. CASE a # k
      BY <1>2, <2>3, <2>5, <3>1, StatementRun DEF Alone, Same
    <3>2. CASE a = k
      <4>1. run[k].todo # <<>> /\ Head(run[k].todo).call # "wake_up"
        BY <1>8, <2>3, <2>5, <3>2, NamedCalls DEF WakeUp, Now
      <4>2. Wakes(Tail(run[k].todo))
            /\ (Head(run[k].todo).call \in MayFail => Wakes(Head(run[k].todo).fail))
        BY <2>3, <4>1, WakeTailsClosed DEF MayFail
      <4>3. Same(k) \/ Advances(k) \/ Copies(k) \/ Fails(k)
        BY <1>2, <2>5, <3>2, StatementRun
      <4>4. QED
        BY <2>3, <2>5, <4>2, <4>3 DEF Same, Advances, Copies, Fails, Formed, Now
    <3>3. QED
      BY <3>1, <3>2
  <2>6. ASSUME NEW a \in Actors, Statement(a), ~StoreKey(a)
        PROVE  keyNum'[kernel] \in {keyNum[kernel], 0}
    <3>1. keyNum' = keyNum \/ Kmalloc_(a) \/ ClearKey(a)
      BY <2>6, StatementFrame
    <3>2. kernel \in DOMAIN keyNum
      BY DEF SleepInv
    <3>3. QED
      BY <3>1, <3>2 DEF Kmalloc_, ClearKey
  <2>7. ASSUME \A a \in Actors : ~Statement(a)
        PROVE  /\ \A k \in Keys : Wakes(run[k].todo) => Wakes(run'[k].todo)
               /\ keyNum'[kernel] \in {keyNum[kernel], 0}
    <3>1. PICK a \in Actors : Alone(a) /\ (Starts(a) \/ Ends(a))
      BY <1>2, <2>7, OtherRun
    <3>2. run[a].todo = <<>>
      BY <3>1 DEF Starts, Ends, Idle
    <3>3. ~Wakes(<<>>)
      BY DEF Wakes
    <3>4. keyNum' = keyNum \/ Insmod
      BY <2>7, OtherFrame
    <3>5. kernel \in DOMAIN keyNum
      BY DEF SleepInv
    <3>6. QED
      BY <2>3, <3>1, <3>2, <3>3, <3>4, <3>5 DEF Alone, Same, Insmod
  <2>8. QED
    BY <2>2, <2>4, <2>5, <2>6, <2>7
<1>9. drv \notin Sleepless => \A b : Box(b)' = kernel
  BY <1>2, <1>3, SleepersShare DEF Box
<1>10. SleeperHasNoKey'
  BY <1>3, <1>6, <1>8, <1>9 DEF SleeperHasNoKey, Wakes
<1>11. QED
  BY <1>2, <1>3, <1>4, <1>5, <1>6, <1>7, <1>10 DEF SleepInv

\* No key is left behind while a reader sleeps for it: in every version a thread
\* in wait_event_interruptible() has no key to take, or the handler that stored
\* it has the wake-up still to do.
THEOREM NoWakeUpIsLost == Spec => []SleeperHasNoKey
<1>1. Init => SleepInv
  BY InitSleepInv
<1>2. SleepInv /\ [Next]_vars => SleepInv'
  BY NextSleepInv
<1>3. SleepInv => SleeperHasNoKey
  BY DEF SleepInv
<1>4. QED
  BY <1>1, <1>2, <1>3, PTL DEF Spec

-----------------------------------------------------------------------------
(* What a function may have left; the state of a file.                     *)

LEMMA StaysInOp ==
  ASSUME Base, [Next]_vars, NEW a \in Actors, NEW op \in Ops \ {"idle"}, NEW S, Closed(S),
         run[a].op = op => run[a].todo \in S,
         \A p : Begins(drv, op, p) => p \in S,
         run'[a].op = op
  PROVE  run'[a].todo \in S
<1>1. Formed(run[a]) /\ Steps(a)
  BY NextRun DEF Base
<1>2. run[a].op = op /\ run[a].todo # <<>> =>
        /\ Tail(run[a].todo) \in S
        /\ Now(a).checked /\ Now(a).call \in MayFail => Now(a).fail \in S
  BY DEF Closed, Now
<1>3. CASE Same(a)
  BY <1>3 DEF Same
<1>4. CASE Advances(a) \/ Copies(a)
  BY <1>1, <1>2, <1>4 DEF Advances, Copies, At, Formed
<1>5. CASE Fails(a)
  BY <1>1, <1>2, <1>5 DEF Fails, Formed
<1>6. CASE Starts(a)
  BY <1>6, Zenon DEF Starts
<1>7. CASE Ends(a)
  BY <1>7 DEF Ends, Idle, Closed
<1>8. QED
  BY <1>1, <1>3, <1>4, <1>5, <1>6, <1>7 DEF Steps

\* What an actor's function and file are after a statement.
LEMMA StatementKeeps ==
  ASSUME Base, NEW a \in Actors, Statement(a), NEW b \in Actors
  PROVE  run'[b].op = run[b].op /\ run'[b].file = run[b].file
<1>1. Formed(run[b])
  BY DEF Base
<1>2. CASE b # a
  BY <1>2, StatementRun DEF Alone, Same
<1>3. CASE b = a
  BY <1>1, <1>3, StatementRun DEF Same, Advances, Copies, Fails, Formed
<1>4. QED
  BY <1>2, <1>3

\* Which file the functions of a file are for, and what state it is in.
FilesInv ==
  /\ DOMAIN files = Files
  /\ \A t \in Threads :
       /\ run[t].op = "open" => run[t].file \in Files /\ files[run[t].file] = "opening"
       /\ run[t].op = "call" => run[t].file \in Files /\ files[run[t].file] = "open"
       /\ run[t].op = "release" => run[t].file \in Files /\ files[run[t].file] = "closing"
       /\ run[t].op \in {"idle", "direct"} => run[t].file = none
  /\ \A t, u \in Threads :
       run[t].op \in {"open", "release"} /\ run[u].file = run[t].file => u = t

LEMMA InitFilesInv ==
  ASSUME Init
  PROVE  FilesInv
<1>1. Threads \subseteq Actors
  BY DEF Actors
<1>2. QED
  BY <1>1 DEF Init, FilesInv, Idle

LEMMA NextFilesInv ==
  ASSUME Base, FilesInv, [Next]_vars
  PROVE  FilesInv'
<1> Threads \subseteq Actors /\ DOMAIN run = Actors
  BY DEF Actors, Base
<1>1. CASE UNCHANGED vars
  BY <1>1 DEF vars, fileVars, FilesInv
<1>2. CASE \E a \in Actors : Statement(a)
  <2>1. PICK a \in Actors : Statement(a)
    BY <1>2
  <2>2. \A t \in Threads : run'[t].op = run[t].op /\ run'[t].file = run[t].file
    BY <2>1, StatementKeeps
  <2>3. files' = files
    BY <2>1, StatementFrame
  <2>4. QED
    BY <2>2, <2>3 DEF FilesInv
<1>3. CASE Insmod \/ Rmmod \/ InitReturns \/ ExitReturns \/ TimerExpires
  <2>1. \A t \in Threads : t # admin /\ t # softirq
    BY ActorAssumption
  <2>2. \A t \in Threads : run'[t] = run[t]
    BY <1>3, <2>1 DEF Insmod, Rmmod, InitReturns, ExitReturns, TimerExpires, Start, Done
  <2>3. files' = files
    BY <1>3 DEF Insmod, Rmmod, InitReturns, ExitReturns, TimerExpires, fileVars
  <2>4. QED
    BY <2>2, <2>3 DEF FilesInv
<1>4. ASSUME NEW k \in Keys, Press(k) PROVE FilesInv'
  <2>1. \A t \in Threads : run'[t] = run[t]
    BY <1>4, ActorAssumption DEF Press, Start
  <2>2. QED
    BY <1>4, <2>1 DEF FilesInv, Press, fileVars
<1>5. ASSUME NEW a \in Actors, Return(a) PROVE FilesInv'
  <2>1. files' = files
    BY <1>5 DEF Return, fileVars
  <2>2. \A t \in Threads : run'[t] = run[t] \/ run'[t] = Idle
    BY <1>5 DEF Return, Done
  <2>3. none \notin Files
    BY FileAssumption
  <2>4. QED
    BY <2>1, <2>2, <2>3 DEF FilesInv, Idle
<1> none \notin Files
  BY FileAssumption
<1>6. ASSUME NEW t \in Threads, NEW f \in Files, files[f] = "closed", run[t] = Idle,
             files' = [files EXCEPT ![f] = "opening"], NEW r, r.op = "open", r.file = f,
             run' = [run EXCEPT ![t] = r]
      PROVE  FilesInv'
  <2>1. \A u \in Threads : run[u].op # "idle" => u # t
    BY <1>6 DEF Idle
  <2>2. \A u \in Threads : u # t => run'[u] = run[u] /\ run[u].file # f
    <3>1. \A u \in Threads : run[u].op \in {"idle", "open", "release", "call", "direct"}
      BY ActorOps DEF Base
    <3>2. QED
      BY <1>6, <3>1 DEF FilesInv
  <2>3. run'[t] = r /\ \A u \in Threads : run'[u].file = f => u = t
    BY <1>6, <2>2
  <2>4. QED
    BY <1>6, <2>2, <2>3 DEF FilesInv
<1>7. ASSUME NEW t \in Threads, NEW f \in Files, files[f] = "open", run[t] = Idle,
             files' = files, NEW r, r.op = "call", r.file = f,
             run' = [run EXCEPT ![t] = r]
      PROVE  FilesInv'
  <2>1. \A u \in Threads : u # t => run'[u] = run[u]
    BY <1>7
  <2>2. run'[t] = r
    BY <1>7
  <2>3. \A u \in Threads : run[u].op \in {"open", "release"} => u # t /\ run[u].file # f
    BY <1>7 DEF FilesInv, Idle
  <2>4. QED
    BY <1>7, <2>1, <2>2, <2>3 DEF FilesInv
<1>8. ASSUME NEW t \in Threads, NEW f \in Files, files[f] = "open", run[t] = Idle,
             \A u \in Threads : run[u].file # f,
             files' = [files EXCEPT ![f] = "closing"], NEW r, r.op = "release", r.file = f,
             run' = [run EXCEPT ![t] = r]
      PROVE  FilesInv'
  <2>1. \A u \in Threads : u # t => run'[u] = run[u] /\ run[u].file # f
    BY <1>8
  <2>2. run'[t] = r /\ \A u \in Threads : run'[u].file = f => u = t
    BY <1>8, <2>1
  <2>3. QED
    BY <1>8, <2>1, <2>2 DEF FilesInv
<1>9. ASSUME NEW t \in Threads, run[t].op \in {"open", "release"}, NEW s,
             files' = [files EXCEPT ![run[t].file] = s],
             run' = [run EXCEPT ![t] = Idle]
      PROVE  FilesInv'
  <2>1. run[t].file \in Files
    BY <1>9 DEF FilesInv
  <2>2. \A u \in Threads : u # t => run'[u] = run[u] /\ run[u].file # run[t].file
    BY <1>9 DEF FilesInv
  <2>3. run'[t] = Idle
    BY <1>9
  <2>4. QED
    BY <1>9, <2>1, <2>2, <2>3 DEF FilesInv, Idle
<1>10. ASSUME NEW t \in Threads, DirectCall(t) PROVE FilesInv'
  <2>1. files' = files /\ run[t] = Idle
    BY <1>10 DEF DirectCall, Start, fileVars
  <2>2. \A u \in Threads : u # t => run'[u] = run[u]
    BY <1>10 DEF DirectCall, Start
  <2>3. run'[t].op = "direct" /\ run'[t].file = none
    BY <1>10 DEF DirectCall, Start
  <2>4. QED
    BY <2>1, <2>2, <2>3 DEF FilesInv, Idle
<1>11. ASSUME NEW t \in Threads, NEW f \in Files, Open(t, f) PROVE FilesInv'
  BY <1>6, <1>11 DEF Open, Start
<1>12. ASSUME NEW t \in Threads, NEW f \in Files, Call(t, f) PROVE FilesInv'
  BY <1>7, <1>12 DEF Call, Start, fileVars
<1>13. ASSUME NEW t \in Threads, NEW f \in Files, Close(t, f) PROVE FilesInv'
  BY <1>8, <1>13 DEF Close, Start
<1>14. ASSUME NEW t \in Threads, OpenReturns(t) \/ ReleaseReturns(t) PROVE FilesInv'
  BY <1>9, <1>14 DEF OpenReturns, ReleaseReturns, Done
<1>15. QED
  BY <1>1, <1>2, <1>3, <1>4, <1>5, <1>10, <1>11, <1>12, <1>13, <1>14 DEF Next

-----------------------------------------------------------------------------
(* Nothing leads into a module whose memory has been given back.           *)

\* The calls that open no way into the module and close none.
QuietCalls == AllCalls \ (NodeCalls \cup TimerCalls \cup IrqCalls)

RegisterLast == {p \o Do("register_chrdev") : p \in Simple(QuietCalls)}
UnregisterFirst ==
  {p \in Program(AllCalls) :
     p # <<>> /\ Head(p).call = "unregister_chrdev" /\ Tail(p) \in Program(QuietCalls)}

LEMMA LastOf ==
  ASSUME NEW S, NEW a \in S, NEW q \in Seq(S), q # <<>>
  PROVE  /\ q \o <<a>> # <<>> /\ Head(q \o <<a>>) = Head(q)
         /\ Tail(q \o <<a>>) = Tail(q) \o <<a>>
<1>1. q \o <<a>> # <<>> /\ Head(q \o <<a>>) = Head(q)
  OBVIOUS
<1>2. Tail(q \o <<a>>) = Tail(q) \o <<a>>
  OBVIOUS
<1>3. QED
  BY <1>1, <1>2

LEMMA RegisterLastSteps ==
  ASSUME NEW p \in RegisterLast
  PROVE  /\ p # <<>>
         /\ Tail(p) \in RegisterLast \/ Tail(p) = <<>>
         /\ Head(p).fail = <<>>
         /\ Head(p).call \in QuietCalls \/ (Head(p).call = "register_chrdev" /\ Tail(p)
              = <<>>)
<1> DEFINE S == Statements(QuietCalls, {<<>>})
           a == One("register_chrdev")
<1>1. PICK q \in Simple(QuietCalls) : p = q \o Do("register_chrdev")
  BY DEF RegisterLast
<1>2. Do("register_chrdev") = <<a>> /\ a.call = "register_chrdev" /\ a.fail = <<>>
  BY OneStatement
<1>3. q \in Seq(S)
  BY DEF Simple
<1>4. \A s \in S : s.call \in QuietCalls /\ s.fail = <<>>
  BY DEF Statements
<1> HIDE DEF S, a
<1>5. CASE q = <<>>
  <2>1. p = <<a>>
    BY <1>1, <1>2, <1>5
  <2>2. p # <<>> /\ Head(p) = a /\ Tail(p) = <<>>
    BY <2>1
  <2>3. QED
    BY <1>2, <2>2
<1>6. CASE q # <<>>
  <2>1. Head(q) \in S /\ Tail(q) \in Seq(S)
    BY <1>3, <1>6
  <2>2. q \in Seq(S \cup {a})
    BY <1>3, SeqMonotone
  <2>3. p # <<>> /\ Head(p) = Head(q) /\ Tail(p) = Tail(q) \o <<a>>
    <3>1. a \in S \cup {a}
      OBVIOUS
    <3>2. /\ q \o <<a>> # <<>> /\ Head(q \o <<a>>) = Head(q)
          /\ Tail(q \o <<a>>) = Tail(q) \o <<a>>
      BY <1>6, <2>2, <3>1, LastOf
    <3>3. p = q \o <<a>>
      BY <1>1, <1>2
    <3>4. QED
      BY <3>2, <3>3
  <2>4. Tail(p) \in RegisterLast
    BY <1>2, <2>1, <2>3 DEF RegisterLast, Simple, S
  <2>5. QED
    BY <1>4, <2>1, <2>3, <2>4
<1>7. QED
  BY <1>5, <1>6

LEMMA Unregisters ==
  /\ \A p \in Program(QuietCalls) : Do("unregister_chrdev") \o p \in UnregisterFirst
  /\ \A p, q \in Program(AllCalls) :
       (Do("unregister_chrdev") \o p) \o q = Do("unregister_chrdev") \o (p \o q)
<1>1. "unregister_chrdev" \in AllCalls /\ QuietCalls \subseteq AllCalls
  BY DEF AllCalls, NodeCalls, QuietCalls
<1>2. Program(QuietCalls) \subseteq Program(AllCalls)
  BY <1>1, MonotoneIn
<1>3. ASSUME NEW p \in Program(QuietCalls)
      PROVE  Do("unregister_chrdev") \o p \in UnregisterFirst
  <2>1. p \in Program(AllCalls)
    BY <1>2
  <2>2. One("unregister_chrdev").call = "unregister_chrdev"
    BY OneStatement
  <2>3. /\ Do("unregister_chrdev") \o p \in Program(AllCalls)
        /\ Do("unregister_chrdev") \o p # <<>>
        /\ Tail(Do("unregister_chrdev") \o p) = p
        /\ Head(Do("unregister_chrdev") \o p) = One("unregister_chrdev")
    BY <1>1, <2>1, FirstStatement
  <2>4. QED
    BY <2>2, <2>3 DEF UnregisterFirst
<1>4. Do("unregister_chrdev") \in Program(AllCalls)
  BY <1>1, Notation
<1>5. QED
  BY <1>3, <1>4, ConcatAssociates

LEMMA DeviceVersions ==
  ASSUME NEW d \in NothingBesidesDevice
  PROVE  /\ d \in DOMAIN Driver
         /\ Users(Driver[d], QuietCalls)
         /\ Driver[d].isr = <<>>
         /\ \/ Driver[d].init \in Program(QuietCalls)
                 /\ Driver[d].exit \in Program(QuietCalls)
            \/ Driver[d].init \in RegisterLast /\ Driver[d].exit \in UnregisterFirst
<1> DEFINE C == QuietCalls
<1> USE DEF QuietCalls, AllCalls, LineCalls, IrqCalls, NodeCalls, TimerCalls, FileCalls,
            MutexCalls, KeyCalls, RequestCalls, OnceCalls
<1>1. \A D, E : E \subseteq D => Program(E) \subseteq Program(D)
  BY MonotoneIn
<1>2. ASSUME NEW v, NEW D \in SUBSET C, Users(v, D)
      PROVE  Users(v, C)
  BY <1>1, <1>2 DEF Users
<1>3. Users(P122, C) /\ Users(P122Param, C) /\ Users(P106, C) /\ Users(Calldev, C)
  BY <1>2, P122In, P122ParamIs, P106In, CalldevIn
<1>4. Users(P238, C)
  BY <1>2, P238In
<1>5. Users(P306, C)
  BY <1>2, P306In
<1>6. Users(P306Ledkey, C)
  BY <1>2, P306LedkeyIn
<1>7. /\ P122.init \in Program(C) /\ P122.exit \in Program(C)
      /\ P122Param.init \in Program(C) /\ P122Param.exit \in Program(C)
      /\ P106.init \in Program(C) /\ P106.exit \in Program(C)
  BY <1>1, P122In, P122ParamIs, P106In
<1>9. Do("register_chrdev") \in RegisterLast /\ Do("unregister_chrdev") \in UnregisterFirst
  <2>1. <<>> \in Simple(C) /\ <<>> \in Program(C)
    BY Notation
  <2>2. \A call : Do(call) = <<>> \o Do(call) /\ Do(call) = Do(call) \o <<>>
    BY DEF Do
  <2>3. QED
    BY Unregisters, <2>1, <2>2 DEF RegisterLast
<1>10. P238.init \in RegisterLast /\ P238.exit \in UnregisterFirst
  <2>1. /\ P238.init = (OneLoopLines.ledInit \o OneLoopLines.keyInit) \o Do("register_chrdev")
        /\ P238.exit = (Do("unregister_chrdev") \o OneLoopLines.ledFree) \o OneLoopLines.keyFree
    BY DEF P238, P238Calls, P238Load, P238Gpio, Version, Plain
  <2>2. OneLoopLines.ledInit \o OneLoopLines.keyInit \in Simple(C)
    BY Notation, SharedPrograms
  <2>3. /\ OneLoopLines.ledFree \in Program(C) /\ OneLoopLines.keyFree \in Program(C)
        /\ OneLoopLines.ledFree \o OneLoopLines.keyFree \in Program(C)
    BY Notation, SharedPrograms
  <2>4. P238.exit = Do("unregister_chrdev") \o (OneLoopLines.ledFree \o OneLoopLines.keyFree)
    <3>1. OneLoopLines.ledFree \in Program(AllCalls)
            /\ OneLoopLines.keyFree \in Program(AllCalls)
      BY <1>1, <2>3
    <3>2. QED
      BY <2>1, <3>1, Unregisters
  <2>5. QED
    BY Unregisters, <2>1, <2>2, <2>3, <2>4 DEF RegisterLast
<1>11. /\ Calldev.init = Do("register_chrdev") /\ Calldev.exit = Do("unregister_chrdev")
       /\ P306.init = Do("register_chrdev") /\ P306.exit = Do("unregister_chrdev")
       /\ P306Ledkey.init = Do("register_chrdev") /\ P306Ledkey.exit = Do("unregister_chrdev")
  BY DEF Calldev, CalldevCalls, CalldevLoad, P306, P306Calls, P306Load, P306Ledkey,
         P306LedkeyCalls, P306LedkeyLoad, Version, Plain
<1>12. P122.isr = <<>> /\ P122Param.isr = <<>> /\ P106.isr = <<>> /\ Calldev.isr = <<>>
       /\ P238.isr = <<>> /\ P306.isr = <<>> /\ P306Ledkey.isr = <<>>
  BY P122In, P122ParamIs, P106In, CalldevIn, P238In, P306In, P306LedkeyIn
<1> HIDE DEF C
<1>13. QED
  BY <1>3, <1>4, <1>5, <1>6, <1>7, <1>9, <1>10, <1>11, <1>12, DriverIs
  DEF NothingBesidesDevice, C

\* Statements of such programs lead nobody into the module.
LEMMA QuietStatement ==
  ASSUME NEW a \in Actors, Statement(a), run[a].todo # <<>> => Now(a).call \in QuietCalls
  PROVE  UNCHANGED <<nodes, armed, handler>>
<1>1. \/ UNCHANGED nodes
      \/ RegisterChrdev(a) \/ UnregisterChrdev(a) \/ ProvideCall(a) \/ RemoveCall(a)
  BY StatementFrame
<1>2. UNCHANGED armed \/ SetTimer(a)
  BY StatementFrame
<1>3. UNCHANGED <<irqKey, handler>> \/ GpioToIrq(a) \/ RequestIrq(a) \/ FreeIrq(a)
  BY StatementFrame
<1>4. QED
  BY <1>1, <1>2, <1>3
  DEF RegisterChrdev, UnregisterChrdev, ProvideCall, RemoveCall, SetTimer, GpioToIrq,
      RequestIrq, FreeIrq, At, QuietCalls, NodeCalls, TimerCalls, IrqCalls

\* Where admin is, and which way there is into the module.
Loading ==
  \/ /\ run[admin].todo \in RegisterLast /\ run[admin].ok /\ nodes = {}
     /\ Driver[drv].exit \in UnregisterFirst
  \/ run[admin].todo \in Program(QuietCalls) /\ nodes = {}
  \/ run[admin].todo = <<>> /\ run[admin].ok /\ nodes \subseteq {"chrdev"}

Unloading ==
  \/ run[admin].todo \in UnregisterFirst
  \/ run[admin].todo \in Program(QuietCalls) /\ nodes = {}

WayInv ==
  /\ Base
  /\ ~armed /\ \A k \in Keys : handler[k] = none
  /\ nodes \subseteq {"chrdev"}
  /\ \A a \in Actors \ {admin} : run[a].todo \in Program(QuietCalls)
  /\ mod = "out" => nodes = {}
  /\ Driver[drv].exit \notin UnregisterFirst => nodes = {}
  /\ mod = "loading" => Loading
  /\ mod = "unloading" => Unloading

LEMMA InitWayInv ==
  ASSUME Init
  PROVE  WayInv
<1>1. Base
  BY InitBase
<1>2. \A a \in Actors : run[a].todo \in Program(QuietCalls)
  BY Notation DEF Init, Idle
<1>3. QED
  BY <1>1, <1>2 DEF Init, WayInv

\* Steps of init and exit.
LEMMA AdminWay ==
  ASSUME WayInv, Statement(admin)
  PROVE  /\ ~armed' /\ \A k \in Keys : handler'[k] = none
         /\ nodes' \subseteq {"chrdev"}
         /\ Driver[drv].exit \notin UnregisterFirst => nodes' = {}
         /\ mod = "loading" => Loading'
         /\ mod = "unloading" => Unloading'
<1> DEFINE a == admin
<1> Base /\ a \in Actors /\ Statement(a) /\ drv' = drv
  BY StatementFrame DEF WayInv, Actors
<1>1. Formed(run[a]) /\ (Same(a) \/ Advances(a) \/ Copies(a) \/ Fails(a))
  BY StatementRun DEF Base
<1>2. run[a].todo # <<>>
  BY NamedCalls DEF Base
<1>3. mod \in {"loading", "unloading"}
  <2>1. run[a].op \in {"idle", "init", "exit"} /\ (run[a].op = "idle" => run[a] = Idle)
    BY ActorOps DEF Base
  <2>2. QED
    BY <1>2, <2>1 DEF Base, Idle
<1> HIDE DEF a
<1>4. CASE run[a].todo \in Program(QuietCalls) /\ nodes = {}
  <2>1. Now(a).call \in QuietCalls
    BY <1>2, <1>4, ProgramSteps DEF Now
  <2>2. UNCHANGED <<nodes, armed, handler>>
    BY <2>1, QuietStatement
  <2>3. Tail(run[a].todo) \in Program(QuietCalls) /\ Now(a).fail \in Program(QuietCalls)
    BY <1>2, <1>4, ProgramSteps DEF Now
  <2>4. run'[a].todo \in Program(QuietCalls)
    BY <1>1, <1>4, <2>3 DEF Same, Advances, Copies, Fails, Formed
  <2>5. QED
    BY <1>4, <2>2, <2>4 DEF WayInv, Loading, Unloading, a
<1>5. CASE mod = "loading" /\ run[a].todo \in RegisterLast /\ run[a].ok /\ nodes = {}
           /\ Driver[drv].exit \in UnregisterFirst
  <2>1. <<>> \in Program(QuietCalls)
    BY Notation
  <2>2. /\ Tail(run[a].todo) \in RegisterLast \/ Tail(run[a].todo) = <<>>
        /\ Now(a).fail = <<>>
        /\ \/ Now(a).call \in QuietCalls
           \/ Now(a).call = "register_chrdev" /\ Tail(run[a].todo) = <<>>
    BY <1>5, RegisterLastSteps DEF Now
  <2>3. \/ run'[a] = run[a]
        \/ run'[a].todo = Tail(run[a].todo) /\ run'[a].ok
        \/ run'[a].todo = <<>>
    BY <1>1, <1>5, <2>2 DEF Same, Advances, Copies, Fails, Formed
  <2>4. CASE Now(a).call \in QuietCalls
    <3>1. UNCHANGED <<nodes, armed, handler>>
      BY <2>4, QuietStatement
    <3>2. QED
      BY <1>5, <2>1, <2>2, <2>3, <3>1 DEF WayInv, Loading, a
  <2>5. CASE Now(a).call = "register_chrdev" /\ Tail(run[a].todo) = <<>>
    <3>1. RegisterChrdev(a)
      BY <2>5, <1>2 DEF At, Statement, GpioRequest, GpioDirection, GpioFree, TouchLines,
         GpioToIrq, RequestIrq, FreeIrq, UnregisterChrdev, ProvideCall, RemoveCall, SetTimer,
         TryModuleGet, ModulePut, Kmalloc_, Kfree, Test, SetFlag, Mutex, StoreKey, CopyKey,
         ClearKey, WaitEvent, Signal, WakeUp, Base
    <3>2. nodes' \subseteq {"chrdev"} /\ armed' = armed /\ handler' = handler
      BY <1>5, <3>1 DEF RegisterChrdev, irqVars
    <3>3. nodes' = {} \/ run'[a] = [run[a] EXCEPT !.todo = <<>>]
      BY <1>5, <2>5, <3>1 DEF RegisterChrdev, Accepted, Succeed, Base
    <3>4. run'[a].todo = <<>> /\ (nodes' = {} \/ run'[a].ok)
      <4>1. run'[a].todo = <<>>
        <5>1. Succeed(a) \/ Fail(a)
          BY <3>1 DEF RegisterChrdev, Accepted, Refused
        <5>2. DOMAIN run = Actors
          BY DEF Base
        <5>3. CASE Succeed(a)
          BY <1>1, <2>5, <5>2, <5>3 DEF Succeed, Formed
        <5>4. CASE Fail(a)
          BY <1>1, <2>2, <2>5, <5>2, <5>4 DEF Fail, Formed
        <5>5. QED
          BY <5>1, <5>3, <5>4
      <4>2. QED
        BY <1>1, <1>5, <3>3, <4>1 DEF Formed
    <3>5. QED
      BY <1>5, <2>1, <3>2, <3>4 DEF WayInv, Loading, a
  <2>6. QED
    BY <2>2, <2>4, <2>5
<1>6. CASE mod = "unloading" /\ run[a].todo \in UnregisterFirst
  <2>1. Now(a).call = "unregister_chrdev" /\ Tail(run[a].todo) \in Program(QuietCalls)
    BY <1>6 DEF UnregisterFirst, Now
  <2>2. UnregisterChrdev(a)
    BY <2>1, <1>2 DEF At, Statement, GpioRequest, GpioDirection, GpioFree, TouchLines,
         GpioToIrq, RequestIrq, FreeIrq, RegisterChrdev, ProvideCall, RemoveCall, SetTimer,
         TryModuleGet, ModulePut, Kmalloc_, Kfree, Test, SetFlag, Mutex, StoreKey, CopyKey,
         ClearKey, WaitEvent, Signal, WakeUp, Base
  <2>3. nodes' = {} /\ armed' = armed /\ handler' = handler
    BY <2>2 DEF UnregisterChrdev, irqVars, WayInv
  <2>4. run'[a].todo = Tail(run[a].todo)
    BY <1>1, <2>2 DEF UnregisterChrdev, Succeed, Formed, Base
  <2>5. QED
    BY <1>6, <2>1, <2>3, <2>4 DEF WayInv, Unloading, a
<1>7. QED
  BY <1>2, <1>3, <1>4, <1>5, <1>6 DEF WayInv, Loading, Unloading, a

LEMMA NextWayInv ==
  ASSUME drv \in NothingBesidesDevice, WayInv, [Next]_vars
  PROVE  WayInv'
<1> Base /\ drv \in DOMAIN Driver /\ admin \in Actors
  BY DeviceVersions DEF WayInv, Actors
<1>1. CASE UNCHANGED vars
  BY <1>1 DEF vars, modVars, keyVars, irqVars, WayInv, Base, Now, Loading, Unloading
<1> SUFFICES ASSUME Next PROVE WayInv'
  BY <1>1
<1>2. Base' /\ drv' = drv
  BY BeginsKnown, NextBase, StatementFrame, OtherFrame
<1>3. ASSUME NEW b \in Actors \ {admin}
      PROVE  run'[b].todo \in Program(QuietCalls)
  <2> DEFINE S == Program(QuietCalls)
  <2>1. Closed(S) /\ run[b].todo \in S
    BY ProgramClosed DEF WayInv
  <2>2. \A op \in OpsOf(b) \ {"idle"} : \A p : Begins(drv, op, p) => p \in S
    <3>1. OpsOf(b) \cap {"init", "exit"} = {}
      BY ActorOps DEF Actors
    <3>2. <<>> \in S
      BY Notation
    <3>3. QED
      BY <3>1, <3>2, DeviceVersions DEF Begins, Users
  <2> HIDE DEF S
  <2>3. run'[b].todo \in S
    BY <2>1, <2>2, StaysIn
  <2>4. QED
    BY <2>3 DEF S
<1>4. ASSUME NEW b \in Actors \ {admin}, Statement(b)
      PROVE  WayInv'
  <2>1. run[b].todo # <<>> => Now(b).call \in QuietCalls
    BY ProgramSteps DEF Now, WayInv
  <2>2. UNCHANGED <<nodes, armed, handler>>
    BY <1>4, <2>1, QuietStatement
  <2>3. run'[admin] = run[admin] /\ mod' = mod
    BY <1>4, StatementRun, StatementFrame DEF Alone, Same
  <2>4. QED
    BY <1>2, <1>3, <2>2, <2>3 DEF WayInv, Loading, Unloading
<1>5. CASE Statement(admin)
  <2>1. mod' = mod /\ mod # "out"
    <3>1. mod' = mod
      BY <1>5, StatementFrame
    <3>2. run[admin].todo # <<>>
      BY <1>5, NamedCalls DEF Base
    <3>3. run[admin].op # "idle" /\ run[admin].op \in {"idle", "init", "exit"}
      BY <3>2, ActorOps DEF Base, Idle
    <3>4. QED
      BY <3>1, <3>3 DEF Base
  <2>2. QED
    BY <1>2, <1>3, <1>5, <2>1, AdminWay DEF WayInv
<1>6. CASE \A b \in Actors : ~Statement(b)
  <2>1. nodes' = nodes /\ handler' = handler /\ (armed' = armed \/ ~armed')
    BY <1>6, OtherFrame DEF TimerExpires
  <2>2. PICK b \in Actors : Alone(b) /\ (Starts(b) \/ Ends(b))
    BY <1>6, OtherRun
  <2>3. CASE mod' = mod /\ run'[admin].op = run[admin].op
    <3>1. b # admin
      BY <2>2, <2>3 DEF Starts, Ends, Idle
    <3>2. run'[admin] = run[admin]
      BY <2>2, <3>1 DEF Alone, Same
    <3>3. QED
      BY <1>2, <1>3, <2>1, <2>3, <3>2 DEF WayInv, Loading, Unloading
  <2>4. CASE Insmod /\ mod = "out" /\ mod' = "loading"
    <3>1. run'[admin].todo = Driver[drv].init /\ run'[admin].ok
      BY <2>4 DEF Insmod, Start, Base
    <3>2. Loading'
      BY <1>2, <2>1, <2>4, <3>1, DeviceVersions DEF Loading, WayInv
    <3>3. QED
      BY <1>2, <1>3, <2>1, <2>4, <3>2 DEF WayInv
  <2>5. CASE Rmmod /\ mod = "live" /\ mod' = "unloading"
    <3>1. run'[admin].todo = Driver[drv].exit
      BY <2>5 DEF Rmmod, Start, Base
    <3>2. Unloading'
      BY <1>2, <2>1, <3>1, DeviceVersions DEF Unloading, WayInv
    <3>3. QED
      BY <1>2, <1>3, <2>1, <2>5, <3>2 DEF WayInv
  <2>6. CASE InitReturns /\ mod = "loading" /\ mod' = IF run[admin].ok THEN "live" ELSE "out"
    <3>1. run[admin].todo = <<>>
      BY <2>6 DEF InitReturns, Done
    <3>2. ~run[admin].ok => nodes = {}
      BY <2>6, <3>1 DEF WayInv, Loading
    <3>3. QED
      BY <1>2, <1>3, <2>1, <2>6, <3>2 DEF WayInv
  <2>7. CASE ExitReturns /\ mod = "unloading" /\ mod' = "out"
    <3>1. run[admin].todo = <<>>
      BY <2>7 DEF ExitReturns, Done
    <3>2. nodes = {}
      BY <2>7, <3>1 DEF WayInv, Unloading, UnregisterFirst
    <3>3. QED
      BY <1>2, <1>3, <2>1, <2>7, <3>2 DEF WayInv
  <2>8. QED
    BY <2>3, <2>4, <2>5, <2>6, <2>7, ModStep
<1>7. QED
  BY <1>4, <1>5, <1>6

\* However a load ends, of the versions in which a device to open is all there
\* is, the kernel keeps no node, handler or timer of a module that has gone.
THEOREM NothingLeadsIntoFreedModule == Spec => []NoWayIntoFreedModule
<1> DEFINE I == drv \in NothingBesidesDevice => WayInv
<1>1. Init => I
  BY InitWayInv
<1>2. I /\ [Next]_vars => I'
  <2> SUFFICES ASSUME I, [Next]_vars PROVE I'
    OBVIOUS
  <2>1. drv' = drv
    BY StatementFrame, OtherFrame DEF vars, modVars
  <2>2. QED
    BY <2>1, NextWayInv
<1>3. I => NoWayIntoFreedModule
  BY DEF NoWayIntoFreedModule, WayInv, NothingDangles
<1>4. QED
  BY <1>1, <1>2, <1>3, PTL DEF Spec

-----------------------------------------------------------------------------
(* What init asks for.                                                     *)

\* The program makes this call for the line and looks at its result.
Asks(p, call, line) ==
  \E n \in DOMAIN p : p[n].call = call /\ line \in p[n].lines /\ p[n].checked
Directs(p, line) ==
  Asks(p, "gpio_direction_output", line) \/ Asks(p, "gpio_direction_input", line)

LEMMA AsksTail ==
  ASSUME NEW C, NEW p \in Program(C), p # <<>>, NEW call, NEW line, Asks(p, call, line)
  PROVE  \/ Head(p).call = call /\ line \in Head(p).lines /\ Head(p).checked
         \/ Asks(Tail(p), call, line)
<1> DEFINE S == Statements(C, Nested(C))
<1>1. p \in Seq(S)
  BY DEF Program
<1>2. PICK n \in DOMAIN p : p[n].call = call /\ line \in p[n].lines /\ p[n].checked
  BY DEF Asks
<1> HIDE DEF S
<1>3. CASE n = 1
  BY <1>1, <1>2, <1>3
<1>4. CASE n # 1
  <2>1. n - 1 \in DOMAIN Tail(p) /\ Tail(p)[n - 1] = p[n]
    BY <1>1, <1>2, <1>4
  <2>2. QED
    BY <1>2, <2>1 DEF Asks
<1>5. QED
  BY <1>3, <1>4

LEMMA AsksConcat ==
  ASSUME NEW S, NEW p \in Seq(S), NEW q \in Seq(S), NEW call, NEW line,
         Asks(p, call, line) \/ Asks(q, call, line)
  PROVE  Asks(p \o q, call, line)
<1>1. CASE Asks(p, call, line)
  <2>1. PICK n \in DOMAIN p : p[n].call = call /\ line \in p[n].lines /\ p[n].checked
    BY <1>1 DEF Asks
  <2>2. n \in DOMAIN (p \o q) /\ (p \o q)[n] = p[n]
    OBVIOUS
  <2>3. QED
    BY <2>1, <2>2 DEF Asks
<1>2. CASE Asks(q, call, line)
  <2>1. PICK n \in DOMAIN q : q[n].call = call /\ line \in q[n].lines /\ q[n].checked
    BY <1>2 DEF Asks
  <2>2. Len(p) + n \in DOMAIN (p \o q) /\ (p \o q)[Len(p) + n] = q[n]
    OBVIOUS
  <2>3. QED
    BY <2>1, <2>2 DEF Asks
<1>3. QED
  BY <1>1, <1>2

LEMMA AsksEach ==
  ASSUME NEW table \in Seq(Lines), NEW n \in 1..Len(table), NEW c, NEW d
  PROVE  /\ Asks(ForEach(table, <<c>>), c, table[n])
         /\ Asks(ForEach(table, <<c, d>>), c, table[n])
         /\ Asks(ForEach(table, <<c, d>>), d, table[n])
<1>1. \A call : On({table[n]}, call).call = call /\ table[n] \in On({table[n]}, call).lines
                /\ On({table[n]}, call).checked
  BY DEF On
<1>2. Asks(ForEach(table, <<c>>), c, table[n])
  <2>1. n \in DOMAIN ForEach(table, <<c>>) /\ ForEach(table, <<c>>)[n] = On({table[n]}, c)
    BY ForEachOne
  <2>2. QED
    BY <1>1, <2>1 DEF Asks
<1>3. \A m \in 1..(Len(table) * 2) :
        /\ m \in DOMAIN ForEach(table, <<c, d>>)
        /\ ForEach(table, <<c, d>>)[m]
             = On({table[1 + ((m - 1) \div 2)]}, <<c, d>>[1 + ((m - 1) % 2)])
  BY DEF ForEach
<1>4. <<c, d>>[1] = c /\ <<c, d>>[2] = d
  OBVIOUS
<1>5. /\ n * 2 - 1 \in 1..(Len(table) * 2) /\ n * 2 \in 1..(Len(table) * 2)
      /\ 1 + (((n * 2 - 1) - 1) \div 2) = n /\ 1 + (((n * 2 - 1) - 1) % 2) = 1
      /\ 1 + ((n * 2 - 1) \div 2) = n /\ 1 + ((n * 2 - 1) % 2) = 2
  OBVIOUS
<1>6. /\ ForEach(table, <<c, d>>)[n * 2 - 1] = On({table[n]}, c)
      /\ ForEach(table, <<c, d>>)[n * 2] = On({table[n]}, d)
  BY <1>3, <1>4, <1>5
<1>7. n * 2 - 1 \in DOMAIN ForEach(table, <<c, d>>) /\ n * 2 \in DOMAIN ForEach(table, <<c,
        d>>)
  BY <1>3, <1>5
<1>8. Asks(ForEach(table, <<c, d>>), c, table[n])
  BY <1>1, <1>6, <1>7, Zenon DEF Asks
<1>9. Asks(ForEach(table, <<c, d>>), d, table[n])
  BY <1>1, <1>6, <1>7, Zenon DEF Asks
<1>10. QED
  BY <1>2, <1>8, <1>9

LEMMA AsksOnFailure ==
  ASSUME NEW C, NEW p \in Program(C), NEW cleanup, NEW call, NEW line, Asks(p, call, line)
  PROVE  Asks(OnFailure(p, cleanup), call, line)
<1>1. PICK n \in DOMAIN p : p[n].call = call /\ line \in p[n].lines /\ p[n].checked
  BY DEF Asks
<1>2. p[n] \in Statements(C, Nested(C))
  BY DEF Program
<1>3. n \in DOMAIN OnFailure(p, cleanup)
      /\ OnFailure(p, cleanup)[n] = [p[n] EXCEPT !.fail = cleanup]
  BY DEF OnFailure
<1>4. QED
  BY <1>1, <1>2, <1>3 DEF Asks, Statements

\* What init asks for: the LEDs, the keys, the handlers of the keys.
AsksLeds(p) == \A l \in Leds : Asks(p, "gpio_request", l) /\ Directs(p, l)
AsksKeys(p) == \A l \in Keys : Asks(p, "gpio_request", l) /\ Directs(p, l)
AsksIrqs(p) == \A k \in Keys : Asks(p, "request_irq", k)

LEMMA AsksMore ==
  ASSUME NEW p \in Program(AllCalls), NEW q \in Program(AllCalls)
  PROVE  /\ p \o q \in Program(AllCalls)
         /\ AsksLeds(p) \/ AsksLeds(q) => AsksLeds(p \o q)
         /\ AsksKeys(p) \/ AsksKeys(q) => AsksKeys(p \o q)
         /\ AsksIrqs(p) \/ AsksIrqs(q) => AsksIrqs(p \o q)
<1> DEFINE S == Statements(AllCalls, Nested(AllCalls))
<1>1. p \in Seq(S) /\ q \in Seq(S)
  BY DEF Program
<1> HIDE DEF S
<1>2. \A call, line : Asks(p, call, line) \/ Asks(q, call, line) => Asks(p \o q, call, line)
  BY <1>1, AsksConcat
<1>3. p \o q \in Program(AllCalls)
  BY Notation
<1>4. QED
  BY <1>2, <1>3, Zenon DEF AsksLeds, AsksKeys, AsksIrqs, Directs

LEMMA LineInits ==
  /\ {TwoLoopLines.ledInit, OneLoopLines.ledInit, TwoLoopLines.keyInit, OneLoopLines.keyInit,
      IrqLines.toIrq, Unchecked(IrqLines.toIrq), ForEach(gpioKey, <<"request_irq">>),
      CallThen(ForEach(gpioKey, <<"request_irq">>), Do("provide_call"))}
       \subseteq Program(AllCalls)
  /\ \A call \in AllCalls : Do(call) \in Program(AllCalls)
  /\ \A call \in AllCalls : Unchecked(Do(call)) \in Program(AllCalls)
  /\ Touch(Leds) \in Program(AllCalls) /\ Touch(Keys) \in Program(AllCalls)
  /\ AsksLeds(TwoLoopLines.ledInit) /\ AsksLeds(OneLoopLines.ledInit)
  /\ AsksKeys(TwoLoopLines.keyInit) /\ AsksKeys(OneLoopLines.keyInit)
  /\ AsksIrqs(ForEach(gpioKey, <<"request_irq">>))
  /\ AsksIrqs(CallThen(ForEach(gpioKey, <<"request_irq">>), Do("provide_call")))
<1> DEFINE C == AllCalls
<1>1. RequestCalls \cup {"touch", "gpio_to_irq", "request_irq", "provide_call"} \subseteq C
  BY DEF AllCalls, LineCalls, IrqCalls, NodeCalls, RequestCalls
<1> HIDE DEF C
<1>2. /\ \A call \in C : Do(call) \in Simple(C) /\ Unchecked(Do(call)) \in Simple(C)
      /\ Touch(Leds) \in Simple(C) /\ Touch(Keys) \in Simple(C)
      /\ TwoLoopLines.ledInit \in Simple(C) /\ OneLoopLines.ledInit \in Simple(C)
      /\ TwoLoopLines.keyInit \in Simple(C) /\ OneLoopLines.keyInit \in Simple(C)
      /\ IrqLines.toIrq \in Simple(C) /\ Unchecked(IrqLines.toIrq) \in Simple(C)
      /\ ForEach(gpioKey, <<"request_irq">>) \in Simple(C)
  BY <1>1, Notation, SharedPrograms
<1>3. Simple(C) \subseteq Program(C)
  BY Notation
<1>4. CallThen(ForEach(gpioKey, <<"request_irq">>), Do("provide_call")) \in Program(C)
  BY <1>1, <1>2, Notation DEF CallThen
<1>5. \A l \in Leds : \E n \in 1..Len(gpioLed) : l = gpioLed[n]
  BY TablesIn DEF Leds, gpioLed
<1>6. \A l \in Keys : \E n \in 1..Len(gpioKey) : l = gpioKey[n]
  BY TablesIn DEF Keys, gpioKey
<1>7. \A c, d : \A l \in Leds :
        /\ Asks(ForEach(gpioLed, <<c>>), c, l)
        /\ Asks(ForEach(gpioLed, <<c, d>>), c, l) /\ Asks(ForEach(gpioLed, <<c, d>>), d, l)
  BY <1>5, TablesIn, AsksEach
<1>8. \A c, d : \A l \in Keys :
        /\ Asks(ForEach(gpioKey, <<c>>), c, l)
        /\ Asks(ForEach(gpioKey, <<c, d>>), c, l) /\ Asks(ForEach(gpioKey, <<c, d>>), d, l)
  BY <1>6, TablesIn, AsksEach
<1>9. AsksLeds(OneLoopLines.ledInit) /\ AsksKeys(OneLoopLines.keyInit)
  BY <1>7, <1>8 DEF OneLoopLines, RequestAndDirect, AsksLeds, AsksKeys, Directs
<1>10. \A call, other, l :
         /\ Asks(ForEach(gpioLed, <<call>>), call, l) /\ call \in C /\ other \in C =>
              /\ Asks(ForEach(gpioLed, <<call>>) \o ForEach(gpioLed, <<other>>), call, l)
              /\ Asks(ForEach(gpioLed, <<other>>) \o ForEach(gpioLed, <<call>>), call, l)
         /\ Asks(ForEach(gpioKey, <<call>>), call, l) /\ call \in C /\ other \in C =>
              /\ Asks(ForEach(gpioKey, <<call>>) \o ForEach(gpioKey, <<other>>), call, l)
              /\ Asks(ForEach(gpioKey, <<other>>) \o ForEach(gpioKey, <<call>>), call, l)
  <2> DEFINE S == Statements(C, {<<>>})
  <2>1. \A call \in C : ForEach(gpioLed, <<call>>) \in Seq(S) /\ ForEach(gpioKey,
          <<call>>) \in Seq(S)
    BY Notation DEF Simple
  <2> HIDE DEF S
  <2>2. QED
    BY <2>1, AsksConcat
<1>11. AsksLeds(TwoLoopLines.ledInit) /\ AsksKeys(TwoLoopLines.keyInit)
  <2>1. {"gpio_request", "gpio_direction_output", "gpio_direction_input"} \subseteq C
    BY <1>1 DEF RequestCalls
  <2>2. \A l \in Leds :
          /\ Asks(TwoLoopLines.ledInit, "gpio_request", l)
          /\ Asks(TwoLoopLines.ledInit, "gpio_direction_output", l)
    BY <1>7, <1>10, <2>1 DEF TwoLoopLines, RequestThenDirect
  <2>3. \A l \in Keys :
          /\ Asks(TwoLoopLines.keyInit, "gpio_request", l)
          /\ Asks(TwoLoopLines.keyInit, "gpio_direction_input", l)
    BY <1>8, <1>10, <2>1 DEF TwoLoopLines, RequestThenDirect
  <2>4. QED
    BY <2>2, <2>3 DEF AsksLeds, AsksKeys, Directs
<1>12. AsksIrqs(ForEach(gpioKey, <<"request_irq">>))
  BY <1>8 DEF AsksIrqs
<1>13. AsksIrqs(CallThen(ForEach(gpioKey, <<"request_irq">>), Do("provide_call")))
  <2> DEFINE p == ForEach(gpioKey, <<"request_irq">>)
             q == Do("provide_call")
  <2>1. p \in Program(C) /\ q \in Nested(C) /\ q \in Program(C)
    BY <1>1, <1>2, <1>3, Notation
  <2>2. \A k \in Keys : Asks(OnFailure(p, q), "request_irq", k)
    BY <1>12, <2>1, AsksOnFailure DEF AsksIrqs
  <2>3. OnFailure(p, q) \in Program(C)
    BY <2>1, Notation
  <2>4. AsksIrqs(OnFailure(p, q) \o q)
    BY <2>1, <2>2, <2>3, AsksMore DEF AsksIrqs, C
  <2>5. QED
    BY <2>4 DEF CallThen
<1>14. QED
  BY <1>2, <1>3, <1>4, <1>9, <1>11, <1>12, <1>13 DEF C

\* The init functions of LiveComplete ask for everything.
LEMMA InitAsks ==
  /\ \A d \in HoldBoth \cup HandleKeys : AsksLeds(Driver[d].init) /\ AsksKeys(Driver[d].init)
  /\ \A d \in HandleKeys : AsksIrqs(Driver[d].init)
<1> DEFINE All(p) == p \in Program(AllCalls) /\ AsksLeds(p) /\ AsksKeys(p)
<1>a. {"touch", "register_chrdev", "mutex_init", "add_timer",
        "provide_call"} \subseteq AllCalls
  BY DEF AllCalls, LineCalls, NodeCalls, MutexCalls, TimerCalls
<1>b. /\ TimerHjyGpio.ledInit = TwoLoopLines.ledInit /\ TimerHjyGpio.keyInit
           = OneLoopLines.keyInit
      /\ Timer0625Gpio.ledInit = TwoLoopLines.ledInit /\ Timer0625Gpio.keyInit
           = OneLoopLines.keyInit
  BY DEF TimerHjyGpio, Timer0625Gpio, TwoLoopLines, OneLoopLines
<1>1. /\ All(P122.init)
      /\ All(P122Param.init)
  <2> DEFINE p == TwoLoopLines.ledInit \o TwoLoopLines.keyInit \o Touch(Keys) \o Touch(Leds)
  <2>1. P122.init = p /\ P122Param.init = p
    BY DEF Version, Plain, P122, P122Load, P122Gpio, P122Param, P122ParamLoad, P122ParamGpio
  <2>2. All(p)
    BY <1>a, LineInits, AsksMore
  <2> HIDE DEF p
  <2>3. QED
    BY <2>1, <2>2
<1>2. /\ All(Backup.init)
      /\ All(P184.init)
      /\ All(P184b0620.init)
      /\ All(P184Ksh.init)
      /\ All(CalldevLedkey.init)
      /\ All(P270.init)
  <2> DEFINE p == Do("register_chrdev") \o TwoLoopLines.ledInit \o TwoLoopLines.keyInit
  <2>1. Backup.init = p /\ P184.init = p /\ P184b0620.init = p /\ P184Ksh.init = p
          /\ CalldevLedkey.init = p /\ P270.init = p
    BY DEF Version, Plain, Backup, BackupLoad, BackupGpio, BackupCalls, P184, P184Load,
      P184Gpio, P184Calls, P184b0620, P184b0620Load, P184b0620Gpio, P184b0620Calls,
      P184Ksh, P184KshLoad, P184KshGpio, P184KshCalls, CalldevLedkey, CalldevLedkeyLoad,
      CalldevLedkeyGpio, CalldevLedkeyCalls, P270, P270Load, P270Gpio, P270Calls
  <2>2. All(p)
    BY <1>a, LineInits, AsksMore
  <2> HIDE DEF p
  <2>3. QED
    BY <2>1, <2>2
<1>3. /\ All(P238.init)
  <2> DEFINE p == OneLoopLines.ledInit \o OneLoopLines.keyInit \o Do("register_chrdev")
  <2>1. P238.init = p
    BY DEF Version, Plain, P238, P238Load, P238Gpio, P238Calls
  <2>2. All(p)
    BY <1>a, LineInits, AsksMore
  <2> HIDE DEF p
  <2>3. QED
    BY <2>1, <2>2
<1>4. /\ All(Kmalloc.init)
  <2> DEFINE p == Do("mutex_init") \o OneLoopLines.ledInit \o OneLoopLines.keyInit
                  \o Do("register_chrdev")
  <2>1. Kmalloc.init = p
    BY DEF Version, Plain, Kmalloc, KmallocLoad, KmallocGpio, KmallocCalls
  <2>2. All(p)
    BY <1>a, LineInits, AsksMore
  <2> HIDE DEF p
  <2>3. QED
    BY <2>1, <2>2
<1>5. /\ All(P369.init) /\ AsksIrqs(P369.init)
      /\ All(P369Ksh.init) /\ AsksIrqs(P369Ksh.init)
      /\ All(P399.init) /\ AsksIrqs(P399.init)
      /\ All(P399Ksh.init) /\ AsksIrqs(P399Ksh.init)
      /\ All(P432.init) /\ AsksIrqs(P432.init)
  <2> DEFINE p == Do("mutex_init") \o OneLoopLines.ledInit \o OneLoopLines.keyInit
                  \o IrqLines.toIrq \o ForEach(gpioKey, <<"request_irq">>)
                  \o Do("register_chrdev")
  <2>1. P369.init = p /\ P369Ksh.init = p /\ P399.init = p /\ P399Ksh.init = p /\ P432.init
          = p
    BY DEF Version, Plain, P369, P369Load, P369Gpio, P369Calls, P369Ksh, P369KshLoad,
      P369KshGpio, P369KshCalls, P399, P399Load, P399Gpio, P399Calls, P399Ksh, P399KshLoad,
      P399KshGpio, P399KshCalls, P432, P432Load, P432Gpio, P432Calls
  <2>2. All(p) /\ AsksIrqs(p)
    BY <1>a, LineInits, AsksMore
  <2> HIDE DEF p
  <2>3. QED
    BY <2>1, <2>2
<1>6. /\ All(P527.init) /\ AsksIrqs(P527.init)
  <2> DEFINE p == Do("register_chrdev") \o TwoLoopLines.ledInit \o TwoLoopLines.keyInit
                  \o Unchecked(IrqLines.toIrq)
                  \o CallThen(ForEach(gpioKey, <<"request_irq">>), Do("provide_call"))
  <2>1. P527.init = p
    BY DEF Version, Plain, P527, P527Load, P527Gpio, P527Calls
  <2>2. All(p) /\ AsksIrqs(p)
    BY <1>a, LineInits, AsksMore
  <2> HIDE DEF p
  <2>3. QED
    BY <2>1, <2>2
<1>7. /\ All(TimerHjy.init) /\ AsksIrqs(TimerHjy.init)
  <2> DEFINE p == Do("mutex_init") \o TwoLoopLines.ledInit \o OneLoopLines.keyInit
                  \o IrqLines.toIrq \o ForEach(gpioKey, <<"request_irq">>)
                  \o Do("add_timer") \o Unchecked(Do("register_chrdev"))
  <2>1. TimerHjy.init = p
    BY <1>b DEF Version, Plain, TimerHjy, TimerHjyLoad, TimerHjyGpio, TimerHjyCalls
  <2>2. All(p) /\ AsksIrqs(p)
    BY <1>a, LineInits, AsksMore
  <2> HIDE DEF p
  <2>3. QED
    BY <2>1, <2>2
<1>8. /\ All(Timer0625.init) /\ AsksIrqs(Timer0625.init)
  <2> DEFINE p == Do("mutex_init") \o TwoLoopLines.ledInit \o OneLoopLines.keyInit
                  \o IrqLines.toIrq \o ForEach(gpioKey, <<"request_irq">>)
                  \o Do("register_chrdev")
  <2>1. Timer0625.init = p
    BY <1>b DEF Version, Plain, Timer0625, Timer0625Load, Timer0625Gpio, Timer0625Calls
  <2>2. All(p) /\ AsksIrqs(p)
    BY <1>a, LineInits, AsksMore
  <2> HIDE DEF p
  <2>3. QED
    BY <2>1, <2>2
<1> HIDE DEF All
<1>9. /\ \A d \in HoldBoth \cup HandleKeys : All(Driver[d].init)
      /\ \A d \in HandleKeys : AsksIrqs(Driver[d].init)
  BY <1>1, <1>2, <1>3, <1>4, <1>5, <1>6, <1>7, <1>8, DriverIs
  DEF HoldBoth, HandleKeys
<1>10. QED
  BY <1>9 DEF All

-----------------------------------------------------------------------------
(* A load that reports success is complete.                                *)

\* What the functions other than exit do not do.
Keeps(d) == IF d \in HandleKeys THEN AllCalls \ {"gpio_free", "free_irq"}
            ELSE AllCalls \ {"gpio_free"}

LEMMA UsersMore ==
  ASSUME NEW d, NEW C, NEW D, NEW E, C \cup E \subseteq D, Users(d, C), d.init \in Program(E)
  PROVE  Users(d, D) /\ d.init \in Program(D)
<1>1. Program(C) \subseteq Program(D) /\ Program(E) \subseteq Program(D)
  BY MonotoneIn
<1>2. QED
  BY <1>1 DEF Users

LEMMA KeepersMake ==
  ASSUME NEW d \in HoldBoth \cup HandleKeys
  PROVE  /\ d \in DOMAIN Driver
         /\ Users(Driver[d], Keeps(d))
         /\ Driver[d].init \in Program(Keeps(d)) /\ Driver[d].isr \in Program(Keeps(d))
         /\ d \in HandleKeys => ~Driver[d].perOpen
<1>0. \A E : \A F, G \in SUBSET E : \A v :
        Users(v, F) /\ v.init \in Program(G) => Users(v, E) /\ v.init \in Program(E)
  BY UsersMore
<1> DEFINE C == AllCalls \ {"gpio_free"}
           D == AllCalls \ {"gpio_free", "free_irq"}
<1>1. d \in DOMAIN Driver
  BY DriverIs DEF HoldBoth, HandleKeys
<1>2. d \in HoldBoth => Users(Driver[d], C) /\ Driver[d].init \in Program(C)
  <2> USE DEF AllCalls, LineCalls, IrqCalls, NodeCalls, TimerCalls, FileCalls, MutexCalls,
              KeyCalls, RequestCalls, OnceCalls, TakeCalls, BoxCalls
  <2>1. Users(P122, C) /\ P122.init \in Program(C)
    BY P122In, <1>0
  <2>2. Users(P122Param, C) /\ P122Param.init \in Program(C)
    BY P122ParamIs, P122In, <1>0
  <2>3. Users(Backup, C) /\ Backup.init \in Program(C)
    BY BackupIn, <1>0
  <2>4. Users(P184, C) /\ P184.init \in Program(C)
    BY P184In, <1>0
  <2>5. Users(P184b0620, C) /\ P184b0620.init \in Program(C)
    BY P184b0620In, <1>0
  <2>6. Users(P184Ksh, C) /\ P184Ksh.init \in Program(C)
    BY P184KshIn, <1>0
  <2>7. Users(CalldevLedkey, C) /\ CalldevLedkey.init \in Program(C)
    BY CalldevLedkeyIn, <1>0
  <2>8. Users(P238, C) /\ P238.init \in Program(C)
    BY P238In, <1>0
  <2>9. Users(P270, C) /\ P270.init \in Program(C)
    BY P270In, <1>0
  <2>10. Users(Kmalloc, C) /\ Kmalloc.init \in Program(C)
    BY KmallocIn, <1>0
  <2> HIDE DEF C
  <2>11. QED
    BY <2>1, <2>2, <2>3, <2>4, <2>5, <2>6, <2>7, <2>8, <2>9, <2>10, DriverIs DEF HoldBoth
<1>3. d \in HandleKeys => Users(Driver[d], D) /\ Driver[d].init \in Program(D)
  <2> USE DEF AllCalls, LineCalls, IrqCalls, NodeCalls, TimerCalls, FileCalls, MutexCalls,
              KeyCalls, RequestCalls, OnceCalls, TakeCalls, WaitCalls
  <2>1. Users(P369, D) /\ P369.init \in Program(D)
    BY P369In, <1>0
  <2>2. Users(P369Ksh, D) /\ P369Ksh.init \in Program(D)
    BY P369KshIs, P369In, <1>0
  <2>3. Users(P399, D) /\ P399.init \in Program(D)
    BY P399In, <1>0
  <2>4. Users(P399Ksh, D) /\ P399Ksh.init \in Program(D)
    BY P399KshIn, <1>0
  <2>5. Users(P432, D) /\ P432.init \in Program(D)
    BY P432In, <1>0
  <2>6. Users(P527, D) /\ P527.init \in Program(D)
    BY P527In, <1>0
  <2>7. Users(TimerHjy, D) /\ TimerHjy.init \in Program(D)
    BY TimerHjyIn, <1>0
  <2>8. Users(Timer0625, D) /\ Timer0625.init \in Program(D)
    BY Timer0625In, <1>0
  <2> HIDE DEF D
  <2>9. QED
    BY <2>1, <2>2, <2>3, <2>4, <2>5, <2>6, <2>7, <2>8, DriverIs DEF HandleKeys
<1>4. Driver[d].isr \in Program(C) /\ Driver[d].isr \in Program(D)
  <2>1. Driver[d].isr \in {<<>>, StoreUnderMutex(<<>>), StoreUnderMutex(Do("wake_up")),
                           Do("store_key") \o Do("wake_up")}
    BY <1>1, Handlers DEF Sleepless
  <2>2. StoreCalls \subseteq C /\ StoreCalls \subseteq D
    BY DEF StoreCalls, AllCalls, MutexCalls, KeyCalls
  <2> HIDE DEF C, D
  <2>3. \A E : StoreCalls \subseteq E =>
          {<<>>, StoreUnderMutex(<<>>), StoreUnderMutex(Do("wake_up")),
           Do("store_key") \o Do("wake_up")} \subseteq Program(E)
    BY FilePrograms, Notation DEF StoreCalls
  <2>4. QED
    BY <2>1, <2>2, <2>3
<1>5. d \in HandleKeys => ~Driver[d].perOpen
  <2>1. ~P369.perOpen /\ ~P369Ksh.perOpen /\ ~P399.perOpen /\ ~P399Ksh.perOpen
          /\ ~P432.perOpen
    BY DEF P369, P369Calls, P369Ksh, P369KshCalls, P399, P399Calls, P399Ksh, P399KshCalls,
           P432, P432Calls, Version, Plain
  <2>2. ~P527.perOpen /\ ~TimerHjy.perOpen /\ ~Timer0625.perOpen
    BY DEF P527, P527Calls, TimerHjy, TimerHjyCalls, Timer0625, Timer0625Calls, Version, Plain
  <2>3. QED
    BY <2>1, <2>2, DriverIs DEF HandleKeys
<1> HIDE DEF C, D
<1>6. d \notin HandleKeys => Keeps(d) = C
  BY DEF Keeps, C
<1>7. d \in HandleKeys => Keeps(d) = D
  BY DEF Keeps, D
<1>8. QED
  BY <1>1, <1>2, <1>3, <1>4, <1>5, <1>6, <1>7

\* What init still has to ask for is in program p; the rest the driver has.
Secured(p) ==
  /\ \A l \in Lines : (l \in held \/ Asks(p, "gpio_request", l))
       /\ (l \in directed \/ Directs(p, l))
  /\ drv \in HandleKeys => \A k \in Keys : handler[k] = kernel \/ Asks(p, "request_irq", k)

CompleteInv ==
  /\ Base
  /\ \A a \in Actors, op \in Ops \ {"idle", "exit"} :
       run[a].op = op => run[a].todo \in Program(Keeps(drv))
  /\ mod = "loading" /\ run[admin].ok => Secured(run[admin].todo)
  /\ mod = "live" => Secured(<<>>)

\* No statement but those of exit takes anything back.
LEMMA KeptStatement ==
  ASSUME NEW a \in Actors, Statement(a), run[a].todo # <<>> => Now(a).call \in Keeps(drv)
  PROVE  /\ held \subseteq held' /\ directed \subseteq directed'
         /\ drv \in HandleKeys => \A k \in Keys : handler[k] = kernel => handler'[k] = kernel
<1>1. UNCHANGED <<held, directed>> \/ GpioRequest(a) \/ GpioDirection(a) \/ GpioFree(a)
  BY StatementFrame
<1>2. UNCHANGED <<irqKey, handler>> \/ GpioToIrq(a) \/ RequestIrq(a) \/ FreeIrq(a)
  BY StatementFrame
<1>3. held \subseteq held' /\ directed \subseteq directed'
  BY <1>1 DEF GpioRequest, GpioDirection, GpioFree, At, Keeps
<1>4. ASSUME drv \in HandleKeys, NEW k \in Keys, handler[k] = kernel
      PROVE  handler'[k] = kernel
  <2>1. kernel # none
    BY ActorAssumption
  <2>2. QED
    BY <1>2, <1>4, <2>1 DEF GpioToIrq, RequestIrq, FreeIrq, At, Keeps
<1>5. QED
  BY <1>3, <1>4

\* A request that is looked at and does not end init has got what it asked for.
LEMMA GotIt ==
  ASSUME Base, NEW a \in Actors, Statement(a), run'[a].ok, Now(a).checked,
         NEW line \in Now(a).lines
  PROVE  /\ Now(a).call = "gpio_request" => line \in held'
         /\ Now(a).call \in {"gpio_direction_output",
              "gpio_direction_input"} => line \in directed'
         /\ Now(a).call = "request_irq" /\ line \in Keys => handler'[line] = Box(a)
<1>1. ~Fail(a)
  <2>1. Formed(run[a]) /\ DOMAIN run = Actors
    BY DEF Base
  <2>2. QED
    BY <2>1 DEF Fail, Formed
<1>2. Statement(a) /\ run[a].todo # <<>> /\ (a \in asleep => Now(a).call = "wait_event")
  BY NamedCalls DEF Base
<1>3. CASE Now(a).call = "gpio_request"
  <2>1. GpioRequest(a)
    BY <1>2, <1>3 DEF At, Statement, GpioDirection, GpioFree, TouchLines,
         GpioToIrq, RequestIrq, FreeIrq, RegisterChrdev, UnregisterChrdev, ProvideCall,
         RemoveCall, SetTimer, TryModuleGet, ModulePut, Kmalloc_, Kfree, Test, SetFlag, Mutex,
         StoreKey, CopyKey, ClearKey, WaitEvent, Signal, WakeUp
  <2>2. QED
    BY <1>1, <1>3, <2>1 DEF GpioRequest, Refused
<1>4. CASE Now(a).call \in {"gpio_direction_output", "gpio_direction_input"}
  <2>1. GpioDirection(a)
    BY <1>2, <1>4 DEF At, Statement, GpioRequest, GpioFree, TouchLines,
         GpioToIrq, RequestIrq, FreeIrq, RegisterChrdev, UnregisterChrdev, ProvideCall,
         RemoveCall, SetTimer, TryModuleGet, ModulePut, Kmalloc_, Kfree, Test, SetFlag, Mutex,
         StoreKey, CopyKey, ClearKey, WaitEvent, Signal, WakeUp
  <2>2. QED
    BY <1>1, <1>4, <2>1 DEF GpioDirection, Refused
<1>5. CASE Now(a).call = "request_irq"
  <2>1. RequestIrq(a)
    BY <1>2, <1>5 DEF At, Statement, GpioRequest, GpioDirection, GpioFree, TouchLines,
         GpioToIrq, FreeIrq, RegisterChrdev, UnregisterChrdev, ProvideCall,
         RemoveCall, SetTimer, TryModuleGet, ModulePut, Kmalloc_, Kfree, Test, SetFlag, Mutex,
         StoreKey, CopyKey, ClearKey, WaitEvent, Signal, WakeUp
  <2>2. QED
    BY <1>1, <1>5, <2>1 DEF RequestIrq, Refused
<1>6. QED
  BY <1>3, <1>4, <1>5

\* A statement of init leaves what it has not got to the rest of init.
LEMMA StillSecured ==
  ASSUME Base, NEW a \in Actors, Statement(a), NEW C, run[a].todo \in Program(C),
         run'[a].ok, NEW q, q = Tail(run[a].todo),
         held \subseteq held', directed \subseteq directed', drv' = drv,
         drv \in HandleKeys =>
           Box(a) = kernel /\ \A k \in Keys : handler[k] = kernel => handler'[k] = kernel,
         Secured(run[a].todo)
  PROVE  Secured(q)'
<1> DEFINE p == run[a].todo
<1>1. p # <<>> /\ Now(a) = Head(p)
  BY NamedCalls DEF Base, Now
<1>2. \A call, l : Asks(p, call, l) =>
         \/ Now(a).call = call /\ l \in Now(a).lines /\ Now(a).checked
         \/ Asks(Tail(p), call, l)
  BY <1>1, AsksTail
<1>3. ASSUME NEW l \in Lines
      PROVE  l \in held' \/ Asks(Tail(p), "gpio_request", l)
  <2>1. l \in held \/ Asks(p, "gpio_request", l)
    BY DEF Secured
  <2>2. QED
    BY <1>2, <2>1, GotIt
<1>4. ASSUME NEW l \in Lines
      PROVE  l \in directed' \/ Directs(Tail(p), l)
  <2>1. l \in directed \/ Directs(p, l)
    BY DEF Secured
  <2>2. CASE Asks(p, "gpio_direction_output", l)
    BY <1>2, <2>2, GotIt DEF Directs
  <2>3. CASE Asks(p, "gpio_direction_input", l)
    BY <1>2, <2>3, GotIt DEF Directs
  <2>4. QED
    BY <2>1, <2>2, <2>3 DEF Directs
<1>5. ASSUME drv \in HandleKeys, NEW k \in Keys
      PROVE  handler'[k] = kernel \/ Asks(Tail(p), "request_irq", k)
  <2>1. handler[k] = kernel \/ Asks(p, "request_irq", k)
    BY <1>5 DEF Secured
  <2>2. QED
    BY <1>2, <1>5, <2>1, GotIt
<1>6. QED
  BY <1>3, <1>4, <1>5 DEF Secured

LEMMA InitCompleteInv ==
  ASSUME Init
  PROVE  CompleteInv
<1>1. Base
  BY InitBase
<1>2. \A a \in Actors : run[a].op = "idle"
  BY DEF Init, Idle
<1>3. QED
  BY <1>1, <1>2 DEF Init, CompleteInv

LEMMA NextCompleteInv ==
  ASSUME drv \in HoldBoth \cup HandleKeys, CompleteInv, [Next]_vars
  PROVE  CompleteInv'
<1> Base /\ drv \in DOMAIN Driver /\ admin \in Actors
  BY KeepersMake DEF CompleteInv, Actors
<1>1. CASE UNCHANGED vars
  BY <1>1 DEF vars, modVars, keyVars, irqVars, lineVars, CompleteInv, Secured, Base, Now
<1> SUFFICES ASSUME Next PROVE CompleteInv'
  BY <1>1
<1>2. Base' /\ drv' = drv
  BY BeginsKnown, NextBase, StatementFrame, OtherFrame
<1>3. ASSUME NEW a \in Actors, NEW op \in Ops \ {"idle", "exit"}, run'[a].op = op
      PROVE  run'[a].todo \in Program(Keeps(drv))
  <2> DEFINE S == Program(Keeps(drv))
  <2>1. Closed(S) /\ (run[a].op = op => run[a].todo \in S)
    BY ProgramClosed DEF CompleteInv
  <2>2. \A p : Begins(drv, op, p) => p \in S
    BY KeepersMake DEF Begins, Users
  <2> HIDE DEF S
  <2>3. run'[a].todo \in S
    BY <1>3, <2>1, <2>2, StaysInOp
  <2>4. QED
    BY <2>3 DEF S
<1>4. ASSUME NEW a \in Actors, Statement(a), mod \in {"loading", "live"}
      PROVE  /\ held \subseteq held' /\ directed \subseteq directed'
             /\ drv \in HandleKeys => \A k \in Keys : handler[k] = kernel => handler'[k]
                  = kernel
  <2>1. run[a].op \in Ops /\ run[a].op # "exit"
    <3>1. run[a].op \in OpsOf(a) /\ OpsOf(a) \subseteq Ops
            /\ (a # admin => "exit" \notin OpsOf(a))
      <4>1. run[a].op \in OpsOf(a)
        BY DEF Base
      <4>2. a \in {admin, softirq} \/ a \in Threads \/ a \in Keys
        BY DEF Actors
      <4>3. QED
        BY <4>1, <4>2, ActorOps DEF Ops
    <3>2. run[admin].op = "exit" => mod = "unloading"
      BY DEF Base
    <3>3. QED
      BY <1>4, <3>1, <3>2
  <2>2. run[a].op = "idle" => run[a].todo = <<>>
    BY DEF Base, Idle
  <2>3. run[a].todo # <<>> => Now(a).call \in Keeps(drv)
    BY <2>1, <2>2, ProgramSteps DEF CompleteInv, Now
  <2>4. QED
    BY <1>4, <2>3, KeptStatement
<1>5. ASSUME NEW a \in Actors, Statement(a), mod = "live"
      PROVE  CompleteInv'
  <2>1. mod' = mod
    BY <1>5, StatementFrame
  <2>2. Secured(<<>>)'
    BY <1>2, <1>4, <1>5 DEF CompleteInv, Secured, Asks, Directs
  <2>3. QED
    BY <1>2, <1>3, <1>5, <2>1, <2>2 DEF CompleteInv
<1>6. ASSUME NEW a \in Actors, Statement(a), mod = "loading"
      PROVE  CompleteInv'
  <2>1. mod' = mod
    BY <1>6, StatementFrame
  <2>2. ASSUME run'[admin].ok, NEW q, q = run'[admin].todo
        PROVE  Secured(q)'
    <3>1. CASE run'[admin] = run[admin]
      <4>1. Secured(q)
        BY <1>6, <2>2, <3>1 DEF CompleteInv
      <4>2. QED
        BY <1>2, <1>4, <1>6, <4>1 DEF Secured
    <3>2. CASE a = admin /\ ~Same(a)
      <4>1. Formed(run[a]) /\ run[a].op = "init"
        BY <1>6, <3>2 DEF Base
      <4>2. Advances(a) \/ Copies(a)
        BY <1>6, <2>2, <3>2, <4>1, StatementRun DEF Fails, Formed
      <4>3. q = Tail(run[a].todo) /\ run[a].ok
        BY <2>2, <3>2, <4>1, <4>2 DEF Advances, Copies, Formed
      <4>4. run[a].todo \in Program(Keeps(drv)) /\ Secured(run[a].todo)
        BY <1>6, <3>2, <4>1, <4>3 DEF CompleteInv, Ops
      <4>5. drv \in HandleKeys => Box(a) = kernel
        BY KeepersMake DEF Box
      <4>6. QED
        BY <1>2, <1>4, <1>6, <2>2, <3>2, <4>3, <4>4, <4>5, StillSecured
    <3>3. QED
      BY <1>6, <3>1, <3>2, StatementRun DEF Alone, Same
  <2>3. QED
    BY <1>2, <1>3, <1>6, <2>1, <2>2 DEF CompleteInv
<1>7. CASE \A a \in Actors : ~Statement(a)
  <2>1. held' = held /\ directed' = directed /\ handler' = handler
    BY <1>7, OtherFrame
  <2>2. \A q : Secured(q) => Secured(q)'
    BY <1>2, <2>1 DEF Secured
  <2>3. PICK b \in Actors : Alone(b) /\ (Starts(b) \/ Ends(b))
    BY <1>7, OtherRun
  <2>4. CASE mod' = mod /\ run'[admin].op = run[admin].op
    <3>1. b # admin
      BY <2>3, <2>4 DEF Starts, Ends, Idle
    <3>2. run'[admin] = run[admin]
      BY <2>3, <3>1 DEF Alone, Same
    <3>3. QED
      BY <1>2, <1>3, <2>2, <2>4, <3>2 DEF CompleteInv
  <2>5. CASE Insmod /\ mod' = "loading"
    <3>1. run'[admin].todo = Driver[drv].init
      BY <2>5 DEF Insmod, Start, Base
    <3>2. Secured(Driver[drv].init)
      BY InitAsks DEF Secured, AsksLeds, AsksKeys, AsksIrqs, Lines
    <3>3. QED
      BY <1>2, <1>3, <2>2, <2>5, <3>1, <3>2 DEF CompleteInv
  <2>6. CASE InitReturns /\ mod = "loading" /\ mod' = IF run[admin].ok THEN "live" ELSE "out"
    <3>1. run[admin].todo = <<>>
      BY <2>6 DEF InitReturns, Done
    <3>2. QED
      BY <1>2, <1>3, <2>2, <2>6, <3>1 DEF CompleteInv
  <2>7. CASE mod' \in {"out", "unloading"}
    BY <1>2, <1>3, <2>7 DEF CompleteInv
  <2>8. QED
    BY <2>4, <2>5, <2>6, <2>7, ModStep
<1>8. ASSUME NEW a \in Actors, Statement(a), mod \notin {"loading", "live"}
      PROVE  CompleteInv'
  <2>1. mod' = mod
    BY <1>8, StatementFrame
  <2>2. QED
    BY <1>2, <1>3, <1>8, <2>1 DEF CompleteInv
<1>9. QED
  BY <1>5, <1>6, <1>7, <1>8

\* A load that reports success has every line, each with its direction, and the
\* versions with interrupts every handler: whichever call failed, insmod said so.
THEOREM LoadIsComplete == Spec => []LiveComplete
<1> DEFINE I == drv \in HoldBoth \cup HandleKeys => CompleteInv
<1>1. Init => I
  BY InitCompleteInv
<1>2. I /\ [Next]_vars => I'
  <2> SUFFICES ASSUME I, [Next]_vars PROVE I'
    OBVIOUS
  <2>1. drv' = drv
    BY StatementFrame, OtherFrame DEF vars, modVars
  <2>2. QED
    BY <2>1, NextCompleteInv
<1>3. I => LiveComplete
  BY DEF LiveComplete, CompleteInv, Secured, Asks, Directs
<1>4. QED
  BY <1>1, <1>2, <1>3, PTL DEF Spec

-----------------------------------------------------------------------------
(* What is left of read() and keyIsr().                                    *)

\* The calls that change the mutex or a key, and those of the others.
KeyChanges == {"mutex_init", "mutex_trylock", "mutex_unlock", "store_key", "copy_key",
  "clear_key"}
OpenCalls  == AllCalls \ KeyChanges
OtherCalls == OpenCalls \ {"kmalloc"}

\* What is left of read() and of keyIsr() after each of their statements.
Take5 == Do("mutex_unlock")
Take4 == Do("clear_key") \o Take5
Take3 == Do("copy_key") \o Take4
Take2 == OnFailure(Do("test_key"), Take5) \o Take3
Take1 == OnFailure(Do("mutex_trylock"), <<>>) \o Take2
Wait2 == Do("wait_event") \o Take1
Wait1 == OnFailure(Do("test_blocking"), Take1) \o Wait2
Store2 == Do("store_key") \o Take5
Store3 == OnFailure(Do("mutex_trylock"), <<>>) \o Store2

ReadTails == {<<>>, Take5, Take4, Take3, Take2, Take1, Wait2, Wait1}
KeyTails  == {<<>>, Take5, Store2, Store3, Wake1, Wake2, Wake3, Wake4}

\* Those that are under the mutex.
InsideCalls == {"test_key", "copy_key", "clear_key", "store_key", "mutex_unlock"}
Locked == {p \in ReadTails \cup KeyTails : p # <<>> /\ Head(p).call \in InsideCalls}

LEMMA TailPrograms ==
  /\ {Take1, Take2, Take3, Take4, Take5, Wait2, Store2, Store3} \subseteq Program(AllCalls)
  /\ {Take5, Take4, Take3, Store2} \subseteq Simple(AllCalls)
  /\ {Take2, Take1, Wait2, Store3} \subseteq Nested(AllCalls)
  /\ Wait1 \in Program(AllCalls)
  /\ {Wake1, Wake2, Wake3, Wake4} \subseteq Program(AllCalls)
<1> DEFINE C == AllCalls
<1>1. {"mutex_unlock", "mutex_trylock", "clear_key", "copy_key", "test_key", "store_key",
       "wait_event", "test_blocking"} \subseteq C
  BY DEF AllCalls, MutexCalls, KeyCalls
<1>2. StoreCalls \subseteq C
  BY DEF AllCalls, MutexCalls, KeyCalls, StoreCalls
<1> HIDE DEF C
<1>3. Take5 \in Simple(C) /\ Take4 \in Simple(C) /\ Take3 \in Simple(C)
        /\ Store2 \in Simple(C)
  BY <1>1, Notation DEF Take5, Take4, Take3, Store2
<1>4. Simple(C) \subseteq Nested(C) /\ Nested(C) \subseteq Program(C) /\ <<>> \in Simple(C)
  BY Notation
<1>5. Take2 \in Nested(C)
  BY <1>1, <1>3, Notation DEF Take2
<1>6. Take1 \in Nested(C) /\ Store3 \in Nested(C)
  BY <1>1, <1>3, <1>4, <1>5, Notation DEF Take1, Store3
<1>7. Wait2 \in Nested(C)
  BY <1>1, <1>6, Notation DEF Wait2
<1>8. Wait1 \in Program(C)
  BY <1>1, <1>4, <1>6, <1>7, Notation DEF Wait1
<1>9. Program(StoreCalls) \subseteq Program(C)
  BY <1>2, MonotoneIn
<1>10. QED
  BY <1>3, <1>4, <1>5, <1>6, <1>7, <1>8, <1>9, WakeTailsIn DEF C, WakeTails

\* FirstStatement and FirstOrElse, of all calls.
LEMMA FirstDo ==
  ASSUME NEW call \in AllCalls, NEW p \in Program(AllCalls), NEW q, q = Do(call) \o p
  PROVE  q # <<>> /\ Head(q).call = call /\ Head(q).fail = <<>> /\ Tail(q) = p
<1>1. q # <<>> /\ Tail(q) = p /\ Head(q) = One(call)
  BY FirstStatement
<1>2. QED
  BY <1>1, OneStatement

LEMMA FirstOr ==
  ASSUME NEW call \in AllCalls, NEW p \in Program(AllCalls), NEW r \in Nested(AllCalls),
         NEW q, q = OnFailure(Do(call), r) \o p
  PROVE  /\ q # <<>> /\ Head(q).call = call /\ Head(q).fail = r /\ Tail(q) = p
         /\ Head(q).checked
<1>1. q # <<>> /\ Tail(q) = p /\ Head(q) = OneOr(call, r)
  BY FirstOrElse
<1>2. QED
  BY <1>1, OneStatement

LEMMA LastDo ==
  ASSUME NEW call
  PROVE  /\ Do(call) # <<>> /\ Head(Do(call)).call = call
         /\ Head(Do(call)).fail = <<>> /\ Tail(Do(call)) = <<>>
<1>1. Do(call) = <<One(call)>> /\ One(call).call = call /\ One(call).fail = <<>>
  BY OneStatement
<1>2. QED
  BY <1>1

LEMMA NamedIn ==
  /\ "mutex_unlock" \in AllCalls /\ "mutex_trylock" \in AllCalls /\ "clear_key" \in AllCalls
  /\ "copy_key" \in AllCalls /\ "test_key" \in AllCalls /\ "store_key" \in AllCalls
  /\ "wait_event" \in AllCalls /\ "test_blocking" \in AllCalls /\ "wake_up" \in AllCalls
BY DEF AllCalls, MutexCalls, KeyCalls

LEMMA TailsIn ==
  /\ Take5 \in Program(AllCalls) /\ Take4 \in Program(AllCalls) /\ Take3 \in Program(AllCalls)
  /\ Take2 \in Program(AllCalls) /\ Take1 \in Program(AllCalls) /\ Wait2 \in Program(AllCalls)
  /\ Store2 \in Program(AllCalls) /\ Wake1 \in Program(AllCalls)
  /\ Wake2 \in Program(AllCalls) /\ Wake3 \in Program(AllCalls)
  /\ <<>> \in Nested(AllCalls) /\ Take5 \in Nested(AllCalls) /\ Take1 \in Nested(AllCalls)
  /\ Wake1 \in Nested(AllCalls)
<1>2. Simple(AllCalls) \subseteq Nested(AllCalls) /\ <<>> \in Simple(AllCalls)
  BY Notation
<1>3. Wake1 \in Simple(AllCalls)
  BY NamedIn, Notation DEF Wake1
<1>4. QED
  BY <1>2, <1>3, TailPrograms

LEMMA TakeSteps ==
  /\ Take5 # <<>> /\ Head(Take5).call = "mutex_unlock" /\ Tail(Take5) = <<>>
  /\ Take4 # <<>> /\ Head(Take4).call = "clear_key" /\ Tail(Take4) = Take5
  /\ Take3 # <<>> /\ Head(Take3).call = "copy_key" /\ Tail(Take3) = Take4
  /\ Take2 # <<>> /\ Head(Take2).call = "test_key" /\ Tail(Take2) = Take3
  /\ Head(Take2).fail = Take5
  /\ Take1 # <<>> /\ Head(Take1).call = "mutex_trylock" /\ Tail(Take1) = Take2
  /\ Head(Take1).fail = <<>> /\ Head(Take1).checked
  /\ Wait2 # <<>> /\ Head(Wait2).call = "wait_event" /\ Tail(Wait2) = Take1
  /\ Wait1 # <<>> /\ Head(Wait1).call = "test_blocking" /\ Tail(Wait1) = Wait2
  /\ Head(Wait1).fail = Take1
<1>1. Take5 # <<>> /\ Head(Take5).call = "mutex_unlock" /\ Tail(Take5) = <<>>
  BY LastDo DEF Take5
<1>2. Take4 # <<>> /\ Head(Take4).call = "clear_key" /\ Tail(Take4) = Take5
  <2>1. Take4 = Do("clear_key") \o Take5
    BY DEF Take4
  <2>2. QED
    BY <2>1, FirstDo, NamedIn, TailsIn
<1>3. Take3 # <<>> /\ Head(Take3).call = "copy_key" /\ Tail(Take3) = Take4
  <2>1. Take3 = Do("copy_key") \o Take4
    BY DEF Take3
  <2>2. QED
    BY <2>1, FirstDo, NamedIn, TailsIn
<1>4. Take2 # <<>> /\ Head(Take2).call = "test_key" /\ Tail(Take2) = Take3
      /\ Head(Take2).fail = Take5
  <2>1. Take2 = OnFailure(Do("test_key"), Take5) \o Take3
    BY DEF Take2
  <2>2. "test_key" \in AllCalls /\ Take3 \in Program(AllCalls) /\ Take5 \in Nested(AllCalls)
    BY NamedIn, TailsIn
  <2>3. QED
    BY <2>1, <2>2, FirstOr
<1>5. Take1 # <<>> /\ Head(Take1).call = "mutex_trylock" /\ Tail(Take1) = Take2
      /\ Head(Take1).fail = <<>> /\ Head(Take1).checked
  <2>1. Take1 = OnFailure(Do("mutex_trylock"), <<>>) \o Take2
    BY DEF Take1
  <2>2. "mutex_trylock" \in AllCalls /\ Take2 \in Program(AllCalls)
          /\ <<>> \in Nested(AllCalls)
    BY NamedIn, TailsIn
  <2>3. QED
    BY <2>1, <2>2, FirstOr
<1>6. Wait2 # <<>> /\ Head(Wait2).call = "wait_event" /\ Tail(Wait2) = Take1
  <2>1. Wait2 = Do("wait_event") \o Take1
    BY DEF Wait2
  <2>2. QED
    BY <2>1, FirstDo, NamedIn, TailsIn
<1>7. Wait1 # <<>> /\ Head(Wait1).call = "test_blocking" /\ Tail(Wait1) = Wait2
      /\ Head(Wait1).fail = Take1
  <2>1. Wait1 = OnFailure(Do("test_blocking"), Take1) \o Wait2
    BY DEF Wait1
  <2>2. "test_blocking" \in AllCalls /\ Wait2 \in Program(AllCalls)
          /\ Take1 \in Nested(AllCalls)
    BY NamedIn, TailsIn
  <2>3. QED
    BY <2>1, <2>2, FirstOr
<1>8. QED
  BY <1>1, <1>2, <1>3, <1>4, <1>5, <1>6, <1>7

LEMMA StoreSteps ==
  /\ Store2 # <<>> /\ Head(Store2).call = "store_key" /\ Tail(Store2) = Take5
  /\ Store3 # <<>> /\ Head(Store3).call = "mutex_trylock" /\ Tail(Store3) = Store2
  /\ Head(Store3).fail = <<>> /\ Head(Store3).checked
  /\ Wake1 # <<>> /\ Head(Wake1).call = "wake_up" /\ Tail(Wake1) = <<>>
  /\ Wake2 # <<>> /\ Head(Wake2).call = "mutex_unlock" /\ Tail(Wake2) = Wake1
  /\ Wake3 # <<>> /\ Head(Wake3).call = "store_key" /\ Tail(Wake3) = Wake2
  /\ Wake4 # <<>> /\ Head(Wake4).call = "mutex_trylock" /\ Tail(Wake4) = Wake3
  /\ Head(Wake4).fail = Wake1 /\ Head(Wake4).checked
<1>1. Store2 # <<>> /\ Head(Store2).call = "store_key" /\ Tail(Store2) = Take5
  <2>1. Store2 = Do("store_key") \o Take5
    BY DEF Store2
  <2>2. QED
    BY <2>1, FirstDo, NamedIn, TailsIn
<1>2. Store3 # <<>> /\ Head(Store3).call = "mutex_trylock" /\ Tail(Store3) = Store2
      /\ Head(Store3).fail = <<>> /\ Head(Store3).checked
  <2>1. Store3 = OnFailure(Do("mutex_trylock"), <<>>) \o Store2
    BY DEF Store3
  <2>2. "mutex_trylock" \in AllCalls /\ Store2 \in Program(AllCalls)
          /\ <<>> \in Nested(AllCalls)
    BY NamedIn, TailsIn
  <2>3. QED
    BY <2>1, <2>2, FirstOr
<1>3. Wake1 # <<>> /\ Head(Wake1).call = "wake_up" /\ Tail(Wake1) = <<>>
  BY LastDo DEF Wake1
<1>4. Wake2 # <<>> /\ Head(Wake2).call = "mutex_unlock" /\ Tail(Wake2) = Wake1
  <2>1. Wake2 = Do("mutex_unlock") \o Wake1
    BY DEF Wake2
  <2>2. QED
    BY <2>1, FirstDo, NamedIn, TailsIn
<1>5. Wake3 # <<>> /\ Head(Wake3).call = "store_key" /\ Tail(Wake3) = Wake2
  <2>1. Wake3 = Do("store_key") \o Wake2
    BY DEF Wake3
  <2>2. QED
    BY <2>1, FirstDo, NamedIn, TailsIn
<1>6. Wake4 # <<>> /\ Head(Wake4).call = "mutex_trylock" /\ Tail(Wake4) = Wake3
      /\ Head(Wake4).fail = Wake1 /\ Head(Wake4).checked
  <2>1. Wake4 = OnFailure(Do("mutex_trylock"), Wake1) \o Wake3
    BY DEF Wake4
  <2>2. "mutex_trylock" \in AllCalls /\ Wake3 \in Program(AllCalls)
          /\ Wake1 \in Nested(AllCalls)
    BY NamedIn, TailsIn
  <2>3. QED
    BY <2>1, <2>2, FirstOr
<1>7. QED
  BY <1>1, <1>2, <1>3, <1>4, <1>5, <1>6

\* read() and keyIsr() of these versions are the first of these tails.
LEMMA ReadsAre ==
  /\ TakeUnderMutex = Take1
  /\ WaitForKey(TakeUnderMutex) = Wait1
  /\ StoreUnderMutex(<<>>) = Store3
<1> DEFINE ifKey    == OnFailure(Do("test_key"), Take5)
           ifFree   == OnFailure(Do("mutex_trylock"), <<>>)
           ifBlocks == OnFailure(Do("test_blocking"), Take1)
           copy     == Do("copy_key")
           clear    == Do("clear_key")
           wait     == Do("wait_event")
<1>1. /\ copy \in Program(AllCalls) /\ clear \in Program(AllCalls)
           /\ wait \in Program(AllCalls)
      /\ copy \o clear \in Program(AllCalls)
      /\ ifKey \in Program(AllCalls) /\ ifFree \in Program(AllCalls)
      /\ ifBlocks \in Program(AllCalls)
  BY NamedIn, TailsIn, Notation
<1>2. /\ Take1 = ifFree \o Take2 /\ Take2 = ifKey \o Take3 /\ Take3 = copy \o Take4
      /\ Take4 = clear \o Take5 /\ Wait1 = ifBlocks \o Wait2 /\ Wait2 = wait \o Take1
      /\ Store3 = ifFree \o Store2
  BY DEF Take1, Take2, Take3, Take4, Wait1, Wait2, Store3
<1>3. Take1 \o <<>> = Take1 /\ Store3 \o <<>> = Store3
  BY TailPrograms DEF Nested
<1>4. IfThen("test_key", copy \o clear, Take5) = (ifKey \o (copy \o clear)) \o Take5
  BY DEF IfThen
<1>5. TakeUnderMutex
        = (ifFree \o IfThen("test_key", copy \o clear, Take5)) \o <<>>
  BY DEF TakeUnderMutex, IfThen, Take5
<1>6. StoreUnderMutex(<<>>) = (ifFree \o Store2) \o <<>>
  BY DEF StoreUnderMutex, IfThen, Store2, Take5
<1>7. WaitForKey(Take1) = (ifBlocks \o wait) \o Take1
  BY DEF WaitForKey, IfThen
<1> HIDE DEF ifKey, ifFree, ifBlocks, copy, clear, wait
<1>8. (copy \o clear) \o Take5 = Take3
  <2>1. (copy \o clear) \o Take5 = copy \o (clear \o Take5)
    <3>1. /\ copy \in Program(AllCalls) /\ clear \in Program(AllCalls)
          /\ Take5 \in Program(AllCalls)
      BY <1>1, TailsIn
    <3>2. QED
      BY <3>1, ConcatAssociates
  <2>2. QED
    BY <2>1, <1>2
<1>9. (ifKey \o (copy \o clear)) \o Take5 = Take2
  <2>1. (ifKey \o (copy \o clear)) \o Take5 = ifKey \o ((copy \o clear) \o Take5)
    <3>1. /\ ifKey \in Program(AllCalls) /\ copy \o clear \in Program(AllCalls)
          /\ Take5 \in Program(AllCalls)
      BY <1>1, TailsIn
    <3>2. QED
      BY <3>1, ConcatAssociates
  <2>2. QED
    BY <2>1, <1>2, <1>8
<1>10. TakeUnderMutex = Take1
  BY <1>2, <1>3, <1>4, <1>5, <1>9
<1>11. (ifBlocks \o wait) \o Take1 = Wait1
  <2>1. (ifBlocks \o wait) \o Take1 = ifBlocks \o (wait \o Take1)
    <3>1. /\ ifBlocks \in Program(AllCalls) /\ wait \in Program(AllCalls)
          /\ Take1 \in Program(AllCalls)
      BY <1>1, TailsIn
    <3>2. QED
      BY <3>1, ConcatAssociates
  <2>2. QED
    BY <2>1, <1>2
<1>12. QED
  BY <1>2, <1>3, <1>6, <1>7, <1>10, <1>11

LEMMA ReadSteps ==
  ASSUME NEW p \in ReadTails, p # <<>>
  PROVE  /\ Tail(p) \in ReadTails
         /\ Head(p).call \in MayFail => Head(p).fail \in ReadTails
         /\ Head(p).call # "store_key"
BY TakeSteps DEF ReadTails, MayFail

LEMMA KeySteps ==
  ASSUME NEW p \in KeyTails, p # <<>>
  PROVE  /\ Tail(p) \in KeyTails
         /\ Head(p).call \in MayFail => Head(p).fail \in KeyTails
BY TakeSteps, StoreSteps DEF KeyTails, MayFail

\* How the programs of read() and keyIsr() enter and leave the mutex.
LEMMA LockedSteps ==
  ASSUME NEW p \in ReadTails \cup KeyTails, p # <<>>
  PROVE  /\ Head(p).call \in {"mutex_unlock", "clear_key", "copy_key", "store_key"} =>
              p \in Locked
         /\ Head(p).call = "mutex_unlock" => Tail(p) \notin Locked
         /\ Tail(p) \in Locked => p \in Locked \/ Head(p).call = "mutex_trylock"
         /\ Head(p).call = "mutex_trylock" =>
              Head(p).checked /\ p \notin Locked /\ Head(p).fail \notin Locked
         /\ Head(p).call \in MayFail /\ Head(p).fail \in Locked => p \in Locked
         /\ Tail(p) # <<>> /\ Head(Tail(p)).call = "clear_key" => Head(p).call = "copy_key"
         /\ Head(p).call \in MayFail /\ Head(p).fail # <<>> =>
              Head(Head(p).fail).call # "clear_key"
         /\ Head(p).call \notin {"mutex_init", "kmalloc"}
<1> USE DEF MayFail, Locked, InsideCalls
<1>1. CASE p = Take5
  BY <1>1, TakeSteps
<1>2. CASE p = Take4
  BY <1>2, TakeSteps
<1>3. CASE p = Take3
  BY <1>3, TakeSteps
<1>4. CASE p = Take2
  BY <1>4, TakeSteps
<1>5. CASE p = Take1
  BY <1>5, TakeSteps
<1>6. CASE p = Wait2
  BY <1>6, TakeSteps
<1>7. CASE p = Wait1
  BY <1>7, TakeSteps
<1>8. CASE p = Store2
  BY <1>8, TakeSteps, StoreSteps
<1>9. CASE p = Store3
  BY <1>9, StoreSteps
<1>10. CASE p = Wake1 \/ p = Wake2 \/ p = Wake3
  BY <1>10, StoreSteps
<1>11. CASE p = Wake4
  BY <1>11, StoreSteps
<1>12. QED
  BY <1>1, <1>2, <1>3, <1>4, <1>5, <1>6, <1>7, <1>8, <1>9, <1>10, <1>11
  DEF ReadTails, KeyTails

-----------------------------------------------------------------------------
(* The versions whose read() takes the mutex.                              *)

\* init of these versions makes the mutex first.
InitFirst == {Do("mutex_init") \o p : p \in Program(OtherCalls)}

\* Only read() and keyIsr() look after the key, and only open() allocates.
MutexShape(d) ==
  /\ d.init \in InitFirst
  /\ d.exit \in Program(OtherCalls)
  /\ d.open \in Program(OpenCalls)
  /\ d.release \in Program(OtherCalls) /\ d.timer \in Program(OtherCalls)
  /\ \A op \in DOMAIN d.calls : d.calls[op] \in {Take1, Wait1} \cup Program(OtherCalls)
  /\ DOMAIN d.direct = {}
  /\ d.isr \in {Store3, Wake4}

LEMMA InitConcat ==
  /\ Do("mutex_init") \in InitFirst
  /\ \A p \in InitFirst, q \in Program(OtherCalls) : p \o q \in InitFirst
<1>1. Do("mutex_init") \o <<>> = Do("mutex_init")
  BY DEF Do
<1>2. <<>> \in Program(OtherCalls)
  BY Notation
<1>3. ASSUME NEW p \in Program(OtherCalls), NEW q \in Program(OtherCalls)
      PROVE  (Do("mutex_init") \o p) \o q \in InitFirst
  <2>1. OtherCalls \subseteq AllCalls /\ "mutex_init" \in AllCalls
    BY DEF OtherCalls, OpenCalls, AllCalls, MutexCalls
  <2>2. Do("mutex_init") \in Program(AllCalls) /\ p \in Program(AllCalls)
        /\ q \in Program(AllCalls)
    BY <2>1, MonotoneIn, Notation
  <2>3. (Do("mutex_init") \o p) \o q = Do("mutex_init") \o (p \o q)
    BY <2>2, ConcatAssociates
  <2>4. p \o q \in Program(OtherCalls)
    BY Notation
  <2>5. QED
    BY <2>3, <2>4 DEF InitFirst
<1>4. QED
  BY <1>1, <1>2, <1>3 DEF InitFirst

\* The calls the versions' functions are made of, of whatever set has them.
LEMMA OthersIn ==
  /\ RequestCalls \cup OnceCalls \subseteq OtherCalls
  /\ "touch" \in OtherCalls /\ "gpio_to_irq" \in OtherCalls /\ "request_irq" \in OtherCalls
  /\ "register_chrdev" \in OtherCalls /\ "free_irq" \in OtherCalls
  /\ "gpio_free" \in OtherCalls /\ "unregister_chrdev" \in OtherCalls
  /\ "mutex_destroy" \in OtherCalls /\ "kfree" \in OtherCalls
  /\ "test_key" \in OtherCalls /\ "mod_timer" \in OtherCalls /\ "del_timer" \in OtherCalls
  /\ "add_timer" \in OtherCalls /\ "timer_pending" \in OtherCalls
  /\ OtherCalls \subseteq OpenCalls /\ "kmalloc" \in OpenCalls
BY DEF OtherCalls, OpenCalls, KeyChanges, AllCalls, LineCalls, IrqCalls, NodeCalls,
       TimerCalls, FileCalls, MutexCalls, KeyCalls, RequestCalls, OnceCalls

LEMMA OtherPrograms ==
  /\ {<<>>, Touch(Leds), Do("test_key"), Do("mod_timer"), Do("del_timer"),
      Touch(Leds) \o Do("mod_timer"), OpenOnce, CloseOnce,
      Do("del_timer") \o CloseOnce, IrqLines.freeIrq \o CloseOnce \o Do("kfree")}
       \subseteq Program(OtherCalls)
  /\ {IrqLines.toIrq, ForEach(gpioKey, <<"request_irq">>), Do("register_chrdev"),
      Do("add_timer"), Unchecked(Do("register_chrdev"))} \subseteq Program(OtherCalls)
  /\ {OneLoopLines.ledInit, OneLoopLines.keyInit, TimerDevGpio.ledInit, TimerDevGpio.keyInit,
      TimerHjyGpio.ledInit, TimerHjyGpio.keyInit, Timer0625Gpio.ledInit,
      Timer0625Gpio.keyInit} \subseteq Program(OtherCalls)
  /\ OpenOnce \in Program(OpenCalls)
  /\ Do("kmalloc") \o IrqLines.toIrq \o ForEach(gpioKey, <<"request_irq">>) \o OpenOnce
       \in Program(OpenCalls)
<1> DEFINE C == OtherCalls
<1>1. \A p, q \in Program(C) : p \o q \in Program(C)
  BY Notation
<1>2. {Touch(Leds), Do("test_key"), Do("mod_timer"), Do("del_timer"), <<>>, OpenOnce,
       CloseOnce, IrqLines.freeIrq, Do("kfree")} \subseteq Program(C)
  BY OthersIn, Notation, FilePrograms, SharedPrograms
<1>3. {Touch(Leds) \o Do("mod_timer"), Do("del_timer") \o CloseOnce,
       IrqLines.freeIrq \o CloseOnce \o Do("kfree")} \subseteq Program(C)
  BY <1>1, <1>2
<1>4. {IrqLines.toIrq, ForEach(gpioKey, <<"request_irq">>), Do("register_chrdev"),
       Do("add_timer"), Unchecked(Do("register_chrdev"))} \subseteq Program(C)
  BY OthersIn, Notation, SharedPrograms
<1>5. {OneLoopLines.ledInit, OneLoopLines.keyInit, TimerDevGpio.ledInit, TimerDevGpio.keyInit,
       TimerHjyGpio.ledInit, TimerHjyGpio.keyInit, Timer0625Gpio.ledInit,
       Timer0625Gpio.keyInit} \subseteq Program(C)
  BY OthersIn, Notation, SharedPrograms, TimerLines
<1>6. Program(C) \subseteq Program(OpenCalls)
  BY OthersIn, MonotoneIn
<1>7. Do("kmalloc") \o IrqLines.toIrq \o ForEach(gpioKey, <<"request_irq">>) \o OpenOnce
       \in Program(OpenCalls)
  <2>1. \A p, q \in Program(OpenCalls) : p \o q \in Program(OpenCalls)
    BY Notation
  <2>2. {Do("kmalloc"), IrqLines.toIrq, ForEach(gpioKey, <<"request_irq">>), OpenOnce}
          \subseteq Program(OpenCalls)
    BY <1>2, <1>4, <1>6, OthersIn, Notation
  <2>3. QED
    BY <2>1, <2>2
<1>8. QED
  BY <1>2, <1>3, <1>4, <1>5, <1>6, <1>7

\* exit of each.
LEMMA ExitsIn ==
  \A v \in {P369, P369Ksh, Kmalloc, P399, P432, TimerDev, TimerHjy, Timer0625} :
    v.exit \in Program(OtherCalls)
<1>1. \A E : E \subseteq OtherCalls => Program(E) \subseteq Program(OtherCalls)
  BY MonotoneIn
<1>2. {"unregister_chrdev", "timer_pending", "del_timer", "gpio_free", "free_irq",
       "mutex_destroy"} \subseteq OtherCalls
  BY OthersIn
<1>3. QED
  BY <1>1, <1>2, P369In, P369KshIs, KmallocIn, P399In, P432In, TimerDevIn, TimerHjyIn,
     Timer0625In

\* init of each.
LEMMA InitsIn ==
  \A v \in {P369, P369Ksh, Kmalloc, P399, P432, TimerDev, TimerHjy, Timer0625} :
    v.init \in InitFirst
<1> DEFINE irqs == ForEach(gpioKey, <<"request_irq">>)
<1>1. Do("mutex_init") \in InitFirst
      /\ \A p \in InitFirst : \A q \in Program(OtherCalls) : p \o q \in InitFirst
  BY InitConcat
<1>2. {IrqLines.toIrq, irqs, Do("register_chrdev"), Do("add_timer"),
       Unchecked(Do("register_chrdev"))} \subseteq Program(OtherCalls)
  BY OtherPrograms
<1>3. {OneLoopLines.ledInit, OneLoopLines.keyInit, TimerDevGpio.ledInit, TimerDevGpio.keyInit,
       TimerHjyGpio.ledInit, TimerHjyGpio.keyInit, Timer0625Gpio.ledInit,
       Timer0625Gpio.keyInit} \subseteq Program(OtherCalls)
  BY OtherPrograms
<1>4. P369.init \in InitFirst
  <2>1. P369.init = Do("mutex_init") \o OneLoopLines.ledInit \o OneLoopLines.keyInit \o IrqLines.toIrq
                    \o irqs \o Do("register_chrdev")
    BY DEF P369, P369Calls, P369Load, P369Gpio, Version, Plain
  <2>2. QED
    BY <1>1, <1>2, <1>3, <2>1
<1>5. P369Ksh.init \in InitFirst
  <2>1. P369Ksh.init = Do("mutex_init") \o OneLoopLines.ledInit \o OneLoopLines.keyInit \o IrqLines.toIrq
                    \o irqs \o Do("register_chrdev")
    BY DEF P369Ksh, P369KshCalls, P369KshLoad, P369KshGpio, Version, Plain
  <2>2. QED
    BY <1>1, <1>2, <1>3, <2>1
<1>6. P399.init \in InitFirst
  <2>1. P399.init = Do("mutex_init") \o OneLoopLines.ledInit \o OneLoopLines.keyInit \o IrqLines.toIrq
                    \o irqs \o Do("register_chrdev")
    BY DEF P399, P399Calls, P399Load, P399Gpio, Version, Plain
  <2>2. QED
    BY <1>1, <1>2, <1>3, <2>1
<1>7. P432.init \in InitFirst
  <2>1. P432.init = Do("mutex_init") \o OneLoopLines.ledInit \o OneLoopLines.keyInit \o IrqLines.toIrq
                    \o irqs \o Do("register_chrdev")
    BY DEF P432, P432Calls, P432Load, P432Gpio, Version, Plain
  <2>2. QED
    BY <1>1, <1>2, <1>3, <2>1
<1>8. Kmalloc.init \in InitFirst
  <2>1. Kmalloc.init = Do("mutex_init") \o OneLoopLines.ledInit \o OneLoopLines.keyInit \o Do("register_chrdev")
    BY DEF Kmalloc, KmallocCalls, KmallocLoad, KmallocGpio, Version, Plain
  <2>2. QED
    BY <1>1, <1>2, <1>3, <2>1
<1>9. TimerDev.init \in InitFirst
  <2>1. TimerDev.init = Do("mutex_init") \o TimerDevGpio.ledInit \o TimerDevGpio.keyInit \o IrqLines.toIrq
                    \o irqs \o Do("add_timer") \o Do("register_chrdev")
    BY DEF TimerDev, TimerDevCalls, TimerDevLoad, Version, Plain
  <2>2. QED
    BY <1>1, <1>2, <1>3, <2>1
<1>10. TimerHjy.init \in InitFirst
  <2>1. TimerHjy.init = Do("mutex_init") \o TimerHjyGpio.ledInit \o TimerHjyGpio.keyInit \o IrqLines.toIrq
                    \o irqs \o Do("add_timer") \o Unchecked(Do("register_chrdev"))
    BY DEF TimerHjy, TimerHjyCalls, TimerHjyLoad, Version, Plain
  <2>2. QED
    BY <1>1, <1>2, <1>3, <2>1
<1>11. Timer0625.init \in InitFirst
  <2>1. Timer0625.init = Do("mutex_init") \o Timer0625Gpio.ledInit \o Timer0625Gpio.keyInit \o IrqLines.toIrq
                    \o irqs \o Do("register_chrdev")
    BY DEF Timer0625, Timer0625Calls, Timer0625Load, Version, Plain
  <2>2. QED
    BY <1>1, <1>2, <1>3, <2>1
<1>12. QED
  BY <1>4, <1>5, <1>6, <1>7, <1>8, <1>9, <1>10, <1>11

\* The other functions of each.
MutexUsers(v) ==
  /\ v.open \in {OpenOnce,
       Do("kmalloc") \o IrqLines.toIrq \o ForEach(gpioKey, <<"request_irq">>) \o OpenOnce}
  /\ v.release \in {CloseOnce, Do("del_timer") \o CloseOnce,
                    IrqLines.freeIrq \o CloseOnce \o Do("kfree")}
  /\ v.timer \in {<<>>, Touch(Leds) \o Do("mod_timer")}
  /\ \A op \in DOMAIN v.calls :
       v.calls[op] \in {TakeUnderMutex, WaitForKey(TakeUnderMutex), Touch(Leds), <<>>,
                        Do("test_key"), Do("mod_timer"), Do("del_timer")}
  /\ DOMAIN v.direct = {}
  /\ v.isr \in {StoreUnderMutex(<<>>), StoreUnderMutex(Do("wake_up"))}

LEMMA UsersAre ==
  \A v \in {P369, P369Ksh, Kmalloc, P399, P432, TimerDev, TimerHjy, Timer0625} :
    MutexUsers(v)
<1>1. MutexUsers(P369)
  BY DEF MutexUsers, P369, P369Calls, P369Load, Version, Plain
<1>2. MutexUsers(P369Ksh)
  BY DEF MutexUsers, P369Ksh, P369KshCalls, P369KshLoad, Version, Plain
<1>3. MutexUsers(Kmalloc)
  BY DEF MutexUsers, Kmalloc, KmallocCalls, KmallocLoad, Version, Plain
<1>4. MutexUsers(P399)
  BY DEF MutexUsers, P399, P399Calls, P399Load, Version, Plain
<1>5. MutexUsers(P432)
  BY DEF MutexUsers, P432, P432Calls, P432Load, Version, Plain
<1>6. MutexUsers(TimerDev)
  BY DEF MutexUsers, TimerDev, TimerDevCalls, TimerDevLoad, Version, Plain
<1>7. MutexUsers(TimerHjy)
  BY DEF MutexUsers, TimerHjy, TimerHjyCalls, TimerHjyLoad, Version, Plain
<1>8. MutexUsers(Timer0625)
  BY DEF MutexUsers, Timer0625, Timer0625Calls, Timer0625Load, Version, Plain
<1>9. QED
  BY <1>1, <1>2, <1>3, <1>4, <1>5, <1>6, <1>7, <1>8

LEMMA ReadersUnderMutex ==
  ASSUME NEW d \in ReadsUnderMutex
  PROVE  d \in DOMAIN Driver /\ MutexShape(Driver[d])
<1> DEFINE all == {P369, P369Ksh, Kmalloc, P399, P432, TimerDev, TimerHjy, Timer0625}
<1>1. d \in DOMAIN Driver /\ Driver[d] \in all
  BY DriverIs DEF ReadsUnderMutex
<1> DEFINE v == Driver[d]
<1>2. v.init \in InitFirst /\ v.exit \in Program(OtherCalls) /\ MutexUsers(v)
  BY <1>1, InitsIn, ExitsIn, UsersAre
<1> HIDE DEF v, all
<1>3. StoreUnderMutex(<<>>) = Store3 /\ StoreUnderMutex(Do("wake_up")) = Wake4
      /\ TakeUnderMutex = Take1 /\ WaitForKey(TakeUnderMutex) = Wait1
  BY ReadsAre, WakeTailsIn
<1>4. /\ v.open \in Program(OpenCalls)
      /\ v.release \in Program(OtherCalls) /\ v.timer \in Program(OtherCalls)
      /\ DOMAIN v.direct = {} /\ v.isr \in {Store3, Wake4}
  BY <1>2, <1>3, OtherPrograms DEF MutexUsers
<1>5. \A op \in DOMAIN v.calls : v.calls[op] \in {Take1, Wait1} \cup Program(OtherCalls)
  BY <1>2, <1>3, OtherPrograms DEF MutexUsers
<1>6. MutexShape(v)
  BY <1>2, <1>4, <1>5 DEF MutexShape
<1>7. QED
  BY <1>1, <1>6 DEF v

-----------------------------------------------------------------------------
(* Who may be under the mutex.                                             *)

\* What a function of one of these versions may have left.
Left(op) ==
  IF op = "call" THEN ReadTails \cup Program(OtherCalls)
  ELSE IF op = "open" THEN Program(OpenCalls)
  ELSE IF op = "isr" THEN KeyTails
  ELSE IF op = "init" THEN InitFirst \cup Program(OtherCalls)
  ELSE Program(OtherCalls)

\* Programs that have nothing to do with a key.
Others == InitFirst \cup Program(OpenCalls)

LEMMA InitFirstSteps ==
  ASSUME NEW p \in InitFirst
  PROVE  p # <<>> /\ Head(p).call = "mutex_init" /\ Tail(p) \in Program(OtherCalls)
<1>1. PICK q \in Program(OtherCalls) : p = Do("mutex_init") \o q
  BY DEF InitFirst
<1>2. OtherCalls \subseteq AllCalls /\ "mutex_init" \in AllCalls
  BY DEF OtherCalls, OpenCalls, AllCalls, MutexCalls
<1>3. q \in Program(AllCalls)
  BY <1>2, MonotoneIn
<1>4. QED
  BY <1>1, <1>2, <1>3, FirstDo

LEMMA OthersSteps ==
  /\ Program(OtherCalls) \subseteq Program(OpenCalls)
  /\ \A p \in Others : p # <<>> =>
       /\ Tail(p) \in Others
       /\ Head(p).call \in MayFail => Head(p).fail \in Others
       /\ Head(p).call \notin KeyChanges \ {"mutex_init"}
       /\ Head(p).call = "mutex_init" => p \in InitFirst
  /\ \A p \in Program(OtherCalls) : p # <<>> => Head(p).call # "kmalloc"
  /\ Others \cap Locked = {}
<1>1. Program(OtherCalls) \subseteq Program(OpenCalls)
  BY OthersIn, MonotoneIn
<1>2. ASSUME NEW p \in Program(OpenCalls), p # <<>>
      PROVE  /\ Tail(p) \in Program(OpenCalls) /\ Head(p).fail \in Program(OpenCalls)
             /\ Head(p).call \notin KeyChanges
  <2>1. /\ Tail(p) \in Program(OpenCalls) /\ Head(p).fail \in Program(OpenCalls)
        /\ Head(p).call \in OpenCalls
    BY <1>2, ProgramSteps
  <2>2. QED
    BY <2>1 DEF OpenCalls
<1>3. ASSUME NEW p \in InitFirst
      PROVE  p # <<>> /\ Head(p).call = "mutex_init" /\ Tail(p) \in Program(OpenCalls)
  BY <1>1, InitFirstSteps
<1>4. "mutex_init" \in KeyChanges \ MayFail
  BY DEF KeyChanges, MayFail
<1>5. ASSUME NEW p \in Others, p # <<>>
      PROVE  /\ Tail(p) \in Others
             /\ Head(p).call \in MayFail => Head(p).fail \in Others
             /\ Head(p).call \notin KeyChanges \ {"mutex_init"}
             /\ Head(p).call = "mutex_init" => p \in InitFirst
  BY <1>2, <1>3, <1>4, <1>5 DEF Others
<1>6. ASSUME NEW p \in Program(OtherCalls), p # <<>>
      PROVE  Head(p).call # "kmalloc"
  <2>1. Head(p).call \in OtherCalls
    BY <1>6, ProgramSteps
  <2>2. QED
    BY <2>1 DEF OtherCalls
<1>7. ASSUME NEW p \in Others, p \in Locked PROVE FALSE
  <2>1. p # <<>> /\ p \in ReadTails \cup KeyTails /\ Head(p).call \in InsideCalls
    BY <1>7 DEF Locked
  <2>2. Head(p).call \in {"mutex_unlock", "copy_key", "clear_key", "store_key"}
        \/ (Head(p).call = "test_key" /\ p = Take2)
    <3>1. CASE Head(p).call # "test_key"
      BY <2>1, <3>1 DEF InsideCalls
    <3>2. CASE Head(p).call = "test_key"
      BY <2>1, <3>2, TakeSteps, StoreSteps DEF ReadTails, KeyTails
    <3>3. QED
      BY <3>1, <3>2
  <2>3. CASE p = Take2
    <3>1. Tail(p) \in Others /\ Tail(p) # <<>> /\ Head(Tail(p)).call = "copy_key"
      BY <1>5, <2>1, <2>3, TakeSteps
    <3>2. QED
      BY <1>5, <3>1 DEF KeyChanges
  <2>4. QED
    BY <1>5, <2>1, <2>2, <2>3 DEF KeyChanges
<1>8. QED
  BY <1>1, <1>5, <1>6, <1>7

LEMMA LeftClosed ==
  ASSUME NEW op
  PROVE  Closed(Left(op)) /\ Left(op) \subseteq ReadTails \cup KeyTails \cup Others
<1>1. Closed(Program(OtherCalls)) /\ Closed(Program(OpenCalls))
  BY ProgramClosed
<1>2. Closed(ReadTails)
  BY ReadSteps DEF Closed, ReadTails
<1>3. Closed(KeyTails)
  BY KeySteps DEF Closed, KeyTails
<1>4. \A S, T : Closed(S) /\ Closed(T) => Closed(S \cup T)
  BY DEF Closed
<1>5. Closed(InitFirst \cup Program(OtherCalls))
  <2>1. \A p \in InitFirst : p # <<>> /\ Head(p).call \notin MayFail
                             /\ Tail(p) \in Program(OtherCalls)
    BY InitFirstSteps DEF MayFail
  <2>2. QED
    BY <1>1, <2>1 DEF Closed
<1>6. Program(OtherCalls) \subseteq Others /\ Program(OpenCalls) \subseteq Others
      /\ InitFirst \subseteq Others
  BY OthersSteps DEF Others
<1>7. Closed(ReadTails \cup Program(OtherCalls))
  BY <1>1, <1>2, <1>4
<1>8. QED
  BY <1>1, <1>3, <1>5, <1>6, <1>7 DEF Left

\* What is known of the functions that run, whoever has the mutex.
ShapeInv ==
  /\ Base /\ FilesInv
  /\ drv \in ReadsUnderMutex
  /\ DOMAIN keyNum = Files \cup {kernel}
  /\ \A a \in Actors : run[a].todo \in Left(run[a].op)

LEMMA BeginsLeft ==
  ASSUME drv \in ReadsUnderMutex, NEW op \in Ops \ {"idle"}, NEW p, Begins(drv, op, p)
  PROVE  p \in Left(op) /\ p \notin Locked
<1>1. MutexShape(Driver[drv])
  BY ReadersUnderMutex
<1>2. \/ op = "init" /\ p \in InitFirst
      \/ op = "open" /\ p \in Program(OpenCalls)
      \/ op \in {"exit", "release", "timer"} /\ p \in Program(OtherCalls)
      \/ op = "call" /\ p \in {Take1, Wait1} \cup Program(OtherCalls)
      \/ op = "isr" /\ p \in {Store3, Wake4}
  <2>1. CASE op = "call"
    BY <1>1, <2>1 DEF MutexShape, Begins
  <2>2. CASE op = "direct"
    BY <1>1, <2>2 DEF MutexShape, Begins
  <2>3. CASE op \in {"init", "exit", "open", "release", "timer", "isr"}
    BY <1>1, <2>3 DEF MutexShape, Begins
  <2>4. QED
    BY <2>1, <2>2, <2>3 DEF Ops
<1>3. {Take1, Wait1} \subseteq ReadTails /\ {Store3, Wake4} \subseteq KeyTails
  BY DEF ReadTails, KeyTails
<1>4. {Take1, Wait1, Store3, Wake4} \cap Locked = {}
  BY TakeSteps, StoreSteps DEF Locked, InsideCalls
<1>5. QED
  BY <1>2, <1>3, <1>4, OthersSteps DEF Left, Others

LEMMA InitShapeInv ==
  ASSUME Init, drv \in ReadsUnderMutex
  PROVE  ShapeInv
<1>1. \A a \in Actors : run[a].todo = <<>>
  BY DEF Init, Idle
<1>2. \A op : <<>> \in Left(op)
  BY LeftClosed DEF Closed
<1>3. QED
  BY <1>1, <1>2, InitBase, InitFilesInv DEF ShapeInv, Init

LEMMA NextShapeInv ==
  ASSUME ShapeInv, [Next]_vars
  PROVE  ShapeInv'
<1>1. Base /\ FilesInv /\ drv \in ReadsUnderMutex /\ drv \in DOMAIN Driver
  BY ReadersUnderMutex DEF ShapeInv
<1>2. drv' = drv
  BY StatementFrame, OtherFrame DEF vars, modVars
<1>3. Base' /\ FilesInv'
  BY <1>1, BeginsKnown, NextBase, NextFilesInv
<1>4. DOMAIN keyNum' = DOMAIN keyNum
  <2>1. ASSUME NEW a \in Actors, Statement(a) PROVE DOMAIN keyNum' = DOMAIN keyNum
    BY <2>1, StatementFrame DEF Kmalloc_, StoreKey, ClearKey
  <2>2. ASSUME Next, \A a \in Actors : ~Statement(a) PROVE DOMAIN keyNum' = DOMAIN keyNum
    BY <2>2, OtherFrame DEF Insmod
  <2>3. QED
    BY <2>1, <2>2 DEF vars, keyVars
<1>5. ASSUME NEW a \in Actors
      PROVE  run'[a].todo \in Left(run'[a].op)
  <2>1. run'[a].op \in Ops
    <3>1. run'[a].op \in OpsOf(a)
      BY <1>3 DEF Base
    <3>2. QED
      BY <3>1, ActorOps DEF Ops, Actors
  <2>2. CASE run'[a].op = "idle"
    <3>1. run'[a].todo = <<>>
      BY <1>3, <2>2 DEF Base, Idle
    <3>2. QED
      BY <3>1, LeftClosed DEF Closed
  <2>3. ASSUME NEW op \in Ops \ {"idle"}, run'[a].op = op
        PROVE  run'[a].todo \in Left(op)
    <3>1. Closed(Left(op))
      BY LeftClosed
    <3>2. run[a].op = op => run[a].todo \in Left(op)
      BY DEF ShapeInv
    <3>3. \A p : Begins(drv, op, p) => p \in Left(op)
      BY <1>1, BeginsLeft
    <3>4. QED
      BY <1>1, <2>3, <3>1, <3>2, <3>3, StaysInOp
  <2>4. QED
    BY <2>1, <2>2, <2>3
<1>6. QED
  BY <1>1, <1>2, <1>3, <1>4, <1>5 DEF ShapeInv

\* Who may be where.
LEMMA WhoHas ==
  ASSUME ShapeInv, NEW a \in Actors, run[a].todo # <<>>
  PROVE  /\ Now(a).call \in {"mutex_unlock", "clear_key", "copy_key", "store_key"} =>
              run[a].todo \in Locked
         /\ run[a].todo \in Locked =>
              /\ a \in Threads \cup Keys /\ run[a].todo \in ReadTails \cup KeyTails
              /\ a \in Threads => run[a].op = "call"
         /\ Now(a).call = "mutex_init" =>
              a = admin /\ run[a].op = "init" /\ run[a].todo \in InitFirst
         /\ Now(a).call = "kmalloc" => a \in Threads /\ run[a].op = "open"
<1> DEFINE op == run[a].op
           p  == run[a].todo
<1>1. p \in Left(op) /\ op \in OpsOf(a) /\ (op = "idle" => p = <<>>)
  BY DEF ShapeInv, Base, Idle
<1>2. /\ op = "call" \/ op = "open" => a \in Threads
      /\ op = "isr" => a \in Keys
      /\ op = "init" => a = admin
  BY <1>1, ActorOps DEF Actors
<1>3. p \in ReadTails \cup KeyTails =>
        /\ Now(a).call \in {"mutex_unlock", "clear_key", "copy_key",
             "store_key"} => p \in Locked
        /\ Now(a).call \notin {"mutex_init", "kmalloc"}
        /\ p \in Left(op) \ Others => op \in {"call", "isr"}
  <2>1. op \notin {"call", "isr"} => Left(op) \subseteq Others
    BY OthersSteps DEF Left, Others
  <2>2. QED
    BY <2>1, LockedSteps DEF Now
<1>4. p \in Others =>
        /\ p \notin Locked
        /\ Now(a).call \notin {"mutex_unlock", "clear_key", "copy_key", "store_key"}
        /\ Now(a).call = "mutex_init" => p \in InitFirst
  BY OthersSteps DEF Now, KeyChanges
<1>5. p \in InitFirst => op = "init"
  <2>1. ASSUME p \in InitFirst
        PROVE  p \notin ReadTails \cup KeyTails \cup Program(OpenCalls)
    <3>1. Now(a).call = "mutex_init"
      BY <2>1, InitFirstSteps DEF Now
    <3>2. p \notin ReadTails \cup KeyTails
      BY <1>3, <3>1
    <3>3. p \notin Program(OpenCalls)
      <4>1. p \in Program(OpenCalls) => Head(p).call \in OpenCalls
        BY ProgramSteps
      <4>2. QED
        BY <3>1, <4>1 DEF OpenCalls, KeyChanges, Now
    <3>4. QED
      BY <3>2, <3>3
  <2>2. QED
    BY <1>1, <2>1, OthersSteps DEF Left
<1>6. Now(a).call = "kmalloc" => op = "open"
  <2>1. p \in Program(OtherCalls) => Now(a).call # "kmalloc"
    BY OthersSteps DEF Now
  <2>2. p \in InitFirst => Now(a).call # "kmalloc"
    BY InitFirstSteps DEF Now
  <2>3. QED
    BY <1>1, <1>3, <2>1, <2>2 DEF Left
<1>7. p \in ReadTails \cup KeyTails \cup Others
  BY <1>1, LeftClosed
<1>8. p \in Locked => p \in ReadTails \cup KeyTails
  BY DEF Locked
<1>9. p \in Locked => op \in {"call", "isr"}
  BY <1>1, <1>3, <1>4, <1>8
<1>10. p \in Locked => a \in Threads \cup Keys /\ (a \in Threads => op = "call")
  BY <1>2, <1>9, ActorAssumption
<1>11. Now(a).call \in {"mutex_unlock", "clear_key", "copy_key", "store_key"} => p \in Locked
  BY <1>3, <1>4, <1>7
<1>12. Now(a).call = "mutex_init" => a = admin /\ op = "init" /\ p \in InitFirst
  BY <1>2, <1>3, <1>4, <1>5, <1>7
<1>13. QED
  BY <1>2, <1>6, <1>8, <1>10, <1>11, <1>12

\* Whoever is under the mutex after a step was in read() or keyIsr() before it.
LEMMA WhoComes ==
  ASSUME ShapeInv, [Next]_vars, NEW a \in Actors, run'[a].todo \in Locked
  PROVE  /\ run[a].todo # <<>> /\ run[a].todo \in ReadTails \cup KeyTails
         /\ Same(a) \/ Advances(a) \/ Copies(a) \/ Fails(a)
<1>1. Base /\ Steps(a) /\ drv \in ReadsUnderMutex
  BY NextRun DEF ShapeInv
<1>2. Formed(run[a])
  BY <1>1 DEF Base
<1>3. run'[a].todo # <<>>
  BY DEF Locked
<1>4. ~Ends(a)
  BY <1>3 DEF Ends, Idle
<1>5. ~Starts(a)
  <2>1. SUFFICES ASSUME Starts(a) PROVE FALSE
    OBVIOUS
  <2>2. run'[a].op \in Ops \ {"idle"} /\ Begins(drv, run'[a].op, run'[a].todo)
    BY <2>1, ActorOps DEF Starts, Ops, Actors
  <2>3. QED
    BY <1>1, <2>2, BeginsLeft
<1>6. run[a].todo # <<>>
  BY <1>1, <1>3, <1>4, <1>5 DEF Steps, Same, Advances, Copies, Fails, At
<1>7. run[a].todo \notin Others
  <2>1. SUFFICES ASSUME run[a].todo \in Others PROVE FALSE
    OBVIOUS
  <2>2. /\ Tail(run[a].todo) \in Others
        /\ Now(a).call \in MayFail => Now(a).fail \in Others
    BY <1>6, <2>1, OthersSteps DEF Now
  <2>3. run'[a].todo \in Others
    BY <1>1, <1>2, <1>4, <1>5, <2>1, <2>2
    DEF Steps, Same, Advances, Copies, Fails, Formed
  <2>4. QED
    BY <2>3, OthersSteps
<1>8. run[a].todo \in ReadTails \cup KeyTails
  BY <1>7, LeftClosed DEF ShapeInv
<1>9. QED
  BY <1>1, <1>4, <1>5, <1>6, <1>8 DEF Steps

-----------------------------------------------------------------------------
(* What read() clears is what it has copied.                               *)

LEMMA LockCalls ==
  ASSUME NEW a \in Actors, Statement(a), a \notin asleep
  PROVE  /\ Now(a).call = "mutex_trylock" => Mutex(a)
         /\ Now(a).call = "mutex_unlock" => Mutex(a)
         /\ Now(a).call = "mutex_init" => Mutex(a)
         /\ Now(a).call = "copy_key" => CopyKey(a)
         /\ Now(a).call = "clear_key" => ClearKey(a)
<1> USE DEF At, Statement, GpioRequest, GpioDirection, GpioFree, TouchLines, GpioToIrq,
            RequestIrq, FreeIrq, RegisterChrdev, UnregisterChrdev, ProvideCall, RemoveCall,
            SetTimer, TryModuleGet, ModulePut, Kmalloc_, Kfree, Test, SetFlag,
            WaitEvent, Signal, StoreKey, WakeUp
<1>1. Now(a).call \in {"mutex_init", "mutex_trylock", "mutex_unlock"} => Mutex(a)
  BY DEF CopyKey, ClearKey
<1>2. Now(a).call = "copy_key" => CopyKey(a)
  BY DEF Mutex, ClearKey
<1>3. Now(a).call = "clear_key" => ClearKey(a)
  BY DEF Mutex, CopyKey
<1>4. QED
  BY <1>1, <1>2, <1>3

LEMMA SucceedTail ==
  ASSUME Base, NEW a \in Actors, Succeed(a)
  PROVE  run'[a].todo = Tail(run[a].todo)
<1>1. DOMAIN run = Actors /\ Formed(run[a])
  BY DEF Base
<1>2. QED
  BY <1>1 DEF Succeed, Formed

\* Before init has made the mutex nobody else is in the driver.
Untouched ==
  /\ nodes = {} /\ ~armed /\ \A k \in Keys : handler[k] = none
  /\ \A f \in Files : files[f] = "closed"
  /\ \A a \in Actors \ {admin} : run[a] = Idle

MutexInv ==
  /\ ShapeInv
  /\ run[admin].op = "init" /\ run[admin].todo \in InitFirst => Untouched
  /\ \A a \in Threads \cup Keys : run[a].todo \in Locked => keyMutex = a
  /\ \A t \in Threads : run[t].todo # <<>> /\ Now(t).call = "clear_key" =>
       keyNum[Box(t)] = run[t].got

LEMMA InitMutexInv ==
  ASSUME Init, drv \in ReadsUnderMutex
  PROVE  MutexInv
<1>1. \A a \in Actors : run[a] = Idle
  BY DEF Init
<1>2. Threads \cup Keys \subseteq Actors /\ admin \in Actors
  BY DEF Actors
<1>3. <<>> \notin Locked
  BY DEF Locked
<1>4. QED
  BY <1>1, <1>2, <1>3, InitShapeInv DEF MutexInv, Idle

LEMMA NextUntouched ==
  ASSUME MutexInv, [Next]_vars, run'[admin].op = "init", run'[admin].todo \in InitFirst
  PROVE  Untouched'
<1>1. Base /\ admin \in Actors /\ DOMAIN run = Actors
  BY DEF MutexInv, ShapeInv, Base, Actors
<1>2. CASE Insmod
  <2>1. \A a \in Actors \ {admin} : run'[a] = Idle
    BY <1>1, <1>2 DEF Insmod, Start
  <2>2. UNCHANGED <<nodes, armed, handler, files>>
    BY <1>2 DEF Insmod
  <2>3. QED
    BY <1>2, <2>1, <2>2 DEF Insmod, NothingDangles, Untouched
<1>3. CASE ~Insmod
  <2>1. Same(admin)
    <3>1. run[admin].op = "init"
      BY <1>1, <1>3, ModStep DEF vars, Idle
    <3>2. run[admin].todo \in Left("init") /\ Formed(run[admin])
      BY <1>1, <3>1 DEF MutexInv, ShapeInv, Base
    <3>3. run[admin].todo \in InitFirst \cup Program(OtherCalls)
      BY <3>2 DEF Left
    <3>4. ASSUME NEW p \in Program(OtherCalls) PROVE p \notin InitFirst
      <4>1. p # <<>> => Head(p).call \in OtherCalls
        BY ProgramSteps
      <4>2. QED
        BY <4>1, InitFirstSteps DEF OtherCalls, OpenCalls, KeyChanges
    <3>5. run[admin].todo # <<>> =>
            /\ Tail(run[admin].todo) \in Program(OtherCalls)
            /\ Now(admin).call \in MayFail => Now(admin).fail \in Program(OtherCalls)
      <4>1. "mutex_init" \notin MayFail
        BY DEF MayFail
      <4>2. QED
        BY <3>3, <4>1, InitFirstSteps, ProgramSteps DEF Now
    <3>6. ~Advances(admin) /\ ~Copies(admin) /\ ~Fails(admin)
      BY <3>2, <3>4, <3>5 DEF Advances, Copies, Fails, Formed, At
    <3>7. ~Starts(admin) /\ ~Ends(admin)
      BY <3>1 DEF Starts, Ends, Idle
    <3>8. QED
      BY <1>1, <3>6, <3>7, NextRun DEF Steps
  <2>2. Untouched
    BY <2>1 DEF MutexInv, Same
  <2>3. run[admin].todo # <<>> /\ run[admin].op = "init"
    BY <2>1, InitFirstSteps DEF Same
  <2>4. ASSUME Next PROVE FALSE
    <3>1. \A a \in Actors : a # admin => run[a] = Idle
      BY <2>2 DEF Untouched
    <3>2. \A a \in Actors : a # admin => ~Statement(a)
      <4>1. ASSUME NEW a \in Actors, a # admin, Statement(a) PROVE FALSE
        <5>1. run[a].todo # <<>>
          BY <1>1, <4>1, StatementFrame DEF Signal, Base
        <5>2. QED
          BY <3>1, <4>1, <5>1 DEF Idle
      <4>2. QED
        BY <4>1
    <3>3. ~Statement(admin)
      <4>1. SUFFICES ASSUME Statement(admin) PROVE FALSE
        OBVIOUS
      <4>2. run[admin].todo \in InitFirst
        BY <2>1 DEF Same
      <4>3. Now(admin).call = "mutex_init" /\ Tail(run[admin].todo) \in Program(OtherCalls)
        BY <4>2, InitFirstSteps DEF Now
      <4>4. admin \notin asleep
        BY <1>1, <4>3 DEF Base
      <4>5. Mutex(admin)
        BY <1>1, <4>1, <4>3, <4>4, LockCalls
      <4>6. Succeed(admin)
        BY <4>3, <4>5 DEF Mutex, At
      <4>7. run'[admin].todo = Tail(run[admin].todo)
        BY <1>1, <4>6, SucceedTail
      <4>8. Tail(run[admin].todo) # <<>> =>
              Head(Tail(run[admin].todo)).call \in OtherCalls
        BY <4>3, ProgramSteps
      <4>9. Tail(run[admin].todo) \notin InitFirst
        BY <4>8, InitFirstSteps DEF OtherCalls, OpenCalls, KeyChanges
      <4>10. QED
        BY <4>7, <4>9
    <3>4. ~Insmod /\ ~Rmmod /\ ~InitReturns /\ ~ExitReturns
      BY <1>1, <1>3, <2>3 DEF Base, Rmmod, InitReturns, ExitReturns, Done
    <3>5. \A t \in Threads \cup Keys \cup {softirq} : t \in Actors /\ run[t] = Idle
      BY <3>1, ActorAssumption DEF Actors
    <3>6. \A t \in Threads : ~OpenReturns(t) /\ ~ReleaseReturns(t)
      BY <3>5 DEF OpenReturns, ReleaseReturns, Done, Idle
    <3>7. \A t \in Threads : ~DirectCall(t)
      BY <2>2 DEF Untouched, DirectCall
    <3>8. \A t \in Threads, f \in Files : ~Open(t, f) /\ ~Call(t, f) /\ ~Close(t, f)
      BY <2>2 DEF Untouched, Open, Call, Close
    <3>9. (\A k \in Keys : ~Press(k)) /\ ~TimerExpires
      BY <2>2 DEF Untouched, Press, TimerExpires
    <3>10. \A a \in Actors : ~Return(a)
      BY <2>3, <3>1 DEF Return, Done, Idle
    <3>11. QED
      BY <2>4, <3>2, <3>3, <3>4, <3>6, <3>7, <3>8, <3>9, <3>10 DEF Next
  <2>5. QED
    BY <2>2, <2>4 DEF vars, Untouched, irqVars, fileVars
<1>4. QED
  BY <1>2, <1>3

\* Nobody comes to be under the mutex without having it.
LEMMA NextLock ==
  ASSUME MutexInv, [Next]_vars, NEW a \in Threads \cup Keys, run'[a].todo \in Locked
  PROVE  keyMutex' = a
<1> DEFINE p == run[a].todo
<1>1. Base /\ ShapeInv /\ a \in Actors /\ a # none
  BY ActorAssumption DEF MutexInv, ShapeInv, Actors
<1>2. p # <<>> /\ p \in ReadTails \cup KeyTails
      /\ (Same(a) \/ Advances(a) \/ Copies(a) \/ Fails(a))
  BY <1>1, WhoComes
<1>3. Formed(run[a])
  BY <1>1 DEF Base
<1>4. \/ run'[a].todo = p
      \/ run'[a].todo = Tail(p)
      \/ run'[a].todo = Now(a).fail /\ Now(a).checked /\ Now(a).call \in MayFail
  BY <1>2, <1>3 DEF Same, Advances, Copies, Fails, Formed
<1>5. p \in Locked \/ Now(a).call = "mutex_trylock"
  BY <1>2, <1>4, LockedSteps DEF Now
<1>6. p \in Locked => keyMutex = a
  BY DEF MutexInv
<1>7. CASE Statement(a)
  <2>1. CASE Now(a).call = "mutex_trylock"
    <3>1. Now(a).checked /\ p \notin Locked /\ Now(a).fail \notin Locked
      BY <1>2, <2>1, LockedSteps DEF Now
    <3>2. a \notin asleep
      BY <1>1, <2>1 DEF Base
    <3>3. Mutex(a)
      BY <1>1, <1>7, <2>1, <3>2, LockCalls
    <3>4. (keyMutex = none /\ keyMutex' = a) \/ (Fail(a) /\ UNCHANGED keyMutex)
      BY <2>1, <3>3 DEF Mutex, At
    <3>5. ~Fail(a)
      BY <1>1, <1>3, <3>1 DEF Fail, Base, Formed
    <3>6. QED
      BY <3>4, <3>5
  <2>2. CASE Now(a).call # "mutex_trylock"
    <3>1. keyMutex = a /\ p \in Locked
      BY <1>5, <1>6, <2>2
    <3>2. CASE Mutex(a)
      <4>1. Now(a).call \notin {"mutex_init", "kmalloc"}
        BY <1>2, LockedSteps DEF Now
      <4>2. CASE Now(a).call = "mutex_unlock"
        <5>1. Succeed(a)
          BY <3>2, <4>2 DEF Mutex, At
        <5>2. run'[a].todo = Tail(p)
          BY <1>1, <5>1, SucceedTail
        <5>3. QED
          BY <1>2, <4>2, <5>2, LockedSteps DEF Now
      <4>3. CASE Now(a).call # "mutex_unlock"
        BY <2>2, <3>1, <3>2, <4>1, <4>3 DEF Mutex, At
      <4>4. QED
        BY <4>2, <4>3
    <3>3. QED
      BY <1>1, <1>7, <3>1, <3>2, StatementFrame
  <2>3. QED
    BY <2>1, <2>2
<1>8. CASE ~Statement(a)
  <2>1. Next => Same(a)
    <3>1. ASSUME NEW b \in Actors, Statement(b) PROVE Same(a)
      BY <1>1, <1>8, <3>1, StatementRun DEF Alone
    <3>2. ASSUME Next, \A b \in Actors : ~Statement(b) PROVE Same(a)
      <4>1. PICK b \in Actors : Alone(b) /\ (Starts(b) \/ Ends(b))
        BY <1>1, <3>2, OtherRun
      <4>2. run[b].todo = <<>>
        BY <4>1 DEF Starts, Ends, Idle
      <4>3. QED
        BY <1>1, <1>2, <4>1, <4>2 DEF Alone
    <3>3. QED
      BY <3>1, <3>2
  <2>2. p \in Locked /\ keyMutex = a
    <3>1. run'[a] = run[a]
      BY <2>1 DEF Same, vars
    <3>2. QED
      BY <1>6, <3>1
  <2>3. ASSUME NEW b \in Actors, Statement(b), Mutex(b), b # a
        PROVE  keyMutex' = keyMutex
    <3>1. run[b].todo # <<>>
      BY <2>3 DEF Mutex, At
    <3>2. Now(b).call # "mutex_unlock"
      <4>1. Now(b).call = "mutex_unlock" => run[b].todo \in Locked /\ b \in Threads \cup Keys
        BY <1>1, <3>1, WhoHas
      <4>2. QED
        BY <2>2, <2>3, <4>1 DEF MutexInv
    <3>3. Now(b).call # "mutex_init"
      <4>1. Now(b).call = "mutex_init" =>
              b = admin /\ run[b].op = "init" /\ run[b].todo \in InitFirst
        BY <1>1, <3>1, WhoHas
      <4>2. Now(b).call = "mutex_init" => run[a] = Idle
        BY <1>1, <2>3, <4>1 DEF MutexInv, Untouched
      <4>3. QED
        BY <1>2, <4>2 DEF Idle
    <3>4. QED
      BY <1>1, <2>2, <2>3, <3>2, <3>3 DEF Mutex, At
  <2>4. CASE \E b \in Actors : Statement(b)
    BY <1>8, <2>2, <2>3, <2>4, StatementFrame
  <2>5. ASSUME Next, \A b \in Actors : ~Statement(b) PROVE keyMutex' = keyMutex
    <3>1. ~Insmod
      BY <1>1, <1>2 DEF Insmod, Idle
    <3>2. QED
      BY <2>5, <3>1, OtherFrame
  <2>6. QED
    BY <2>2, <2>4, <2>5 DEF vars, keyVars
<1>9. QED
  BY <1>7, <1>8

\* Nobody changes the key between a read()'s copying it and clearing it.
LEMMA NextClears ==
  ASSUME MutexInv, [Next]_vars, NEW t \in Threads,
         run'[t].todo # <<>>, Head(run'[t].todo).call = "clear_key", run'[t].todo \in Locked
  PROVE  keyNum'[Box(t)'] = run'[t].got
<1> DEFINE p == run[t].todo
<1>1. Base /\ ShapeInv /\ FilesInv /\ t \in Actors /\ DOMAIN run = Actors
  BY DEF MutexInv, ShapeInv, Base, Actors
<1>2. p # <<>> /\ p \in ReadTails \cup KeyTails
      /\ (Same(t) \/ Advances(t) \/ Copies(t) \/ Fails(t))
  BY <1>1, WhoComes
<1>3. Formed(run[t])
  BY <1>1 DEF Base
<1>4. drv' = drv
  BY StatementFrame, OtherFrame DEF vars, modVars
<1>5. run'[t].file = run[t].file
  BY <1>2, <1>3 DEF Same, Advances, Copies, Fails, Formed
<1>6. Box(t)' = Box(t)
  BY <1>4, <1>5 DEF Box
<1>7. keyMutex = t \/ Now(t).call = "mutex_trylock"
  <2>1. p \in Locked \/ Now(t).call = "mutex_trylock"
    <3>1. \/ run'[t].todo = p
          \/ run'[t].todo = Tail(p)
          \/ run'[t].todo = Now(t).fail /\ Now(t).call \in MayFail
      BY <1>2, <1>3 DEF Same, Advances, Copies, Fails, Formed
    <3>2. QED
      BY <1>2, <3>1, LockedSteps DEF Now
  <2>2. QED
    BY <2>1 DEF MutexInv
<1>8. CASE Same(t)
  <2>1. run'[t].got = run[t].got /\ Now(t).call = "clear_key" /\ run'[t].todo = p
    BY <1>8 DEF Same, Now
  <2>2. keyMutex = t /\ p \in Locked /\ t \notin asleep
    BY <1>1, <1>7, <2>1 DEF Base
  <2>3. keyNum[Box(t)] = run[t].got
    BY <1>2, <2>1 DEF MutexInv
  <2>4. ASSUME NEW b \in Actors, Statement(b)
        PROVE  keyNum'[Box(t)] = keyNum[Box(t)]
    <3>1. b # t
      <4>1. ClearKey(t) => run'[t].todo = Tail(p)
        BY <1>1, SucceedTail DEF ClearKey
      <4>2. Statement(t) => ClearKey(t)
        BY <1>1, <2>1, <2>2, LockCalls
      <4>3. Head(Tail(p)).call # "clear_key" \/ Tail(p) = <<>>
        BY <1>2, <2>1, LockedSteps DEF Now
      <4>4. QED
        BY <2>1, <2>4, <4>1, <4>2, <4>3 DEF Now
    <3>2. ~StoreKey(b) /\ ~ClearKey(b)
      <4>1. StoreKey(b) \/ ClearKey(b) =>
              run[b].todo # <<>> /\ Now(b).call \in {"store_key", "clear_key"}
        BY DEF StoreKey, ClearKey, At
      <4>2. StoreKey(b) \/ ClearKey(b) => run[b].todo \in Locked /\ b \in Threads \cup Keys
        BY <1>1, <2>4, <4>1, WhoHas
      <4>3. QED
        BY <2>2, <3>1, <4>2 DEF MutexInv
    <3>3. CASE Kmalloc_(b)
      <4>1. run[b].todo # <<>> /\ Now(b).call = "kmalloc"
        BY <3>3 DEF Kmalloc_, At
      <4>2. b \in Threads /\ run[b].op = "open"
        BY <1>1, <4>1, WhoHas
      <4>3. t \in Threads /\ run[t].op = "call"
        BY <1>1, <1>2, <2>2, WhoHas
      <4>4. run[t].file # run[b].file /\ run[t].file \in Files /\ run[b].file \in Files
        BY <1>1, <4>2, <4>3 DEF FilesInv
      <4>5. kernel \notin Files
        BY FileAssumption
      <4>6. Box(t) \in DOMAIN keyNum /\ Box(t) # run[b].file
        BY <1>1, <4>4, <4>5 DEF Box, ShapeInv
      <4>7. QED
        BY <3>3, <4>6 DEF Kmalloc_
    <3>4. QED
      BY <2>4, <3>2, <3>3, StatementFrame
  <2>5. ASSUME Next, \A b \in Actors : ~Statement(b)
        PROVE  keyNum' = keyNum
    <3>1. ~Insmod
      BY <1>1, <1>2 DEF Insmod, Idle
    <3>2. QED
      BY <2>5, <3>1, OtherFrame
  <2>6. keyNum'[Box(t)] = keyNum[Box(t)]
    BY <2>4, <2>5 DEF vars, keyVars
  <2>7. QED
    BY <1>6, <2>1, <2>3, <2>6
<1>9. CASE ~Same(t)
  <2>1. run'[t].todo = Tail(p) \/ (run'[t].todo = Now(t).fail /\ Now(t).call \in MayFail)
    BY <1>2, <1>3, <1>9 DEF Advances, Copies, Fails, Formed
  <2>2. Now(t).call = "copy_key"
    BY <1>2, <2>1, LockedSteps DEF Now
  <2>3. Statement(t)
    <3>1. ASSUME NEW b \in Actors, Statement(b), b # t PROVE Same(t)
      BY <1>1, <3>1, StatementRun DEF Alone
    <3>2. ASSUME Next, \A b \in Actors : ~Statement(b) PROVE Same(t)
      <4>1. PICK b \in Actors : Alone(b) /\ (Starts(b) \/ Ends(b))
        BY <1>1, <3>2, OtherRun
      <4>2. run[b].todo = <<>>
        BY <4>1 DEF Starts, Ends, Idle
      <4>3. QED
        BY <1>1, <1>2, <4>1, <4>2 DEF Alone
    <3>3. QED
      BY <1>9, <3>1, <3>2 DEF vars, Same
  <2>4. CopyKey(t)
    BY <1>1, <2>2, <2>3, LockCalls DEF Base
  <2>5. run'[t].got = keyNum[Box(t)] /\ keyNum' = keyNum
    BY <1>1, <1>3, <2>4 DEF CopyKey, keyVars, Formed
  <2>6. QED
    BY <1>6, <2>5
<1>10. QED
  BY <1>8, <1>9

LEMMA NextMutexInv ==
  ASSUME MutexInv, [Next]_vars
  PROVE  MutexInv'
<1>1. ShapeInv'
  BY NextShapeInv DEF MutexInv
<1>2. (run[admin].op = "init" /\ run[admin].todo \in InitFirst => Untouched)'
  BY NextUntouched
<1>3. \A a \in Threads \cup Keys : run'[a].todo \in Locked => keyMutex' = a
  BY NextLock
<1>4. ASSUME NEW t \in Threads, run'[t].todo # <<>>, Head(run'[t].todo).call = "clear_key"
      PROVE  keyNum'[Box(t)'] = run'[t].got
  <2>1. run'[t].todo \in Locked
    <3>1. run'[t].todo \in ReadTails \cup KeyTails \cup Others
      <4>1. t \in Actors
        BY DEF Actors
      <4>2. run'[t].todo \in Left(run'[t].op)
        BY <1>1, <4>1 DEF ShapeInv
      <4>3. QED
        BY <4>2, LeftClosed
    <3>2. QED
      BY <1>4, <3>1, LockedSteps, OthersSteps DEF KeyChanges
  <2>2. QED
    BY <1>4, <2>1, NextClears
<1>5. QED
  BY <1>1, <1>2, <1>3, <1>4 DEF MutexInv, Now

\* However many threads read one file and whichever keys are pressed meanwhile:
\* in the versions whose read() takes the mutex, what it clears is the key it has
\* copied, so that no press is erased unseen and none is handed out twice.
THEOREM ReadTakesWhatItClears == Spec => []ClearsWhatItCopied
<1> DEFINE Inv == drv \in ReadsUnderMutex => MutexInv
<1>1. Init => Inv
  BY InitMutexInv
<1>2. Inv /\ [Next]_vars => Inv'
  <2>1. [Next]_vars => drv' = drv
    BY StatementFrame, OtherFrame DEF vars, modVars
  <2>2. QED
    BY <2>1, NextMutexInv
<1>3. Inv => ClearsWhatItCopied
  BY DEF MutexInv, ClearsWhatItCopied, At
<1>4. QED
  BY <1>1, <1>2, <1>3, PTL DEF Spec

-----------------------------------------------------------------------------
(* What is left of open() and of release().                                *)

\* open() and release() by what they hold: the module and the flag; the module and
\* a structure; the module alone.
Once  == {"P238", "P369", "P369Ksh", "P399", "P399Ksh", "P432", "TimerDev", "TimerHjy",
          "Timer0625"}
Boxed == {"Backup", "P184", "P184b0620", "CalldevLedkey"}
Ioctl == {"P306", "P306Ledkey"}
UsesGet == Once \cup Boxed \cup Ioctl

\* What is left of their open() after each statement.
Once3 == Do("try_module_get")
Once2 == Do("set_open") \o Once3
Once1 == Do("test_open") \o Once2
Box2  == Do("kmalloc")
Box1  == Unchecked(Do("try_module_get")) \o Box2
Get1  == Unchecked(Do("try_module_get"))

\* And of their release().
Shut3  == Do("clear_open")
Shut2  == Do("module_put") \o Shut3
Shut1  == Do("del_timer") \o Shut2
Unbox2 == Do("kfree")
Unbox1 == Do("module_put") \o Unbox2
Put1   == Do("module_put")
FreeLines == IfThen("test_init", P306LedkeyGpio.ledFree \o P306LedkeyGpio.keyFree, <<>>)
Put2   == Do("module_put") \o FreeLines
FreeCalls == {"test_init", "gpio_free"}

\* Those with the reference still to take, and with it still to give back.
Getting == {Once1, Once2, Once3, Box1, Get1}
Putting == {Shut1, Shut2, Unbox1, Put1, Put2}

HoldCalls == {"try_module_get", "module_put", "kmalloc", "kfree", "set_open", "clear_open"}
PlainCalls == AllCalls \ (HoldCalls \cup {"register_chrdev"})

LEMMA HoldCallsIn ==
  /\ "try_module_get" \in AllCalls /\ "set_open" \in AllCalls /\ "test_open" \in AllCalls
  /\ "kmalloc" \in AllCalls /\ "clear_open" \in AllCalls /\ "module_put" \in AllCalls
  /\ "del_timer" \in AllCalls /\ "kfree" \in AllCalls
BY DEF AllCalls, FileCalls, TimerCalls

LEMMA HoldIn ==
  /\ Once3 \in Program(AllCalls) /\ Once2 \in Program(AllCalls)
  /\ Box2 \in Program(AllCalls) /\ Shut3 \in Program(AllCalls) /\ Shut2 \in Program(AllCalls)
  /\ Unbox2 \in Program(AllCalls)
  /\ FreeLines \in Program(FreeCalls) /\ FreeLines \in Program(AllCalls)
<1>1. /\ Once3 \in Program(AllCalls) /\ Once2 \in Program(AllCalls)
      /\ Box2 \in Program(AllCalls) /\ Shut3 \in Program(AllCalls)
      /\ Shut2 \in Program(AllCalls) /\ Unbox2 \in Program(AllCalls)
  BY HoldCallsIn, Notation DEF Once3, Once2, Box2, Shut3, Shut2, Unbox2
<1>2. FreeLines \in Program(FreeCalls)
  BY Notation, SharedPrograms DEF FreeLines, IfThen, P306LedkeyGpio, FreeCalls
<1>3. FreeCalls \subseteq AllCalls
  BY DEF FreeCalls, AllCalls, FileCalls, LineCalls
<1>4. QED
  BY <1>1, <1>2, <1>3, MonotoneIn

\* A statement whose result is dropped.
Loose(call) == [On({}, call) EXCEPT !.checked = FALSE]

LEMMA Dropped ==
  ASSUME NEW call
  PROVE  Unchecked(Do(call)) = <<Loose(call)>>
<1>1. DOMAIN Do(call) = 1..1 /\ Do(call)[1] = On({}, call)
  BY DEF Do
<1>2. Unchecked(Do(call)) = [n \in 1..1 |-> Loose(call)]
  <2>1. Unchecked(Do(call)) = [n \in 1..1 |-> [Do(call)[n] EXCEPT !.checked = FALSE]]
    BY <1>1 DEF Unchecked
  <2>2. ASSUME NEW n \in 1..1
        PROVE  [Do(call)[n] EXCEPT !.checked = FALSE] = Loose(call)
    <3>1. Do(call)[n] = On({}, call)
      BY <1>1
    <3>2. QED
      BY <3>1, Zenon DEF Loose
  <2>3. QED
    BY <2>1, <2>2, Zenon
<1> DEFINE a == Loose(call)
<1> HIDE DEF a
<1>3. [n \in 1..1 |-> a] = <<a>>
  OBVIOUS
<1>4. QED
  BY <1>2, <1>3 DEF a

LEMMA OpenSteps ==
  /\ Once1 # <<>> /\ Head(Once1).call = "test_open" /\ Head(Once1).fail = <<>>
  /\ Tail(Once1) = Once2
  /\ Once2 # <<>> /\ Head(Once2).call = "set_open" /\ Tail(Once2) = Once3
  /\ Once3 # <<>> /\ Head(Once3).call = "try_module_get" /\ Head(Once3).fail = <<>>
  /\ Head(Once3).checked /\ Tail(Once3) = <<>>
  /\ Box1 # <<>> /\ Head(Box1).call = "try_module_get" /\ ~Head(Box1).checked
  /\ Tail(Box1) = Box2
  /\ Box2 # <<>> /\ Head(Box2).call = "kmalloc" /\ Head(Box2).fail = <<>>
  /\ Head(Box2).checked /\ Tail(Box2) = <<>>
  /\ Get1 # <<>> /\ Head(Get1).call = "try_module_get" /\ ~Head(Get1).checked
  /\ Tail(Get1) = <<>>
<1>1. /\ Once1 # <<>> /\ Head(Once1).call = "test_open" /\ Head(Once1).fail = <<>>
      /\ Tail(Once1) = Once2
  <2>1. Once1 = Do("test_open") \o Once2
    BY DEF Once1
  <2>2. "test_open" \in AllCalls /\ Once2 \in Program(AllCalls)
    BY HoldIn, HoldCallsIn
  <2>3. QED
    BY <2>1, <2>2, FirstDo
<1>2. Once2 # <<>> /\ Head(Once2).call = "set_open" /\ Tail(Once2) = Once3
  <2>1. Once2 = Do("set_open") \o Once3
    BY DEF Once2
  <2>2. "set_open" \in AllCalls /\ Once3 \in Program(AllCalls)
    BY HoldIn, HoldCallsIn
  <2>3. QED
    BY <2>1, <2>2, FirstDo
<1>3. \A call : Do(call) # <<>> /\ Head(Do(call)).call = call /\ Head(Do(call)).fail = <<>>
                /\ Head(Do(call)).checked /\ Tail(Do(call)) = <<>>
  <2>1. ASSUME NEW call
        PROVE  Do(call) = <<One(call)>> /\ One(call).checked
    BY OneStatement
  <2>2. \A a : Head(<<a>>) = a
    OBVIOUS
  <2>3. QED
    BY <2>1, <2>2, LastDo
<1>4. Box1 # <<>> /\ Head(Box1).call = "try_module_get" /\ ~Head(Box1).checked
      /\ Tail(Box1) = Box2
  <2> DEFINE a == Loose("try_module_get")
             S == Statements(AllCalls, Nested(AllCalls))
  <2>1. Box1 = <<a>> \o Box2
    BY Dropped DEF Box1
  <2>2. a.call = "try_module_get" /\ ~a.checked
    BY DEF Loose, On
  <2>3. a \in S /\ Box2 \in Seq(S)
    <3>1. <<>> \in Nested(AllCalls)
      BY Notation
    <3>2. QED
      BY <3>1, HoldIn, HoldCallsIn DEF Loose, On, Statements, Program
  <2> HIDE DEF a, S
  <2>4. <<a>> \o Box2 # <<>> /\ Tail(<<a>> \o Box2) = Box2 /\ Head(<<a>> \o Box2) = a
    BY <2>3, FirstOf
  <2>5. QED
    BY <2>1, <2>2, <2>4
<1>5. Get1 # <<>> /\ Head(Get1).call = "try_module_get" /\ ~Head(Get1).checked
      /\ Tail(Get1) = <<>>
  <2> DEFINE a == Loose("try_module_get")
  <2>1. Get1 = <<a>>
    BY Dropped DEF Get1
  <2>2. a.call = "try_module_get" /\ ~a.checked
    BY DEF Loose, On
  <2> HIDE DEF a
  <2>3. <<a>> # <<>> /\ Head(<<a>>) = a /\ Tail(<<a>>) = <<>>
    OBVIOUS
  <2>4. QED
    BY <2>1, <2>2, <2>3
<1>6. QED
  BY <1>1, <1>2, <1>3, <1>4, <1>5 DEF Once3, Box2

LEMMA ReleaseSteps ==
  /\ Shut1 # <<>> /\ Head(Shut1).call = "del_timer" /\ Tail(Shut1) = Shut2
  /\ Shut2 # <<>> /\ Head(Shut2).call = "module_put" /\ Tail(Shut2) = Shut3
  /\ Shut3 # <<>> /\ Head(Shut3).call = "clear_open" /\ Tail(Shut3) = <<>>
  /\ Unbox1 # <<>> /\ Head(Unbox1).call = "module_put" /\ Tail(Unbox1) = Unbox2
  /\ Unbox2 # <<>> /\ Head(Unbox2).call = "kfree" /\ Tail(Unbox2) = <<>>
  /\ Put1 # <<>> /\ Head(Put1).call = "module_put" /\ Tail(Put1) = <<>>
  /\ Put2 # <<>> /\ Head(Put2).call = "module_put" /\ Tail(Put2) = FreeLines
<1>0. "del_timer" \in AllCalls /\ "module_put" \in AllCalls
      /\ Shut2 \in Program(AllCalls) /\ Shut3 \in Program(AllCalls)
      /\ Unbox2 \in Program(AllCalls) /\ FreeLines \in Program(AllCalls)
  BY HoldIn, HoldCallsIn
<1>1. Shut1 # <<>> /\ Head(Shut1).call = "del_timer" /\ Tail(Shut1) = Shut2
  <2>1. Shut1 = Do("del_timer") \o Shut2
    BY DEF Shut1
  <2>2. QED
    BY <1>0, <2>1, FirstDo
<1>2. Shut2 # <<>> /\ Head(Shut2).call = "module_put" /\ Tail(Shut2) = Shut3
  <2>1. Shut2 = Do("module_put") \o Shut3
    BY DEF Shut2
  <2>2. QED
    BY <1>0, <2>1, FirstDo
<1>3. Unbox1 # <<>> /\ Head(Unbox1).call = "module_put" /\ Tail(Unbox1) = Unbox2
  <2>1. Unbox1 = Do("module_put") \o Unbox2
    BY DEF Unbox1
  <2>2. QED
    BY <1>0, <2>1, FirstDo
<1>4. Put2 # <<>> /\ Head(Put2).call = "module_put" /\ Tail(Put2) = FreeLines
  <2>1. Put2 = Do("module_put") \o FreeLines
    BY DEF Put2
  <2>2. QED
    BY <1>0, <2>1, FirstDo
<1>5. QED
  BY <1>1, <1>2, <1>3, <1>4, LastDo DEF Shut3, Unbox2, Put1

\* What may be left of open() and of release() of version d.
Opens(d) ==
  {<<>>} \cup {p \in {Once1, Once2, Once3} : d \in Once}
         \cup {p \in {Box1, Box2} : d \in Boxed}
         \cup {p \in {Box2} : d = "P184Ksh"}
         \cup {p \in {Get1} : d \in Ioctl}
Shuts(d) ==
  {<<>>} \cup {p \in {Shut1, Shut2, Shut3} : d \in Once}
         \cup {p \in {Unbox1, Unbox2} : d \in Boxed \ {"P184"}}
         \cup {p \in {Unbox2} : d \in {"P184", "P184Ksh"}}
         \cup {p \in {Put1, Put2} \cup Program(FreeCalls) : d \in Ioctl}

LEMMA OpensSteps ==
  ASSUME NEW d, NEW p \in Opens(d), p # <<>>
  PROVE  /\ Tail(p) \in Opens(d)
         /\ Head(p).call \in {"test_open", "set_open", "try_module_get", "kmalloc"}
         /\ Head(p).checked /\ Head(p).call \in MayFail => Head(p).fail = <<>>
         /\ Head(p).call = "try_module_get" =>
              p \in Getting /\ d \in UsesGet /\ (d \in Once <=> Head(p).checked)
         /\ Head(p).call # "try_module_get" => (p \in Getting <=> Tail(p) \in Getting)
         /\ Head(p).call = "try_module_get" => Tail(p) \notin Getting
         /\ Head(p).call = "kmalloc" =>
              p = Box2 /\ p \notin Getting /\ Tail(p) = <<>> /\ Head(p).checked
              /\ d \in Boxed \cup {"P184Ksh"}
         /\ Head(p).call = "set_open" => p = Once2 /\ d \in Once
         /\ Tail(p) \in {Once1, Once2} => Head(p).call = "test_open"
<1>1. <<>> \notin Getting
  BY OpenSteps DEF Getting
<1>2. Box2 \notin Getting
  BY OpenSteps DEF Getting
<1>3. Once3 \notin {Once1, Once2} /\ Once2 # Once1 /\ Box2 \notin {Once1, Once2}
  BY OpenSteps
<1>4. CASE p \in {Once1, Once2, Once3} /\ d \in Once
  BY <1>1, <1>3, <1>4, OpenSteps DEF Opens, Getting, MayFail, UsesGet
<1>5. CASE p \in {Box1, Box2} /\ d \in Boxed
  BY <1>1, <1>2, <1>3, <1>5, OpenSteps DEF Opens, MayFail, UsesGet, Getting, Boxed, Once
<1>6. CASE p = Box2 /\ d = "P184Ksh"
  BY <1>1, <1>2, <1>6, OpenSteps DEF Opens, MayFail
<1>7. CASE p = Get1 /\ d \in Ioctl
  BY <1>1, <1>7, OpenSteps DEF Opens, MayFail, UsesGet, Getting, Ioctl, Once
<1>8. QED
  BY <1>4, <1>5, <1>6, <1>7 DEF Opens

LEMMA ShutsSteps ==
  ASSUME NEW d, NEW p \in Shuts(d), p # <<>>
  PROVE  /\ Tail(p) \in Shuts(d)
         /\ Head(p).call \in {"del_timer", "module_put", "clear_open", "kfree",
                              "test_init", "gpio_free"}
         /\ Head(p).call \in MayFail =>
              p \notin Putting /\ Head(p).fail \in Shuts(d) \ Putting /\ d \in Ioctl
         /\ Head(p).call = "module_put" => p \in Putting /\ Tail(p) \notin Putting
         /\ Head(p).call # "module_put" => (p \in Putting <=> Tail(p) \in Putting)
         /\ Head(p).call = "clear_open" => Tail(p) = <<>>
         /\ Head(p).call = "kfree" => Tail(p) = <<>>
         /\ d \in Once /\ Tail(p) = <<>> => Head(p).call = "clear_open"
         /\ d \in Boxed \cup {"P184Ksh"} /\ Tail(p) = <<>> => Head(p).call = "kfree"
<1>1. ASSUME NEW q \in Program(FreeCalls), q # <<>>
      PROVE  /\ Tail(q) \in Program(FreeCalls) /\ Head(q).fail \in Program(FreeCalls)
             /\ Head(q).call \in FreeCalls
  BY <1>1, ProgramSteps
<1>2. \A q \in Program(FreeCalls) : q \notin Putting
  <2>1. \A q \in Putting : q # <<>> /\ Head(q).call \in {"del_timer", "module_put"}
    BY ReleaseSteps DEF Putting
  <2>2. QED
    BY <1>1, <2>1 DEF FreeCalls
<1>3. <<>> \notin Putting /\ Shut3 \notin Putting /\ Unbox2 \notin Putting
  BY ReleaseSteps DEF Putting
<1>4. CASE p \in {Shut1, Shut2, Shut3} /\ d \in Once
  BY <1>3, <1>4, ReleaseSteps DEF Shuts, Putting, MayFail, Once, Boxed
<1>5. CASE p \in {Unbox1, Unbox2} /\ d \in Boxed \ {"P184"}
  BY <1>3, <1>5, ReleaseSteps DEF Shuts, Putting, MayFail, Once, Boxed
<1>6. CASE p = Unbox2 /\ d \in {"P184", "P184Ksh"}
  BY <1>3, <1>6, ReleaseSteps DEF Shuts, MayFail, Once
<1>7. CASE p \in {Put1, Put2} /\ d \in Ioctl
  BY <1>2, <1>3, <1>7, ReleaseSteps, HoldIn DEF Shuts, Putting, MayFail, Once, Boxed, Ioctl
<1>8. CASE p \in Program(FreeCalls) /\ d \in Ioctl
  <2>1. /\ Tail(p) \in Shuts(d) \ Putting /\ Head(p).fail \in Shuts(d) \ Putting
        /\ Head(p).call \in FreeCalls /\ p \notin Putting
    BY <1>1, <1>2, <1>8 DEF Shuts
  <2>2. QED
    BY <1>8, <2>1 DEF FreeCalls, Once, Boxed, Ioctl
<1>9. QED
  BY <1>4, <1>5, <1>6, <1>7, <1>8 DEF Shuts

-----------------------------------------------------------------------------
(* The versions by what their open() takes.                                *)

\* The versions whose structure is not shared by several lines' handlers.
HoldVersions == DOMAIN Driver \ {"Kmalloc"}

\* init asks for the device number last, and does nothing more when a call fails.
AskLast ==
  {p \o Do("register_chrdev") : p \in Simple(AllCalls \ {"register_chrdev"})}
    \cup {p \o Unchecked(Do("register_chrdev")) : p \in Simple(AllCalls \ {"register_chrdev"})}

LEMMA AskLastSteps ==
  ASSUME NEW p \in AskLast
  PROVE  /\ p # <<>>
         /\ Tail(p) \in AskLast \/ Tail(p) = <<>>
         /\ Head(p).fail = <<>>
         /\ Head(p).call # "register_chrdev" \/ Tail(p) = <<>>
<1> DEFINE C == AllCalls \ {"register_chrdev"}
           S == Statements(C, {<<>>})
<1>1. PICK q \in Simple(C), l \in {Do("register_chrdev"), Unchecked(Do("register_chrdev"))} :
        p = q \o l
  BY DEF AskLast
<1>2. PICK a : l = <<a>> /\ a.fail = <<>>
  <2>1. CASE l = Do("register_chrdev")
    <3>1. l = <<One("register_chrdev")>> /\ One("register_chrdev").fail = <<>>
      BY <2>1, OneStatement
    <3>2. QED
      BY <3>1, Zenon
  <2>2. CASE l = Unchecked(Do("register_chrdev"))
    <3>1. l = <<Loose("register_chrdev")>> /\ Loose("register_chrdev").fail = <<>>
      BY <2>2, Dropped DEF Loose, On
    <3>2. QED
      BY <3>1, Zenon
  <2>3. QED
    BY <1>1, <2>1, <2>2
<1>3. q \in Seq(S)
  BY DEF Simple
<1>4. \A s \in S : s.call # "register_chrdev" /\ s.fail = <<>>
  BY DEF Statements
<1> HIDE DEF S
<1>5. CASE q = <<>>
  <2>1. p = <<a>>
    BY <1>1, <1>2, <1>5
  <2>2. p # <<>> /\ Head(p) = a /\ Tail(p) = <<>>
    BY <2>1
  <2>3. QED
    BY <1>2, <2>2
<1>6. CASE q # <<>>
  <2>1. Head(q) \in S /\ Tail(q) \in Seq(S)
    BY <1>3, <1>6
  <2>2. q \in Seq(S \cup {a}) /\ a \in S \cup {a}
    BY <1>3, SeqMonotone
  <2>3. /\ q \o <<a>> # <<>> /\ Head(q \o <<a>>) = Head(q)
        /\ Tail(q \o <<a>>) = Tail(q) \o <<a>>
    BY <1>6, <2>2, LastOf
  <2>4. p = q \o <<a>>
    BY <1>1, <1>2
  <2>5. Tail(p) = Tail(q) \o l /\ Tail(q) \in Simple(C)
    BY <1>2, <2>1, <2>3, <2>4 DEF Simple, S
  <2>6. Tail(p) \in AskLast
    BY <2>5 DEF AskLast
  <2>7. QED
    BY <1>4, <2>1, <2>3, <2>4, <2>6
<1>7. QED
  BY <1>5, <1>6

LEMMA PlainIn ==
  /\ RequestCalls \cup TakeCalls \cup WaitCalls \cup StoreCalls \subseteq PlainCalls
  /\ {"touch", "gpio_free", "set_init", "clear_init", "mod_timer", "del_timer"}
       \subseteq PlainCalls
  /\ {"unregister_chrdev", "remove_call", "free_irq", "timer_pending", "mutex_destroy"}
       \subseteq PlainCalls
  /\ PlainCalls \cup {"register_chrdev"} \subseteq AllCalls \ HoldCalls
  /\ RequestCalls \cup {"register_chrdev", "mutex_init", "gpio_to_irq", "request_irq",
                        "add_timer", "touch", "gpio_free", "provide_call"}
       \subseteq AllCalls \ HoldCalls
  /\ FreeCalls \subseteq AllCalls
BY DEF PlainCalls, HoldCalls, AllCalls, LineCalls, IrqCalls, NodeCalls, TimerCalls,
       FileCalls, MutexCalls, KeyCalls, RequestCalls, TakeCalls, WaitCalls, StoreCalls,
       FreeCalls

\* Everything read(), write(), ioctl(), poll(), the timer's function and the direct
\* calls do.
LEMMA PlainFunctionsIn ==
  {<<>>, Touch(Leds), Touch(Keys), Touch(Leds) \o Touch(Keys),
   TwoLoopLines.ledInit, TwoLoopLines.keyInit,
   TwoLoopLines.ledInit \o TwoLoopLines.keyInit,
   CallThen(TwoLoopLines.ledInit \o TwoLoopLines.keyInit, Do("set_init")),
   TwoLoopLines.ledFree \o TwoLoopLines.keyFree,
   Do("clear_init") \o TwoLoopLines.ledFree \o TwoLoopLines.keyFree,
   TakeUnderMutex, WaitForKey(TakeUnderMutex), Do("copy_key") \o Do("clear_key"),
   WaitForKey(Do("copy_key") \o Do("clear_key")),
   Do("test_key"), Do("mod_timer"), Do("del_timer"), Touch(Leds) \o Do("mod_timer"),
   sys_mysyscall} \subseteq Program(PlainCalls)
<1> DEFINE C == PlainCalls
<1>1. {<<>>, Touch(Leds), Touch(Keys), TwoLoopLines.ledInit, TwoLoopLines.keyInit,
       TwoLoopLines.ledFree, TwoLoopLines.keyFree, Do("set_init"), Do("clear_init"),
       Do("test_key"), Do("mod_timer"), Do("del_timer"), Do("copy_key"), Do("clear_key")}
        \subseteq Simple(C)
  <2>1. /\ {"touch", "gpio_free", "set_init", "clear_init", "mod_timer",
             "del_timer"} \subseteq C
        /\ {"test_key", "copy_key", "clear_key"} \subseteq C /\ RequestCalls \subseteq C
    BY PlainIn DEF TakeCalls
  <2>2. <<>> \in Simple(C) /\ Touch(Leds) \in Simple(C) /\ Touch(Keys) \in Simple(C)
    BY <2>1, Notation
  <2>3. \A call \in C : Do(call) \in Simple(C)
    BY Notation
  <2>4. /\ TwoLoopLines.ledInit \in Simple(C) /\ TwoLoopLines.keyInit \in Simple(C)
        /\ TwoLoopLines.ledFree \in Simple(C) /\ TwoLoopLines.keyFree \in Simple(C)
    BY <2>1, SharedPrograms
  <2>5. QED
    BY <2>1, <2>2, <2>3, <2>4
<1>2. \A p, q \in Simple(C) : p \o q \in Simple(C)
  BY Notation
<1>3. \A p, q \in Simple(C) : CallThen(p, q) \in Program(C)
  <2>1. \A p, q \in Simple(C) : OnFailure(p, q) \in Nested(C) /\ q \in Nested(C)
    BY Notation
  <2>2. QED
    BY <2>1, Notation DEF CallThen
<1>4. {TakeUnderMutex, WaitForKey(TakeUnderMutex),
       WaitForKey(Do("copy_key") \o Do("clear_key"))} \subseteq Program(C)
  BY PlainIn, FilePrograms, Notation
<1>5. sys_mysyscall \in Simple(C)
  BY <1>1, <1>2 DEF sys_mysyscall, MysyscallGpio
<1>6. Simple(C) \subseteq Program(C)
  BY Notation
<1>7. /\ Touch(Leds) \o Touch(Keys) \in Simple(C)
      /\ TwoLoopLines.ledInit \o TwoLoopLines.keyInit \in Simple(C)
      /\ TwoLoopLines.ledFree \o TwoLoopLines.keyFree \in Simple(C)
      /\ Do("clear_init") \o TwoLoopLines.ledFree \o TwoLoopLines.keyFree \in Simple(C)
      /\ Do("copy_key") \o Do("clear_key") \in Simple(C)
      /\ Touch(Leds) \o Do("mod_timer") \in Simple(C)
  <2>1. /\ Touch(Leds) \in Simple(C) /\ Touch(Keys) \in Simple(C)
        /\ TwoLoopLines.ledInit \in Simple(C) /\ TwoLoopLines.keyInit \in Simple(C)
        /\ TwoLoopLines.ledFree \in Simple(C) /\ TwoLoopLines.keyFree \in Simple(C)
        /\ Do("clear_init") \in Simple(C) /\ Do("copy_key") \in Simple(C)
        /\ Do("clear_key") \in Simple(C) /\ Do("mod_timer") \in Simple(C)
    BY <1>1
  <2> DEFINE S == Simple(C)
  <2> HIDE DEF S
  <2>2. QED
    BY <1>2, <2>1 DEF S
<1>8. CallThen(TwoLoopLines.ledInit \o TwoLoopLines.keyInit, Do("set_init")) \in Program(C)
  BY <1>1, <1>3, <1>7
<1> HIDE DEF C
<1>9. QED
  BY <1>1, <1>4, <1>5, <1>6, <1>7, <1>8 DEF C

PlainUsers(v) ==
  /\ v.timer \in Program(PlainCalls)
  /\ \A op \in DOMAIN v.calls : v.calls[op] \in Program(PlainCalls)
  /\ \A op \in DOMAIN v.direct : v.direct[op] \in Program(PlainCalls)

\* open(), release() and the owner field of version v, whose name is d.
Owners == {"Calldev", "P184Ksh", "P270", "P527"} \cup Boxed
Gets(v, d) ==
  /\ d \in Owners => v.owner = TRUE
  /\ d \notin Owners => v.owner = FALSE
  /\ d \in Once => v.open = Once1
  /\ d \in Boxed => v.open = Box1
  /\ d = "P184Ksh" => v.open = Box2
  /\ d \in Ioctl => v.open = Get1
  /\ d \notin UsesGet \cup {"P184Ksh"} => v.open = <<>> /\ v.release = <<>>
  /\ d \in Once => v.release \in {Shut1, Shut2}
  /\ d \in {"P184", "P184Ksh"} => v.release = Unbox2
  /\ d \in Boxed \ {"P184"} => v.release = Unbox1
  /\ d \in Ioctl => v.release \in {Put1, Put2}

LEMMA OpenAssociates ==
  Do("test_open") \o Do("set_open") \o Do("try_module_get") = Once1
<1>1. Do("test_open") \in Program(AllCalls) /\ Do("set_open") \in Program(AllCalls)
      /\ Do("try_module_get") \in Program(AllCalls)
  BY HoldCallsIn, Notation
<1>2. QED
  BY <1>1, ConcatAssociates DEF Once1, Once2, Once3

LEMMA P122Holds == Gets(P122, "P122") /\ PlainUsers(P122)
<1> USE DEF P122, P122Load, Version, Plain
<1>1. P122.open = <<>> /\ P122.release = <<>> /\ P122.owner = FALSE
  OBVIOUS
<1>2. QED
  BY <1>1, PlainFunctionsIn DEF PlainUsers, Gets, UsesGet, Owners, Once, Boxed, Ioctl

LEMMA P122ParamHolds == Gets(P122Param, "P122Param") /\ PlainUsers(P122Param)
BY P122Holds, P122ParamIs DEF Gets, UsesGet, Owners, Once, Boxed, Ioctl

LEMMA P106Holds == Gets(P106, "P106") /\ PlainUsers(P106)
<1> USE DEF P106, P106Load, Version, Plain
<1>1. P106.open = <<>> /\ P106.release = <<>> /\ P106.owner = FALSE
  OBVIOUS
<1>2. QED
  BY <1>1, PlainFunctionsIn DEF PlainUsers, Gets, UsesGet, Owners, Once, Boxed, Ioctl

LEMMA MysyscallHolds == Gets(Mysyscall, "Mysyscall") /\ PlainUsers(Mysyscall)
<1> USE DEF Mysyscall, Version, Plain
<1>1. \A op \in DOMAIN Mysyscall.direct : Mysyscall.direct[op] \in Program(PlainCalls)
  BY PlainFunctionsIn
<1>2. Mysyscall.open = <<>> /\ Mysyscall.release = <<>> /\ Mysyscall.owner = FALSE
  OBVIOUS
<1>3. QED
  BY <1>1, <1>2, PlainFunctionsIn DEF PlainUsers, Gets, UsesGet, Owners, Once, Boxed, Ioctl

LEMMA CalldevHolds == Gets(Calldev, "Calldev") /\ PlainUsers(Calldev)
<1> USE DEF Calldev, CalldevCalls, CalldevLoad, Version, Plain
<1>1. Calldev.open = <<>> /\ Calldev.release = <<>> /\ Calldev.owner = TRUE
  OBVIOUS
<1>2. QED
  BY <1>1, PlainFunctionsIn DEF PlainUsers, Gets, UsesGet, Owners, Once, Boxed, Ioctl

LEMMA BackupHolds == Gets(Backup, "Backup") /\ PlainUsers(Backup)
<1> USE DEF Backup, BackupCalls, BackupLoad, Version, Plain
<1>1. \A op \in DOMAIN Backup.calls : Backup.calls[op] \in Program(PlainCalls)
  BY PlainFunctionsIn
<1>2. Backup.open = Box1 /\ Backup.release = Unbox1 /\ Backup.owner = TRUE
  BY DEF Box1, Box2, Unbox1, Unbox2
<1>3. QED
  BY <1>1, <1>2, PlainFunctionsIn DEF PlainUsers, Gets, UsesGet, Owners, Once, Boxed, Ioctl

LEMMA P184Holds == Gets(P184, "P184") /\ PlainUsers(P184)
<1> USE DEF P184, P184Calls, P184Load, Version, Plain
<1>1. \A op \in DOMAIN P184.calls : P184.calls[op] \in Program(PlainCalls)
  BY PlainFunctionsIn
<1>2. P184.open = Box1 /\ P184.release = Unbox2 /\ P184.owner = TRUE
  BY DEF Box1, Box2, Unbox2
<1>3. QED
  BY <1>1, <1>2, PlainFunctionsIn DEF PlainUsers, Gets, UsesGet, Owners, Once, Boxed, Ioctl

LEMMA P184b0620Holds == Gets(P184b0620, "P184b0620") /\ PlainUsers(P184b0620)
<1> USE DEF P184b0620, P184b0620Calls, P184b0620Load, Version, Plain
<1>1. \A op \in DOMAIN P184b0620.calls : P184b0620.calls[op] \in Program(PlainCalls)
  BY PlainFunctionsIn
<1>2. P184b0620.open = Box1 /\ P184b0620.release = Unbox1 /\ P184b0620.owner = TRUE
  BY DEF Box1, Box2, Unbox1, Unbox2
<1>3. QED
  BY <1>1, <1>2, PlainFunctionsIn DEF PlainUsers, Gets, UsesGet, Owners, Once, Boxed, Ioctl

LEMMA P184KshHolds == Gets(P184Ksh, "P184Ksh") /\ PlainUsers(P184Ksh)
<1> USE DEF P184Ksh, P184KshCalls, P184KshLoad, Version, Plain
<1>1. \A op \in DOMAIN P184Ksh.calls : P184Ksh.calls[op] \in Program(PlainCalls)
  BY PlainFunctionsIn
<1>2. P184Ksh.open = Box2 /\ P184Ksh.release = Unbox2 /\ P184Ksh.owner = TRUE
  BY DEF Box2, Unbox2
<1>3. QED
  BY <1>1, <1>2, PlainFunctionsIn DEF PlainUsers, Gets, UsesGet, Owners, Once, Boxed, Ioctl

LEMMA CalldevLedkeyHolds == Gets(CalldevLedkey, "CalldevLedkey") /\ PlainUsers(CalldevLedkey)
<1> USE DEF CalldevLedkey, CalldevLedkeyCalls, CalldevLedkeyLoad, Version, Plain
<1>1. \A op \in DOMAIN CalldevLedkey.calls : CalldevLedkey.calls[op] \in Program(PlainCalls)
  BY PlainFunctionsIn
<1>2. CalldevLedkey.open = Box1 /\ CalldevLedkey.release = Unbox1 /\ CalldevLedkey.owner
        = TRUE
  BY DEF Box1, Box2, Unbox1, Unbox2
<1>3. QED
  BY <1>1, <1>2, PlainFunctionsIn DEF PlainUsers, Gets, UsesGet, Owners, Once, Boxed, Ioctl

LEMMA P238Holds == Gets(P238, "P238") /\ PlainUsers(P238)
<1> USE DEF P238, P238Calls, P238Load, Version, Plain
<1>1. \A op \in DOMAIN P238.calls : P238.calls[op] \in Program(PlainCalls)
  BY PlainFunctionsIn
<1>2. P238.open = Once1 /\ P238.release = Shut2 /\ P238.owner = FALSE
  BY OpenAssociates DEF OpenOnce, Shut2, Shut3, CloseOnce
<1>3. QED
  BY <1>1, <1>2, PlainFunctionsIn DEF PlainUsers, Gets, UsesGet, Owners, Once, Boxed, Ioctl

LEMMA P270Holds == Gets(P270, "P270") /\ PlainUsers(P270)
<1> USE DEF P270, P270Calls, P270Load, Version, Plain
<1>1. \A op \in DOMAIN P270.calls : P270.calls[op] \in Program(PlainCalls)
  BY PlainFunctionsIn
<1>2. P270.open = <<>> /\ P270.release = <<>> /\ P270.owner = TRUE
  OBVIOUS
<1>3. QED
  BY <1>1, <1>2, PlainFunctionsIn DEF PlainUsers, Gets, UsesGet, Owners, Once, Boxed, Ioctl

LEMMA P306Holds == Gets(P306, "P306") /\ PlainUsers(P306)
<1>1. \A op \in DOMAIN P306.calls : P306.calls[op] \in Program(PlainCalls)
  BY IoctlCalls, PlainFunctionsIn DEF IoctlPrograms
<1>2. /\ P306.open = Get1 /\ P306.release = Put1 /\ P306.owner = FALSE /\ P306.timer = <<>>
      /\ \A op \in DOMAIN P306.direct : P306.direct[op] \in Program(PlainCalls)
  BY DEF Get1, Put1, P306, P306Calls, P306Load, Version, Plain
<1>3. QED
  BY <1>1, <1>2, PlainFunctionsIn DEF PlainUsers, Gets, UsesGet, Owners, Once, Boxed, Ioctl

LEMMA P306LedkeyHolds == Gets(P306Ledkey, "P306Ledkey") /\ PlainUsers(P306Ledkey)
<1>1. \A op \in DOMAIN P306Ledkey.calls : P306Ledkey.calls[op] \in Program(PlainCalls)
  BY IoctlCalls, PlainFunctionsIn DEF IoctlPrograms
<1>2. /\ P306Ledkey.open = Get1 /\ P306Ledkey.release = Put2 /\ P306Ledkey.owner = FALSE
           /\ P306Ledkey.timer = <<>>
      /\ \A op \in DOMAIN P306Ledkey.direct : P306Ledkey.direct[op] \in Program(PlainCalls)
  BY DEF Get1, Put2, FreeLines, P306Ledkey, P306LedkeyCalls, P306LedkeyLoad, Version, Plain
<1>3. QED
  BY <1>1, <1>2, PlainFunctionsIn DEF PlainUsers, Gets, UsesGet, Owners, Once, Boxed, Ioctl

LEMMA P369Holds == Gets(P369, "P369") /\ PlainUsers(P369)
<1> USE DEF P369, P369Calls, P369Load, Version, Plain
<1>1. \A op \in DOMAIN P369.calls : P369.calls[op] \in Program(PlainCalls)
  BY PlainFunctionsIn
<1>2. P369.open = Once1 /\ P369.release = Shut2 /\ P369.owner = FALSE
  BY OpenAssociates DEF OpenOnce, Shut2, Shut3, CloseOnce
<1>3. QED
  BY <1>1, <1>2, PlainFunctionsIn DEF PlainUsers, Gets, UsesGet, Owners, Once, Boxed, Ioctl

LEMMA P369KshHolds == Gets(P369Ksh, "P369Ksh") /\ PlainUsers(P369Ksh)
BY P369Holds, P369KshIs DEF Gets, UsesGet, Owners, Once, Boxed, Ioctl

LEMMA P399Holds == Gets(P399, "P399") /\ PlainUsers(P399)
<1> USE DEF P399, P399Calls, P399Load, Version, Plain
<1>1. \A op \in DOMAIN P399.calls : P399.calls[op] \in Program(PlainCalls)
  BY PlainFunctionsIn
<1>2. P399.open = Once1 /\ P399.release = Shut2 /\ P399.owner = FALSE
  BY OpenAssociates DEF OpenOnce, Shut2, Shut3, CloseOnce
<1>3. QED
  BY <1>1, <1>2, PlainFunctionsIn DEF PlainUsers, Gets, UsesGet, Owners, Once, Boxed, Ioctl

LEMMA P399KshHolds == Gets(P399Ksh, "P399Ksh") /\ PlainUsers(P399Ksh)
<1> USE DEF P399Ksh, P399KshCalls, P399KshLoad, Version, Plain
<1>1. \A op \in DOMAIN P399Ksh.calls : P399Ksh.calls[op] \in Program(PlainCalls)
  BY PlainFunctionsIn
<1>2. P399Ksh.open = Once1 /\ P399Ksh.release = Shut2 /\ P399Ksh.owner = FALSE
  BY OpenAssociates DEF OpenOnce, Shut2, Shut3, CloseOnce
<1>3. QED
  BY <1>1, <1>2, PlainFunctionsIn DEF PlainUsers, Gets, UsesGet, Owners, Once, Boxed, Ioctl

LEMMA P432Holds == Gets(P432, "P432") /\ PlainUsers(P432)
<1> USE DEF P432, P432Calls, P432Load, Version, Plain
<1>1. \A op \in DOMAIN P432.calls : P432.calls[op] \in Program(PlainCalls)
  BY PlainFunctionsIn
<1>2. P432.open = Once1 /\ P432.release = Shut2 /\ P432.owner = FALSE
  BY OpenAssociates DEF OpenOnce, Shut2, Shut3, CloseOnce
<1>3. QED
  BY <1>1, <1>2, PlainFunctionsIn DEF PlainUsers, Gets, UsesGet, Owners, Once, Boxed, Ioctl

LEMMA P527Holds == Gets(P527, "P527") /\ PlainUsers(P527)
<1> USE DEF P527, P527Calls, P527Load, Version, Plain
<1>1. \A op \in DOMAIN P527.calls : P527.calls[op] \in Program(PlainCalls)
  BY PlainFunctionsIn
<1>2. \A op \in DOMAIN P527.direct : P527.direct[op] \in Program(PlainCalls)
  BY P527Direct, PlainFunctionsIn
<1>3. P527.open = <<>> /\ P527.release = <<>> /\ P527.owner = TRUE
  OBVIOUS
<1>4. QED
  BY <1>1, <1>2, <1>3, PlainFunctionsIn DEF PlainUsers, Gets, UsesGet, Owners, Once, Boxed,
    Ioctl

LEMMA TimerOnlyHolds == Gets(TimerOnly, "TimerOnly") /\ PlainUsers(TimerOnly)
<1> USE DEF TimerOnly, Version, Plain
<1>1. TimerOnly.open = <<>> /\ TimerOnly.release = <<>> /\ TimerOnly.owner = FALSE
  OBVIOUS
<1>2. QED
  BY <1>1, PlainFunctionsIn DEF PlainUsers, Gets, UsesGet, Owners, Once, Boxed, Ioctl

LEMMA TimerLedHolds == Gets(TimerLed, "TimerLed") /\ PlainUsers(TimerLed)
<1> USE DEF TimerLed, TimerLedLoad, Version, Plain
<1>1. TimerLed.open = <<>> /\ TimerLed.release = <<>> /\ TimerLed.owner = FALSE
  OBVIOUS
<1>2. QED
  BY <1>1, PlainFunctionsIn DEF PlainUsers, Gets, UsesGet, Owners, Once, Boxed, Ioctl

LEMMA TimerDevHolds == Gets(TimerDev, "TimerDev") /\ PlainUsers(TimerDev)
<1> USE DEF TimerDev, TimerDevCalls, TimerDevLoad, Version, Plain
<1>1. \A op \in DOMAIN TimerDev.calls : TimerDev.calls[op] \in Program(PlainCalls)
  BY PlainFunctionsIn
<1>2. TimerDev.open = Once1 /\ TimerDev.release = Shut1 /\ TimerDev.owner = FALSE
  BY OpenAssociates DEF OpenOnce, Shut1, Shut2, Shut3, CloseOnce
<1>3. QED
  BY <1>1, <1>2, PlainFunctionsIn DEF PlainUsers, Gets, UsesGet, Owners, Once, Boxed, Ioctl

LEMMA TimerHjyHolds == Gets(TimerHjy, "TimerHjy") /\ PlainUsers(TimerHjy)
<1> USE DEF TimerHjy, TimerHjyCalls, TimerHjyLoad, Version, Plain
<1>1. \A op \in DOMAIN TimerHjy.calls : TimerHjy.calls[op] \in Program(PlainCalls)
  BY PlainFunctionsIn
<1>2. TimerHjy.open = Once1 /\ TimerHjy.release = Shut2 /\ TimerHjy.owner = FALSE
  BY OpenAssociates DEF OpenOnce, Shut2, Shut3, CloseOnce
<1>3. QED
  BY <1>1, <1>2, PlainFunctionsIn DEF PlainUsers, Gets, UsesGet, Owners, Once, Boxed, Ioctl

LEMMA Timer0625Holds == Gets(Timer0625, "Timer0625") /\ PlainUsers(Timer0625)
<1> USE DEF Timer0625, Timer0625Calls, Timer0625Load, Version, Plain
<1>1. \A op \in DOMAIN Timer0625.calls : Timer0625.calls[op] \in Program(PlainCalls)
  BY PlainFunctionsIn
<1>2. Timer0625.open = Once1 /\ Timer0625.release = Shut1 /\ Timer0625.owner = FALSE
  BY OpenAssociates DEF OpenOnce, Shut1, Shut2, Shut3, CloseOnce
<1>3. QED
  BY <1>1, <1>2, PlainFunctionsIn DEF PlainUsers, Gets, UsesGet, Owners, Once, Boxed, Ioctl

LEMMA VersionsHold ==
  ASSUME NEW d \in HoldVersions
  PROVE  Gets(Driver[d], d) /\ PlainUsers(Driver[d])
BY P122Holds, P122ParamHolds, P106Holds, MysyscallHolds, CalldevHolds, BackupHolds,
  P184Holds, P184b0620Holds, P184KshHolds, CalldevLedkeyHolds, P238Holds, P270Holds,
  P306Holds, P306LedkeyHolds, P369Holds, P369KshHolds, P399Holds, P399KshHolds, P432Holds,
  P527Holds, TimerOnlyHolds, TimerLedHolds, TimerDevHolds, TimerHjyHolds, Timer0625Holds,
  DriverIs DEF HoldVersions

\* init and exit of them.
LEMMA VersionsLoad ==
  ASSUME NEW d \in HoldVersions
  PROVE  /\ Driver[d].init \in Program(AllCalls \ HoldCalls)
         /\ Driver[d].exit \in Program(PlainCalls)
         /\ Driver[d].isr \in Program(PlainCalls)
<1>1. \A E, F : E \subseteq F => Program(E) \subseteq Program(F)
  BY MonotoneIn
<1>2. Driver[d].init \in Program(AllCalls \ HoldCalls)
  <2> DEFINE C == AllCalls \ HoldCalls
  <2>1. RequestCalls \cup {"register_chrdev", "mutex_init", "gpio_to_irq", "request_irq",
                           "add_timer", "touch", "gpio_free", "provide_call"} \subseteq C
    BY PlainIn
  <2> HIDE DEF C
  <2>2. {P122.init, P122Param.init, P106.init, Mysyscall.init, Calldev.init, Backup.init,
          P184.init} \subseteq Program(C)
    BY <1>1, <2>1, P122In, P122ParamIs, P106In, MysyscallIn, CalldevIn, BackupIn, P184In
  <2>3. {P184b0620.init, P184Ksh.init, CalldevLedkey.init, P238.init, P270.init,
          P306.init} \subseteq Program(C)
    BY <1>1, <2>1, P184b0620In, P184KshIn, CalldevLedkeyIn, P238In, P270In, P306In
  <2>4. {P306Ledkey.init, P369.init, P369Ksh.init, P399.init, P399Ksh.init,
          P432.init} \subseteq Program(C)
    BY <1>1, <2>1, P306LedkeyIn, P369In, P369KshIs, P399In, P399KshIn, P432In
  <2>5. {P527.init, TimerOnly.init, TimerLed.init, TimerDev.init, TimerHjy.init,
          Timer0625.init} \subseteq Program(C)
    BY <1>1, <2>1, P527In, TimerOnlyIn, TimerLedIn, TimerDevIn, TimerHjyIn, Timer0625In
  <2>6. QED
    BY <2>2, <2>3, <2>4, <2>5, DriverIs DEF HoldVersions, C
<1>3. Driver[d].exit \in Program(PlainCalls)
  <2>1. {P122.exit, P122Param.exit, P106.exit, Mysyscall.exit, Calldev.exit, Backup.exit,
          P184.exit} \subseteq Program(PlainCalls)
    BY <1>1, PlainIn, P122In, P122ParamIs, P106In, MysyscallIn, CalldevIn, BackupIn, P184In
  <2>2. {P184b0620.exit, P184Ksh.exit, CalldevLedkey.exit, P238.exit, P270.exit,
          P306.exit} \subseteq Program(PlainCalls)
    BY <1>1, PlainIn, P184b0620In, P184KshIn, CalldevLedkeyIn, P238In, P270In, P306In
  <2>3. {P306Ledkey.exit, P369.exit, P369Ksh.exit, P399.exit, P399Ksh.exit,
          P432.exit} \subseteq Program(PlainCalls)
    BY <1>1, PlainIn, P306LedkeyIn, P369In, P369KshIs, P399In, P399KshIn, P432In
  <2>4. {P527.exit, TimerOnly.exit, TimerLed.exit} \subseteq Program(PlainCalls)
    BY <1>1, PlainIn, P527In, TimerOnlyIn, TimerLedIn
  <2>5. {TimerDev.exit, TimerHjy.exit, Timer0625.exit} \subseteq Program(PlainCalls)
    BY <1>1, PlainIn, TimerDevIn, TimerHjyIn, Timer0625In
  <2>6. QED
    BY <2>1, <2>2, <2>3, <2>4, <2>5, DriverIs DEF HoldVersions
<1>4. Driver[d].isr \in Program(PlainCalls)
  <2>1. Driver[d].isr \in {<<>>, StoreUnderMutex(<<>>), StoreUnderMutex(Do("wake_up")),
                           Do("store_key") \o Do("wake_up")}
    BY Handlers DEF Sleepless, HoldVersions
  <2>2. StoreCalls \subseteq PlainCalls
    BY PlainIn
  <2>3. Do("store_key") \o Do("wake_up") \in Program(PlainCalls)
        /\ <<>> \in Program(PlainCalls)
    <3>1. "store_key" \in PlainCalls /\ "wake_up" \in PlainCalls
      BY <2>2 DEF StoreCalls
    <3>2. QED
      BY <3>1, Notation
  <2>4. QED
    BY <2>1, <2>2, <2>3, FilePrograms
<1>5. QED
  BY <1>2, <1>3, <1>4

LEMMA AsksForDeviceLast ==
  ASSUME NEW d \in CountsUsers
  PROVE  Driver[d].init \in AskLast
<1> DEFINE C == AllCalls \ {"register_chrdev"}
           irqs == ForEach(gpioKey, <<"request_irq">>)
<1>1. RequestCalls \cup {"mutex_init", "gpio_to_irq", "request_irq", "add_timer"} \subseteq C
  BY DEF AllCalls, LineCalls, IrqCalls, MutexCalls, TimerCalls, RequestCalls
<1> HIDE DEF C
<1>2. {<<>>, Do("mutex_init"), IrqLines.toIrq, irqs, Do("add_timer"),
       OneLoopLines.ledInit, OneLoopLines.keyInit, TimerDevGpio.ledInit, TimerDevGpio.keyInit,
       TimerHjyGpio.ledInit, TimerHjyGpio.keyInit, Timer0625Gpio.ledInit,
       Timer0625Gpio.keyInit} \subseteq Simple(C)
  BY <1>1, Notation, SharedPrograms, TimerLines
<1>3. \A p, q \in Simple(C) : p \o q \in Simple(C)
  BY Notation
<1>4. \A p \in Simple(C) : p \o Do("register_chrdev") \in AskLast
                           /\ p \o Unchecked(Do("register_chrdev")) \in AskLast
  BY DEF AskLast, C
<1> HIDE DEF irqs
<1>5. Calldev.init \in AskLast
  <2>1. Calldev.init = <<>> \o Do("register_chrdev")
    BY DEF Do, Calldev, CalldevCalls, CalldevLoad, Version, Plain, irqs
  <2>2. QED
    BY <1>2, <1>3, <1>4, <2>1
<1>6. P238.init \in AskLast
  <2>1. P238.init = (OneLoopLines.ledInit \o OneLoopLines.keyInit) \o Do("register_chrdev")
    BY DEF P238, P238Calls, P238Load, P238Gpio, Version, Plain, irqs
  <2>2. QED
    BY <1>2, <1>3, <1>4, <2>1
<1>7. {P369.init, P369Ksh.init, P399.init, P399Ksh.init, P432.init} \subseteq AskLast
  <2>1. \A p \in {P369.init, P369Ksh.init, P399.init, P399Ksh.init, P432.init} :
          p = (Do("mutex_init") \o OneLoopLines.ledInit \o OneLoopLines.keyInit
                 \o IrqLines.toIrq \o irqs) \o Do("register_chrdev")
    BY DEF P369, P369Calls, P369Load, P369Gpio, P369Ksh, P369KshCalls, P369KshLoad,
      P369KshGpio,
           P399, P399Calls, P399Load, P399Gpio, P399Ksh, P399KshCalls, P399KshLoad,
             P399KshGpio,
           P432, P432Calls, P432Load, P432Gpio, Version, Plain, irqs
  <2>2. QED
    BY <1>2, <1>3, <1>4, <2>1
<1>8. TimerDev.init \in AskLast
  <2>1. TimerDev.init = (Do("mutex_init") \o TimerDevGpio.ledInit \o TimerDevGpio.keyInit
                 \o IrqLines.toIrq \o irqs \o Do("add_timer")) \o Do("register_chrdev")
    BY DEF TimerDev, TimerDevCalls, TimerDevLoad, Version, Plain, irqs
  <2>2. QED
    BY <1>2, <1>3, <1>4, <2>1
<1>9. TimerHjy.init \in AskLast
  <2>1. TimerHjy.init = (Do("mutex_init") \o TimerHjyGpio.ledInit \o TimerHjyGpio.keyInit
                 \o IrqLines.toIrq \o irqs \o Do("add_timer")) \o Unchecked(Do("register_chrdev"))
    BY DEF TimerHjy, TimerHjyCalls, TimerHjyLoad, Version, Plain, irqs
  <2>2. QED
    BY <1>2, <1>3, <1>4, <2>1
<1>10. Timer0625.init \in AskLast
  <2>1. Timer0625.init = (Do("mutex_init") \o Timer0625Gpio.ledInit \o Timer0625Gpio.keyInit
                 \o IrqLines.toIrq \o irqs) \o Do("register_chrdev")
    BY DEF Timer0625, Timer0625Calls, Timer0625Load, Version, Plain, irqs
  <2>2. QED
    BY <1>2, <1>3, <1>4, <2>1
<1>11. QED
  BY <1>5, <1>6, <1>7, <1>8, <1>9, <1>10, DriverIs DEF CountsUsers

-----------------------------------------------------------------------------
(* What a function that opens or closes a file holds.                      *)

LEMMA Kinds ==
  /\ Once \cap Boxed = {} /\ Once \cap Ioctl = {} /\ Boxed \cap Ioctl = {}
  /\ "P184Ksh" \notin UsesGet /\ "P184" \in Boxed
  /\ LeaksWhenRefused = Boxed \ {"P184"} /\ UsesGet = Once \cup Boxed \cup Ioctl
  /\ CountsUsers = Once \cup {"Calldev"} /\ "Calldev" \notin UsesGet \cup {"P184Ksh"}
  /\ CountsUsersOnceLive = Boxed \cup {"P184Ksh", "P270", "P527"}
  /\ Boxed \cup {"P184Ksh", "P270", "P527", "Calldev"} = Owners
  /\ CountsUsers \cap Ioctl = {} /\ CountsUsersOnceLive \cap Ioctl = {}
BY DEF Once, Boxed, Ioctl, UsesGet, LeaksWhenRefused, CountsUsers, CountsUsersOnceLive, Owners

\* What a function of one of these versions may have left.
InitLeft(d) ==
  {p \in Program(AllCalls \ HoldCalls) : d \in CountsUsers => p \in AskLast \cup {<<>>}}
HoldLeft(d, op) ==
  IF op = "open" THEN Opens(d) ELSE IF op = "release" THEN Shuts(d)
  ELSE IF op = "init" THEN InitLeft(d) ELSE Program(PlainCalls)

LEMMA HoldLeftClosed ==
  ASSUME NEW d, NEW op
  PROVE  Closed(HoldLeft(d, op))
<1>1. Closed(Opens(d))
  BY OpensSteps DEF Closed, Opens
<1>2. Closed(Shuts(d))
  <2>1. <<>> \in Shuts(d)
    BY DEF Shuts
  <2>2. QED
    BY <2>1, ShutsSteps DEF Closed
<1>3. Closed(InitLeft(d))
  <2>1. Closed(Program(AllCalls \ HoldCalls))
    BY ProgramClosed
  <2>2. QED
    BY <2>1, AskLastSteps DEF Closed, InitLeft
<1>4. Closed(Program(PlainCalls))
  BY ProgramClosed
<1>5. QED
  BY <1>1, <1>2, <1>3, <1>4 DEF HoldLeft

LEMMA BeginsHold ==
  ASSUME NEW d \in HoldVersions, NEW op \in Ops \ {"idle"}, NEW p, Begins(d, op, p)
  PROVE  p \in HoldLeft(d, op)
<1>1. Gets(Driver[d], d) /\ PlainUsers(Driver[d])
  BY VersionsHold
<1>2. /\ Driver[d].init \in Program(AllCalls \ HoldCalls)
      /\ Driver[d].exit \in Program(PlainCalls)
      /\ Driver[d].isr \in Program(PlainCalls)
  BY VersionsLoad
<1>3. d \in CountsUsers => Driver[d].init \in AskLast
  BY AsksForDeviceLast
<1>4. CASE op = "open"
  <2>1. Driver[d].open \in Opens(d)
    BY <1>1, Kinds DEF Gets, Opens
  <2>2. QED
    BY <1>4, <2>1 DEF Begins, HoldLeft
<1>5. CASE op = "release"
  <2>1. Driver[d].release \in Shuts(d)
    BY <1>1, Kinds DEF Gets, Shuts
  <2>2. QED
    BY <1>5, <2>1 DEF Begins, HoldLeft
<1>6. CASE op = "init"
  BY <1>2, <1>3, <1>6 DEF Begins, HoldLeft, InitLeft
<1>7. CASE op \in {"exit", "isr", "timer", "call", "direct"}
  <2>1. HoldLeft(d, op) = Program(PlainCalls)
    BY <1>7 DEF HoldLeft
  <2>2. p \in Program(PlainCalls)
    BY <1>1, <1>2, <1>7 DEF Begins, PlainUsers
  <2>3. QED
    BY <2>1, <2>2
<1>8. QED
  BY <1>4, <1>5, <1>6, <1>7 DEF Ops

\* What is known of the functions that run, whatever they hold.
HoldShape ==
  /\ Base /\ FilesInv
  /\ drv \in HoldVersions
  /\ \A a \in Actors :
       /\ run[a].todo \in HoldLeft(drv, run[a].op)
       /\ run[a].todo # <<>> /\ (run[a].op = "open" \/ (run[a].op = "init"
            /\ drv \in CountsUsers))
            => run[a].ok

LEMMA InitHoldShape ==
  ASSUME Init, drv \in HoldVersions
  PROVE  HoldShape
<1>1. \A a \in Actors : run[a].todo = <<>>
  BY DEF Init, Idle
<1>2. \A op : <<>> \in HoldLeft(drv, op)
  BY HoldLeftClosed DEF Closed
<1>3. QED
  BY <1>1, <1>2, InitBase, InitFilesInv DEF HoldShape

LEMMA NextHoldShape ==
  ASSUME HoldShape, [Next]_vars
  PROVE  HoldShape'
<1>1. Base /\ FilesInv /\ drv \in HoldVersions /\ drv \in DOMAIN Driver
  BY DEF HoldShape, HoldVersions
<1>2. drv' = drv
  BY StatementFrame, OtherFrame DEF vars, modVars
<1>3. Base' /\ FilesInv'
  BY <1>1, BeginsKnown, NextBase, NextFilesInv
<1>4. ASSUME NEW a \in Actors
      PROVE  run'[a].todo \in HoldLeft(drv, run'[a].op)
  <2>1. run'[a].op \in Ops
    <3>1. run'[a].op \in OpsOf(a)
      BY <1>3 DEF Base
    <3>2. QED
      BY <3>1, ActorOps DEF Ops, Actors
  <2>2. CASE run'[a].op = "idle"
    <3>1. run'[a].todo = <<>>
      BY <1>3, <2>2 DEF Base, Idle
    <3>2. QED
      BY <3>1, HoldLeftClosed DEF Closed
  <2>3. ASSUME NEW op \in Ops \ {"idle"}, run'[a].op = op
        PROVE  run'[a].todo \in HoldLeft(drv, op)
    <3>1. Closed(HoldLeft(drv, op))
      BY HoldLeftClosed
    <3>2. run[a].op = op => run[a].todo \in HoldLeft(drv, op)
      BY DEF HoldShape
    <3>3. \A p : Begins(drv, op, p) => p \in HoldLeft(drv, op)
      BY <1>1, BeginsHold
    <3>4. QED
      BY <1>1, <2>3, <3>1, <3>2, <3>3, StaysInOp
  <2>4. QED
    BY <2>1, <2>2, <2>3
<1>5. ASSUME NEW a \in Actors, run'[a].todo # <<>>,
             run'[a].op = "open" \/ (run'[a].op = "init" /\ drv \in CountsUsers)
      PROVE  run'[a].ok
  <2>1. Formed(run[a]) /\ Steps(a)
    BY <1>1, NextRun DEF Base
  <2>2. run[a].todo # <<>> /\ (run[a].op = "open" \/ (run[a].op = "init"
          /\ drv \in CountsUsers))
          => /\ run[a].ok
             /\ Now(a).checked /\ Now(a).call \in MayFail => Now(a).fail = <<>>
    <3>1. run[a].op = "open" => run[a].todo \in Opens(drv)
      BY DEF HoldShape, HoldLeft
    <3>2. run[a].op = "init" /\ drv \in CountsUsers => run[a].todo \in AskLast \cup {<<>>}
      BY DEF HoldShape, HoldLeft, InitLeft
    <3>3. QED
      BY <3>1, <3>2, OpensSteps, AskLastSteps DEF HoldShape, Now
  <2>3. CASE Same(a)
    BY <1>5, <2>2, <2>3 DEF Same
  <2>4. CASE Advances(a) \/ Copies(a)
    BY <1>5, <2>1, <2>2, <2>4 DEF Advances, Copies, At, Formed
  <2>5. CASE Fails(a)
    BY <1>5, <2>1, <2>2, <2>5 DEF Fails, Formed
  <2>6. CASE Starts(a)
    <3>1. \A o, p, f : [op |-> o, todo |-> p, ok |-> TRUE, file |-> f, got |-> 0].ok
      OBVIOUS
    <3>2. QED
      BY <2>6, <3>1, Zenon DEF Starts
  <2>7. CASE Ends(a)
    BY <1>5, <2>7 DEF Ends, Idle
  <2>8. QED
    BY <2>1, <2>3, <2>4, <2>5, <2>6, <2>7 DEF Steps
<1>6. QED
  BY <1>1, <1>2, <1>3, <1>4, <1>5 DEF HoldShape

-----------------------------------------------------------------------------

\* What function r of version d holds: a reference it took, the flag, a structure.
Takes(d, r) ==
  /\ d \in UsesGet
  /\ \/ r.op = "open" /\ r.ok /\ r.todo \notin Getting
     \/ r.op = "release" /\ r.todo \in Putting
HasFlag(d, r) ==
  /\ d \in Once
  /\ \/ r.op = "open" /\ r.ok /\ r.todo \notin {Once1, Once2}
     \/ r.op = "release" /\ r.todo # <<>>
HasBox(d, r) ==
  /\ d \in Boxed \cup {"P184Ksh"}
  /\ \/ r.op = "open" /\ r.ok /\ r.todo = <<>>
     \/ r.op = "release" /\ r.todo # <<>>

Alike(d, r, s) ==
  /\ Takes(d, r) <=> Takes(d, s)
  /\ HasFlag(d, r) <=> HasFlag(d, s)
  /\ HasBox(d, r) <=> HasBox(d, s)

-----------------------------------------------------------------------------
(* The statements that take or give back.                                  *)

LEMMA OpenHolds ==
  ASSUME NEW d \in HoldVersions, NEW p \in Opens(d), p # <<>>
  PROVE  LET c == Head(p).call IN
         /\ c = "try_module_get" => p \in Getting /\ Tail(p) \notin Getting /\ d \in UsesGet
                                    /\ (d \in Once => Tail(p) = <<>> /\ p = Once3)
                                    /\ (d \in Boxed => Tail(p) # <<>>)
         /\ c = "kmalloc" => p \notin Getting /\ <<>> \notin Getting /\ Tail(p) = <<>>
                             /\ d \in Boxed \cup {"P184Ksh"}
         /\ c = "set_open" => p = Once2 /\ Tail(p) = Once3 /\ d \in Once
         /\ c = "test_open" => p = Once1 /\ Tail(p) = Once2 /\ d \in Once
         /\ c \in {"test_open", "set_open"} => p \in Getting /\ Tail(p) \in Getting
<1>1. <<>> \notin Getting
  BY OpenSteps DEF Getting
<1>2. Box2 \notin Getting
  BY OpenSteps DEF Getting
<1>3. {Once1, Once2, Once3} \subseteq Getting
  BY DEF Getting
<1>4. CASE p \in {Once1, Once2, Once3} /\ d \in Once
  BY <1>1, <1>3, <1>4, OpenSteps, Kinds
<1>5. CASE p \in {Box1, Box2} /\ d \in Boxed
  <2>1. Box1 \in Getting
    BY DEF Getting
  <2>2. QED
    BY <1>1, <1>2, <1>5, <2>1, OpenSteps, Kinds
<1>6. CASE p = Box2 /\ d = "P184Ksh"
  BY <1>1, <1>2, <1>6, OpenSteps
<1>7. CASE p = Get1 /\ d \in Ioctl
  <2>1. Get1 \in Getting
    BY DEF Getting
  <2>2. QED
    BY <1>1, <1>7, <2>1, OpenSteps, Kinds
<1>8. QED
  BY <1>4, <1>5, <1>6, <1>7 DEF Opens

\* The six calls that take or give back something, and by whom they are made.
LEMMA HoldNames ==
  ASSUME NEW a \in Actors, Statement(a), a \notin asleep
  PROVE  /\ Now(a).call = "try_module_get" => TryModuleGet(a)
         /\ Now(a).call = "module_put" => ModulePut(a)
         /\ Now(a).call = "kmalloc" => Kmalloc_(a)
         /\ Now(a).call = "kfree" => Kfree(a)
         /\ Now(a).call \in {"set_open", "clear_open"} => SetFlag(a)
         /\ Now(a).call = "register_chrdev" => RegisterChrdev(a)
<1> USE DEF At, Statement, GpioRequest, GpioDirection, GpioFree, TouchLines, GpioToIrq,
            RequestIrq, FreeIrq, UnregisterChrdev, ProvideCall, RemoveCall,
            SetTimer, Test, Mutex, CopyKey,
            ClearKey, WaitEvent, Signal, StoreKey, WakeUp
<1>1. Now(a).call = "try_module_get" => TryModuleGet(a)
  BY DEF ModulePut, Kmalloc_, Kfree, SetFlag, RegisterChrdev
<1>2. Now(a).call = "module_put" => ModulePut(a)
  BY DEF TryModuleGet, Kmalloc_, Kfree, SetFlag, RegisterChrdev
<1>3. Now(a).call = "kmalloc" => Kmalloc_(a)
  BY DEF TryModuleGet, ModulePut, Kfree, SetFlag, RegisterChrdev
<1>4. Now(a).call = "kfree" => Kfree(a)
  BY DEF TryModuleGet, ModulePut, Kmalloc_, SetFlag, RegisterChrdev
<1>5. Now(a).call \in {"set_open", "clear_open"} => SetFlag(a)
  BY DEF TryModuleGet, ModulePut, Kmalloc_, Kfree, RegisterChrdev
<1>6. Now(a).call = "register_chrdev" => RegisterChrdev(a)
  BY DEF TryModuleGet, ModulePut, Kmalloc_, Kfree, SetFlag
<1>7. QED
  BY <1>1, <1>2, <1>3, <1>4, <1>5, <1>6

LEMMA WhoHolds ==
  ASSUME HoldShape, NEW a \in Actors, run[a].todo # <<>>
  PROVE  /\ Now(a).call \in {"try_module_get", "kmalloc", "set_open"} =>
              /\ a \in Threads /\ run[a].op = "open" /\ run[a].todo \in Opens(drv)
              /\ run[a].ok
         /\ Now(a).call \in {"module_put", "kfree", "clear_open"} =>
              a \in Threads /\ run[a].op = "release" /\ run[a].todo \in Shuts(drv)
         /\ Now(a).call = "register_chrdev" =>
              a = admin /\ run[a].op = "init" /\ run[a].todo \in InitLeft(drv)
<1>1. run[a].todo \in HoldLeft(drv, run[a].op) /\ run[a].op \in OpsOf(a)
  BY DEF HoldShape, Base
<1>2. /\ run[a].op \in {"open", "release"} => a \in Threads
      /\ run[a].op = "init" => a = admin
  BY <1>1, ActorOps DEF Actors
<1>3. CASE run[a].op = "open"
  BY <1>1, <1>2, <1>3, OpensSteps DEF HoldShape, HoldLeft, Now
<1>4. CASE run[a].op = "release"
  BY <1>1, <1>2, <1>4, ShutsSteps DEF HoldLeft, Now
<1>5. CASE run[a].op = "init"
  <2>1. run[a].todo \in InitLeft(drv) /\ Now(a).call \in AllCalls \ HoldCalls
    BY <1>1, <1>5, ProgramSteps DEF HoldLeft, InitLeft, Now
  <2>2. QED
    BY <1>2, <1>5, <2>1 DEF HoldCalls
<1>6. CASE run[a].op \notin {"open", "release", "init"}
  <2>1. Now(a).call \in PlainCalls
    BY <1>1, <1>6, ProgramSteps DEF HoldLeft, Now
  <2>2. QED
    BY <2>1 DEF PlainCalls, HoldCalls
<1>7. QED
  BY <1>3, <1>4, <1>5, <1>6

\* No other statement takes anything or gives it back.
LEMMA PlainStatement ==
  ASSUME HoldShape, NEW a \in Actors, Statement(a),
    a \in asleep \/ Now(a).call \notin HoldCalls
  PROVE  /\ UNCHANGED <<refs, structs, openFlag>>
         /\ \A t \in Threads : Alike(drv, run[t], run'[t])
<1>0. Base /\ drv \in HoldVersions
  BY DEF HoldShape
<1>1. Now(a).call \notin HoldCalls
  BY <1>0 DEF Base, HoldCalls
<1>2. UNCHANGED <<refs, structs, openFlag>>
  BY <1>1, StatementFrame DEF HoldCalls, TryModuleGet, ModulePut, Kmalloc_, Kfree, SetFlag, At
<1>3. ASSUME NEW t \in Threads, t # a PROVE Alike(drv, run[t], run'[t])
  <2>1. t \in Actors
    BY DEF Actors
  <2>2. run'[t] = run[t]
    BY <1>0, <1>3, <2>1, StatementRun DEF Alone, Same
  <2>3. QED
    BY <2>2 DEF Alike
<1>4. ASSUME a \in Threads PROVE Alike(drv, run[a], run'[a])
  <2>1. Formed(run[a]) /\ run'[a].op = run[a].op /\ run'[a].file = run[a].file
    BY <1>0, StatementKeeps DEF Base
  <2>2. CASE run[a].op \notin {"open", "release"}
    BY <2>1, <2>2 DEF Alike, Takes, HasFlag, HasBox
  <2>3. Same(a) \/ run[a].todo # <<>>
    BY <1>0, StatementRun DEF Advances, Copies, Fails, At
  <2>4. CASE Same(a)
    BY <2>4 DEF Same, Alike
  <2>5. CASE run[a].op = "open" /\ run[a].todo # <<>>
    <3>1. run[a].todo \in Opens(drv) /\ run[a].ok
      BY <2>5 DEF HoldShape, HoldLeft
    <3>2. Now(a).call = "test_open"
      BY <1>1, <2>5, <3>1, OpensSteps DEF HoldCalls, Now
    <3>3. /\ run[a].todo = Once1 /\ Tail(run[a].todo) = Once2 /\ drv \in Once
          /\ run[a].todo \in Getting /\ Tail(run[a].todo) \in Getting
      BY <1>0, <2>5, <3>1, <3>2, OpenHolds DEF Now
    <3>4. ~Takes(drv, run[a]) /\ ~HasFlag(drv, run[a]) /\ ~HasBox(drv, run[a])
      BY <2>5, <3>3, Kinds DEF Takes, HasFlag, HasBox
    <3>5. CASE Advances(a)
      <4>1. run'[a].todo = Once2
        BY <2>1, <3>3, <3>5 DEF Advances, Formed
      <4>2. ~Takes(drv, run'[a]) /\ ~HasFlag(drv, run'[a]) /\ ~HasBox(drv, run'[a])
        BY <2>1, <2>5, <3>3, <4>1, Kinds DEF Takes, HasFlag, HasBox
      <4>3. QED
        BY <3>4, <4>2 DEF Alike
    <3>6. CASE Fails(a)
      <4>1. ~run'[a].ok
        BY <2>1, <3>6 DEF Fails, Formed
      <4>2. ~Takes(drv, run'[a]) /\ ~HasFlag(drv, run'[a]) /\ ~HasBox(drv, run'[a])
        BY <2>1, <2>5, <4>1 DEF Takes, HasFlag, HasBox
      <4>3. QED
        BY <3>4, <4>2 DEF Alike
    <3>7. ~Copies(a)
      BY <3>2 DEF Copies, At
    <3>8. QED
      BY <1>0, <2>4, <3>5, <3>6, <3>7, StatementRun
  <2>6. CASE run[a].op = "release" /\ run[a].todo # <<>>
    <3> DEFINE p == run[a].todo
    <3>1. p \in Shuts(drv)
      BY <2>6 DEF HoldShape, HoldLeft
    <3>2. /\ Now(a).call \in {"del_timer", "test_init", "gpio_free"}
          /\ p \in Putting <=> Tail(p) \in Putting
          /\ drv \in Once \/ drv \in Boxed \cup {"P184Ksh"} => Tail(p) # <<>>
          /\ Now(a).call \in MayFail => p \notin Putting /\ Now(a).fail \notin Putting
                                        /\ drv \in Ioctl
      BY <1>1, <2>6, <3>1, ShutsSteps DEF HoldCalls, Now
    <3>3. CASE Advances(a)
      <4>1. run'[a].todo = Tail(p)
        BY <2>1, <3>3 DEF Advances, Formed
      <4>2. QED
        BY <2>1, <2>6, <3>2, <4>1 DEF Alike, Takes, HasFlag, HasBox
    <3>4. CASE Fails(a)
      <4>1. run'[a].todo = Now(a).fail /\ Now(a).call \in MayFail
        BY <2>1, <3>4 DEF Fails, Formed
      <4>2. QED
        BY <2>1, <2>6, <3>2, <4>1, Kinds DEF Alike, Takes, HasFlag, HasBox
    <3>5. ~Copies(a)
      BY <3>2 DEF Copies, At
    <3>6. QED
      BY <1>0, <2>4, <3>3, <3>4, <3>5, StatementRun
  <2>7. QED
    BY <2>2, <2>3, <2>4, <2>5, <2>6
<1>5. QED
  BY <1>2, <1>3, <1>4

\* What the six calls do.
LEMMA HoldFrame ==
  ASSUME HoldShape, NEW a \in Actors, Statement(a), a \notin asleep, Now(a).call \in HoldCalls
  PROVE  /\ a \in Threads /\ run[a].op \in {"open", "release"} /\ run[a].todo # <<>>
         /\ run'[a].op = run[a].op /\ run'[a].file = run[a].file
         /\ mod # "out" /\ Alone(a) /\ UNCHANGED <<drv, mod, files, nodes>>
         /\ UNCHANGED refs \/ Now(a).call \in {"try_module_get", "module_put"}
         /\ UNCHANGED structs \/ Now(a).call \in {"kmalloc", "kfree"}
         /\ UNCHANGED openFlag \/ Now(a).call \in {"set_open", "clear_open"}
         /\ UNCHANGED clean \/ Now(a).call = "kmalloc"
<1>0. Base /\ run[a].todo # <<>> /\ mod # "out"
  BY StatementFrame DEF HoldShape, Signal
<1>1. a \in Threads /\ run[a].op \in {"open", "release"}
  BY <1>0, WhoHolds DEF HoldCalls
<1>2. run'[a].op = run[a].op /\ run'[a].file = run[a].file
  BY <1>0, StatementKeeps
<1>3. Alone(a)
  BY <1>0, StatementRun
<1>4. UNCHANGED <<drv, mod, files, nodes>>
  BY StatementFrame DEF RegisterChrdev, UnregisterChrdev, ProvideCall, RemoveCall, At,
    HoldCalls
<1>5. /\ UNCHANGED refs \/ Now(a).call \in {"try_module_get", "module_put"}
      /\ UNCHANGED structs \/ Now(a).call \in {"kmalloc", "kfree"}
      /\ UNCHANGED openFlag \/ Now(a).call \in {"set_open", "clear_open"}
  BY StatementFrame DEF TryModuleGet, ModulePut, Kmalloc_, Kfree, SetFlag, At
<1>6. UNCHANGED clean \/ Now(a).call = "kmalloc"
  BY HoldNames DEF TryModuleGet, ModulePut, Kfree, SetFlag, modVars, HoldCalls
<1>7. QED
  BY <1>0, <1>1, <1>2, <1>3, <1>4, <1>5, <1>6

LEMMA GetStatement ==
  ASSUME HoldShape, NEW a \in Actors, Statement(a), a \notin asleep,
         Now(a).call = "try_module_get"
  PROVE  /\ run[a].op = "open" /\ drv \in UsesGet /\ ~Takes(drv, run[a])
         /\ ~HasBox(drv, run[a])
         /\ \/ /\ mod # "unloading" /\ refs' = refs + 1
               /\ Takes(drv, run'[a])
               /\ HasFlag(drv, run[a]) => HasFlag(drv, run'[a])
            \/ /\ mod = "unloading" /\ UNCHANGED refs
               /\ drv \in Once => ~Takes(drv, run'[a])
<1>1. Base /\ drv \in HoldVersions /\ run[a].todo # <<>> /\ Formed(run[a])
  BY StatementFrame DEF HoldShape, Signal, Base
<1>2. run[a].op = "open" /\ run[a].todo \in Opens(drv) /\ run[a].ok
  BY <1>1, WhoHolds
<1>3. /\ run[a].todo \in Getting /\ Tail(run[a].todo) \notin Getting /\ drv \in UsesGet
      /\ drv \in Once => Tail(run[a].todo) = <<>> /\ run[a].todo = Once3
      /\ drv \in Boxed => Tail(run[a].todo) # <<>>
  BY <1>1, <1>2, OpenHolds DEF Now
<1>4. ~Takes(drv, run[a])
  BY <1>2, <1>3 DEF Takes
<1>5. ~HasBox(drv, run[a])
  BY <1>1, <1>2, <1>3, Kinds DEF HasBox
<1>6. TryModuleGet(a)
  BY HoldNames
<1>7. run'[a].op = "open"
  BY <1>1, <1>2, StatementKeeps
<1>8. CASE mod # "unloading"
  <2>1. refs' = refs + 1 /\ Succeed(a)
    BY <1>6, <1>8 DEF TryModuleGet
  <2>2. run'[a].todo = Tail(run[a].todo) /\ run'[a].ok
    BY <1>1, <1>2, <2>1 DEF Succeed, Formed, Base
  <2>3. Takes(drv, run'[a])
    BY <1>3, <1>7, <2>2 DEF Takes
  <2>4. HasFlag(drv, run[a]) => HasFlag(drv, run'[a])
    BY <1>3, <1>7, <2>2, OpenSteps DEF HasFlag
  <2>5. QED
    BY <1>2, <1>3, <1>4, <1>5, <1>8, <2>1, <2>3, <2>4
<1>9. CASE mod = "unloading"
  <2>1. UNCHANGED refs /\ Fail(a)
    BY <1>6, <1>9 DEF TryModuleGet
  <2>2. drv \in Once => ~run'[a].ok
    <3>1. drv \in Once => Now(a).checked
      BY <1>3, OpenSteps DEF Now
    <3>2. Now(a).checked => ~run'[a].ok
      BY <1>1, <2>1 DEF Fail, Formed, Base
    <3>3. QED
      BY <3>1, <3>2
  <2>3. QED
    BY <1>2, <1>3, <1>4, <1>5, <1>7, <1>9, <2>1, <2>2 DEF Takes
<1>10. QED
  BY <1>8, <1>9

LEMMA PutStatement ==
  ASSUME HoldShape, NEW a \in Actors, Statement(a), a \notin asleep, Now(a).call
    = "module_put"
  PROVE  /\ run[a].op = "release"
         /\ Takes(drv, run[a]) /\ ~Takes(drv, run'[a])
         /\ refs' = IF refs > 0 THEN refs - 1 ELSE 0
         /\ HasFlag(drv, run[a]) => HasFlag(drv, run'[a])
         /\ HasBox(drv, run[a]) => HasBox(drv, run'[a])
<1>1. Base /\ drv \in HoldVersions /\ run[a].todo # <<>> /\ Formed(run[a])
  BY StatementFrame DEF HoldShape, Signal, Base
<1>2. run[a].op = "release" /\ run[a].todo \in Shuts(drv)
  BY <1>1, WhoHolds
<1>3. /\ run[a].todo \in Putting /\ Tail(run[a].todo) \notin Putting
      /\ drv \in Once \/ drv \in Boxed \cup {"P184Ksh"} => Tail(run[a].todo) # <<>>
  BY <1>1, <1>2, ShutsSteps DEF Now
<1>4. drv \in UsesGet
  <2>1. Shuts(drv) \cap Putting # {} => drv \in UsesGet
    <3>1. <<>> \notin Putting /\ Unbox2 \notin Putting
      BY ReleaseSteps DEF Putting
    <3>2. QED
      BY <3>1, Kinds DEF Shuts
  <2>2. QED
    BY <1>2, <1>3, <2>1
<1>5. ModulePut(a)
  BY HoldNames
<1>6. run'[a].op = "release" /\ run'[a].todo = Tail(run[a].todo)
  BY <1>1, <1>2, <1>5, StatementKeeps, SucceedTail DEF ModulePut
<1>7. QED
  BY <1>2, <1>3, <1>4, <1>5, <1>6 DEF ModulePut, Takes, HasFlag, HasBox

LEMMA AllocStatement ==
  ASSUME HoldShape, NEW a \in Actors, Statement(a), a \notin asleep, Now(a).call = "kmalloc"
  PROVE  /\ run[a].op = "open" /\ drv \in Boxed \cup {"P184Ksh"} /\ ~HasBox(drv, run[a])
         /\ \/ /\ structs' = structs \cup {run[a].file} /\ UNCHANGED clean
               /\ HasBox(drv, run'[a])
               /\ Takes(drv, run[a]) <=> Takes(drv, run'[a])
            \/ /\ UNCHANGED structs /\ ~clean'
               /\ ~Takes(drv, run'[a])
<1>1. Base /\ drv \in HoldVersions /\ run[a].todo # <<>> /\ Formed(run[a])
  BY StatementFrame DEF HoldShape, Signal, Base
<1>2. run[a].op = "open" /\ run[a].todo \in Opens(drv) /\ run[a].ok
  BY <1>1, WhoHolds
<1>3. /\ run[a].todo \notin Getting /\ <<>> \notin Getting /\ Tail(run[a].todo) = <<>>
      /\ drv \in Boxed \cup {"P184Ksh"}
  BY <1>1, <1>2, OpenHolds DEF Now
<1>4. Now(a).checked
  BY <1>1, <1>2, OpensSteps DEF Now
<1>5. Kmalloc_(a) /\ run'[a].op = "open"
  BY <1>1, <1>2, HoldNames, StatementKeeps
<1>6. CASE structs' = structs \cup {run[a].file} /\ Accepted(a)
  <2>1. run'[a].todo = <<>> /\ run'[a].ok /\ UNCHANGED clean
    BY <1>1, <1>2, <1>3, <1>6 DEF Accepted, Succeed, Formed, Base
  <2>2. QED
    BY <1>1, <1>2, <1>3, <1>5, <1>6, <2>1 DEF Takes, HasBox
<1>7. CASE Refused(a, FALSE) /\ UNCHANGED structs
  <2>1. ~run'[a].ok /\ ~clean'
    BY <1>1, <1>4, <1>7 DEF Refused, Fail, Formed, Base
  <2>2. QED
    BY <1>1, <1>2, <1>3, <1>5, <1>7, <2>1 DEF Takes, HasBox
<1>8. QED
  BY <1>5, <1>6, <1>7 DEF Kmalloc_

LEMMA FreeStatement ==
  ASSUME HoldShape, NEW a \in Actors, Statement(a), a \notin asleep, Now(a).call = "kfree"
  PROVE  /\ run[a].op = "release" /\ structs' = structs \ {run[a].file}
         /\ Takes(drv, run[a]) <=> Takes(drv, run'[a])
         /\ drv \in Boxed \cup {"P184Ksh"}
<1>1. Base /\ drv \in HoldVersions /\ run[a].todo # <<>>
  BY StatementFrame DEF HoldShape, Signal
<1>2. run[a].op = "release" /\ run[a].todo \in Shuts(drv)
  BY <1>1, WhoHolds
<1>3. run[a].todo \in Putting <=> Tail(run[a].todo) \in Putting
  BY <1>1, <1>2, ShutsSteps DEF Now
<1>4. drv \in Boxed \cup {"P184Ksh"}
  <2>1. run[a].todo \notin {Shut1, Shut2, Shut3, Put1, Put2}
    BY ReleaseSteps DEF Now
  <2>2. run[a].todo \notin Program(FreeCalls)
    <3>1. run[a].todo \in Program(FreeCalls) => Now(a).call \in FreeCalls
      BY <1>1, ProgramSteps DEF Now
    <3>2. QED
      BY <3>1 DEF FreeCalls
  <2>3. QED
    BY <1>1, <1>2, <2>1, <2>2, Kinds DEF Shuts
<1>5. Kfree(a)
  BY HoldNames
<1>6. run'[a].op = "release" /\ run'[a].todo = Tail(run[a].todo)
  BY <1>1, <1>2, <1>5, StatementKeeps, SucceedTail DEF Kfree
<1>7. QED
  BY <1>2, <1>3, <1>4, <1>5, <1>6 DEF Kfree, Takes

LEMMA FlagStatement ==
  ASSUME HoldShape, NEW a \in Actors, Statement(a), a \notin asleep,
         Now(a).call \in {"set_open", "clear_open"}
  PROVE  /\ drv \in Once
         /\ Takes(drv, run[a]) <=> Takes(drv, run'[a])
         /\ Now(a).call = "set_open" => openFlag' = 1 /\ HasFlag(drv, run'[a])
         /\ Now(a).call = "clear_open" => openFlag' = 0
<1>1. Base /\ drv \in HoldVersions /\ run[a].todo # <<>> /\ Formed(run[a])
  BY StatementFrame DEF HoldShape, Signal, Base
<1>2. SetFlag(a) /\ run'[a].op = run[a].op
  BY <1>1, HoldNames, StatementKeeps
<1>3. run'[a].todo = Tail(run[a].todo) /\ run'[a].ok = run[a].ok
  BY <1>1, <1>2 DEF SetFlag, Succeed, Formed, Base
<1>4. CASE Now(a).call = "set_open"
  <2>1. run[a].op = "open" /\ run[a].todo \in Opens(drv) /\ run[a].ok
    BY <1>1, <1>4, WhoHolds
  <2>2. /\ run[a].todo = Once2 /\ Tail(run[a].todo) = Once3 /\ drv \in Once
        /\ run[a].todo \in Getting /\ Tail(run[a].todo) \in Getting
    BY <1>1, <1>4, <2>1, OpenHolds DEF Now
  <2>3. Once3 \notin {Once1, Once2}
    BY OpenSteps
  <2>4. openFlag' = 1
    BY <1>2, <1>4 DEF SetFlag, At
  <2>5. QED
    BY <1>2, <1>3, <1>4, <2>1, <2>2, <2>3, <2>4 DEF Takes, HasFlag
<1>5. CASE Now(a).call = "clear_open"
  <2>1. run[a].op = "release" /\ run[a].todo \in Shuts(drv)
    BY <1>1, <1>5, WhoHolds
  <2>2. run[a].todo \in Putting <=> Tail(run[a].todo) \in Putting
    BY <1>1, <1>5, <2>1, ShutsSteps DEF Now
  <2>3. drv \in Once
    <3>1. run[a].todo \notin {Unbox1, Unbox2, Put1, Put2}
      BY <1>5, ReleaseSteps DEF Now
    <3>2. run[a].todo \notin Program(FreeCalls)
      BY <1>1, <1>5, ProgramSteps DEF FreeCalls, Now
    <3>3. QED
      BY <1>1, <2>1, <3>1, <3>2 DEF Shuts
  <2>4. openFlag' = 0
    BY <1>2, <1>5 DEF SetFlag, At
  <2>5. QED
    BY <1>2, <1>3, <1>5, <2>1, <2>2, <2>3, <2>4 DEF Takes
<1>6. QED
  BY <1>4, <1>5

-----------------------------------------------------------------------------
(* The steps, by what they take; counting the references.                  *)

LEMMA OwnerIs ==
  ASSUME drv \in HoldVersions
  PROVE  Driver[drv].owner <=> drv \in Owners
<1>1. Gets(Driver[drv], drv)
  BY VersionsHold
<1>2. QED
  BY <1>1 DEF Gets

\* A step in which nothing is taken or given back and no file changes its state.
Quiet ==
  /\ UNCHANGED <<drv, refs, structs, openFlag, files>>
  /\ clean' => clean
  /\ \A t \in Threads :
       /\ Alike(drv, run[t], run'[t])
       /\ HasBox(drv, run[t]) => run'[t].file = run[t].file

LEMMA QuietSteps ==
  ASSUME HoldShape, [Next]_vars
  PROVE  \/ Quiet /\ (UNCHANGED mod \/ Rmmod \/ InitReturns \/ ExitReturns)
         \/ Insmod
         \/ \E t \in Threads, f \in Files : Open(t, f) \/ Close(t, f)
         \/ \E t \in Threads : OpenReturns(t) \/ ReleaseReturns(t)
         \/ \E a \in Actors : Statement(a) /\ a \notin asleep /\ Now(a).call \in HoldCalls
<1>0. /\ Base /\ DOMAIN run = Actors /\ Threads \subseteq Actors
      /\ Threads \cap (Keys \cup {admin, softirq}) = {}
  BY ActorAssumption DEF HoldShape, Base, Actors
<1>1. ASSUME UNCHANGED vars
      PROVE  Quiet /\ UNCHANGED mod
  BY <1>1 DEF vars, modVars, fileVars, Quiet, Alike
<1>2. ASSUME NEW a \in Actors, Statement(a), a \in asleep \/ Now(a).call \notin HoldCalls
      PROVE  Quiet /\ UNCHANGED mod
  <2>1. UNCHANGED <<drv, mod, files>>
    BY <1>2, StatementFrame
  <2>2. clean' => clean
    BY <1>2 DEF Statement, Accepted, Refused, modVars, GpioRequest, GpioDirection,
         GpioFree, TouchLines, GpioToIrq, RequestIrq, FreeIrq,
         RegisterChrdev, UnregisterChrdev, ProvideCall, RemoveCall, SetTimer,
         TryModuleGet, ModulePut, Kmalloc_, Kfree, Test, SetFlag, Mutex, StoreKey, CopyKey,
         ClearKey, WaitEvent, Signal, WakeUp
  <2>3. \A t \in Threads : run'[t].file = run[t].file
    BY <1>0, <1>2, StatementKeeps
  <2>4. QED
    BY <1>2, <2>1, <2>2, <2>3, PlainStatement DEF Quiet
<1>3. ASSUME UNCHANGED <<drv, clean, refs, structs, openFlag, files>>,
             NEW a \in Actors, Alone(a),
             a \in Threads => run[a].op \notin {"open", "release"}
                              /\ run'[a].op \notin {"open", "release"}
      PROVE  Quiet
  <2>1. ASSUME NEW t \in Threads
        PROVE  /\ Alike(drv, run[t], run'[t])
               /\ HasBox(drv, run[t]) => run'[t].file = run[t].file
    <3>1. CASE t = a
      BY <1>3, <3>1 DEF Alike, Takes, HasFlag, HasBox
    <3>2. CASE t # a
      <4>1. run'[t] = run[t]
        BY <1>0, <1>3, <3>2 DEF Alone, Same
      <4>2. QED
        BY <4>1 DEF Alike
    <3>3. QED
      BY <3>1, <3>2
  <2>2. QED
    BY <1>3, <2>1 DEF Quiet
<1>4. ASSUME NEW a \in Actors,
             \/ \E op, p, f : Start(a, op, p, f) /\ op \notin {"open", "release"}
             \/ \E op : Done(a, op) /\ op \notin {"open", "release"}
      PROVE  /\ Alone(a) /\ run[a].op \notin {"open", "release"}
             /\ run'[a].op \notin {"open", "release"}
  BY <1>0, <1>4 DEF Start, Done, Alone, Same, Idle
<1>5. admin \in Actors /\ softirq \in Actors /\ Keys \subseteq Actors
  BY DEF Actors
<1>6. CASE Rmmod \/ InitReturns \/ ExitReturns
  <2>1. UNCHANGED <<drv, clean, refs, structs, openFlag, files>>
    BY <1>6 DEF Rmmod, InitReturns, ExitReturns, fileVars
  <2>2. Alone(admin) /\ admin \notin Threads
    BY <1>0, <1>4, <1>5, <1>6 DEF Rmmod, InitReturns, ExitReturns
  <2>3. QED
    BY <1>3, <1>5, <1>6, <2>1, <2>2
<1>7. CASE TimerExpires
  <2>1. UNCHANGED <<drv, mod, clean, refs, structs, openFlag, files>>
    BY <1>7 DEF TimerExpires, fileVars, modVars
  <2>2. Alone(softirq) /\ softirq \notin Threads
    BY <1>0, <1>4, <1>5, <1>7 DEF TimerExpires
  <2>3. QED
    BY <1>3, <1>5, <2>1, <2>2
<1>8. ASSUME NEW k \in Keys, Press(k) PROVE Quiet /\ UNCHANGED mod
  <2>1. UNCHANGED <<drv, mod, clean, refs, structs, openFlag, files>>
    BY <1>8 DEF Press, fileVars, modVars
  <2>2. Alone(k) /\ k \notin Threads /\ k \in Actors
    BY <1>0, <1>4, <1>5, <1>8 DEF Press
  <2>3. QED
    BY <1>3, <2>1, <2>2
<1>9. ASSUME NEW t \in Threads, DirectCall(t) \/ \E f \in Files : Call(t, f)
      PROVE  Quiet /\ UNCHANGED mod
  <2>1. UNCHANGED <<drv, mod, clean, refs, structs, openFlag, files>>
    BY <1>9 DEF DirectCall, Call, fileVars, modVars
  <2>2. /\ Alone(t) /\ t \in Actors /\ run[t].op \notin {"open", "release"}
        /\ run'[t].op \notin {"open", "release"}
    BY <1>0, <1>4, <1>9 DEF DirectCall, Call
  <2>3. QED
    BY <1>3, <2>1, <2>2
<1>10. ASSUME NEW a \in Actors, Return(a) PROVE Quiet /\ UNCHANGED mod
  <2>1. UNCHANGED <<drv, mod, clean, refs, structs, openFlag, files>>
    BY <1>10 DEF Return, fileVars, modVars
  <2>2. Alone(a) /\ run[a].op \notin {"open", "release"} /\ run'[a].op \notin {"open",
          "release"}
    BY <1>4, <1>10 DEF Return
  <2>3. QED
    BY <1>3, <2>1, <2>2
<1>11. QED
  BY <1>1, <1>2, <1>6, <1>7, <1>8, <1>9, <1>10 DEF Next

-----------------------------------------------------------------------------

\* Who has a reference: open files and files being opened and closed, for the owner
\* field; open files and functions that took one themselves.
Owned  == {f \in Files : drv \in Owners /\ files[f] # "closed"}
Opened == {f \in Files : drv \in UsesGet /\ files[f] = "open"}
Takers == {t \in Threads : Takes(drv, run[t])}

Counted(O, P, T, r, exact) ==
  /\ IsFiniteSet(O) /\ IsFiniteSet(P) /\ IsFiniteSet(T) /\ r \in Nat
  /\ Cardinality(O) + Cardinality(P) + Cardinality(T) <= r
  /\ exact => r = Cardinality(O) + Cardinality(P) + Cardinality(T)

LEMMA OneMoreOrLess ==
  ASSUME NEW S, IsFiniteSet(S), NEW x
  PROVE  /\ Cardinality(S) \in Nat
         /\ IsFiniteSet(S \cup {x}) /\ IsFiniteSet(S \ {x})
         /\ x \notin S => Cardinality(S \cup {x}) = Cardinality(S) + 1
         /\ x \in S => Cardinality(S \ {x}) = Cardinality(S) - 1 /\ Cardinality(S) > 0
<1>1. Cardinality(S) \in Nat
  BY FS_CardinalityType
<1>2. /\ IsFiniteSet(S \cup {x})
      /\ Cardinality(S \cup {x}) = IF x \in S THEN Cardinality(S) ELSE Cardinality(S) + 1
  BY FS_AddElement
<1>3. /\ IsFiniteSet(S \ {x})
      /\ Cardinality(S \ {x}) = IF x \in S THEN Cardinality(S) - 1 ELSE Cardinality(S)
  BY FS_RemoveElement
<1>4. x \in S => Cardinality(S) > 0
  BY <1>1, FS_EmptySet
<1>5. QED
  BY <1>1, <1>2, <1>3, <1>4

\* A reference is taken, given back, handed over, or forgotten.
Moves(O, P, T, r, e, x, y) ==
  /\ x \notin O => Counted(O \cup {x}, P, T, r + 1, e)
  /\ x \in O => r > 0 /\ Counted(O \ {x}, P, T, r - 1, e)
  /\ y \notin T => Counted(O, P, T \cup {y}, r + 1, e)
  /\ y \in T => r > 0 /\ Counted(O, P, T \ {y}, r - 1, e)
                /\ Counted(O, P, T \ {y}, r, FALSE)
  /\ x \in P => r > 0 /\ Counted(O, P \ {x}, T, r, FALSE)
  /\ y \in T /\ x \notin P => Counted(O, P \cup {x}, T \ {y}, r, e)
  /\ y \notin T /\ x \in P => Counted(O, P \ {x}, T \cup {y}, r, e)
  /\ r = 0 => O = {} /\ P = {} /\ T = {}

LEMMA CountSteps ==
  ASSUME NEW O, NEW P, NEW T, NEW r, NEW e, e \in BOOLEAN, Counted(O, P, T, r, e),
         NEW x, NEW y
  PROVE  Moves(O, P, T, r, e, x, y)
<1>1. IsFiniteSet(O) /\ IsFiniteSet(P) /\ IsFiniteSet(T) /\ r \in Nat
  BY DEF Counted
<1> DEFINE Delta(S, z) ==
         /\ Cardinality(S) \in Nat
         /\ IsFiniteSet(S \cup {z}) /\ IsFiniteSet(S \ {z})
         /\ z \notin S => Cardinality(S \cup {z}) = Cardinality(S) + 1
         /\ z \in S => Cardinality(S \ {z}) = Cardinality(S) - 1 /\ Cardinality(S) > 0
<1>2. Delta(O, x) /\ Delta(P, x) /\ Delta(T, y)
  BY <1>1, OneMoreOrLess
<1>3. r = 0 => O = {} /\ P = {} /\ T = {}
  <2>1. r = 0 => Cardinality(O) = 0 /\ Cardinality(P) = 0 /\ Cardinality(T) = 0
    BY <1>2 DEF Counted
  <2>2. QED
    BY <1>1, <2>1, FS_EmptySet
<1>4. x \notin O => Counted(O \cup {x}, P, T, r + 1, e)
  BY <1>2 DEF Counted
<1>5. x \in O => r > 0 /\ Counted(O \ {x}, P, T, r - 1, e)
  BY <1>2 DEF Counted
<1>6. y \notin T => Counted(O, P, T \cup {y}, r + 1, e)
  BY <1>2 DEF Counted
<1>7. y \in T => r > 0 /\ Counted(O, P, T \ {y}, r - 1, e) /\ Counted(O, P, T \ {y}, r, FALSE)
  BY <1>2 DEF Counted
<1>8. x \in P => r > 0 /\ Counted(O, P \ {x}, T, r, FALSE)
  BY <1>2 DEF Counted
<1>9. y \in T /\ x \notin P => Counted(O, P \cup {x}, T \ {y}, r, e)
  BY <1>2 DEF Counted
<1>10. y \notin T /\ x \in P => Counted(O, P \ {x}, T \cup {y}, r, e)
  BY <1>2 DEF Counted
<1>11. QED
  BY <1>3, <1>4, <1>5, <1>6, <1>7, <1>8, <1>9, <1>10 DEF Moves

-----------------------------------------------------------------------------
(* Loading, and who has a reference.                                       *)

\* As long as init of a version that counts its users has something to do, and
\* after it failed, nobody is in the driver.
EarlyInv ==
  mod = "loading" /\ drv \in CountsUsers /\ (run[admin].todo # <<>> \/ ~run[admin].ok) =>
    "chrdev" \notin nodes /\ \A f \in Files : files[f] = "closed"

LEMMA NextEarlyInv ==
  ASSUME HoldShape, EarlyInv, [Next]_vars
  PROVE  EarlyInv'
<1>1. CASE UNCHANGED vars
  BY <1>1 DEF vars, modVars, fileVars, EarlyInv
<1>2. CASE Insmod
  BY <1>2 DEF Insmod, NothingDangles, EarlyInv
<1> SUFFICES ASSUME Next, ~Insmod, mod' = "loading", drv' \in CountsUsers,
                    run'[admin].todo # <<>> \/ ~run'[admin].ok
             PROVE  "chrdev" \notin nodes' /\ \A f \in Files : files'[f] = "closed"
  BY <1>1, <1>2 DEF EarlyInv
<1>3. Base /\ FilesInv /\ admin \in Actors /\ Formed(run[admin])
  BY DEF HoldShape, Base, Actors
<1>4. drv' = drv
  BY StatementFrame, OtherFrame
<1>5. mod = "loading" /\ run[admin].op = "init" /\ run'[admin].op = "init"
  BY <1>3, ModStep DEF Base
<1>6. run[admin].todo # <<>> \/ ~run[admin].ok
  <2>1. Steps(admin)
    BY <1>3, NextRun
  <2>2. ~Starts(admin) /\ ~Ends(admin)
    BY <1>5 DEF Starts, Ends, Idle
  <2>3. QED
    BY <2>1, <2>2 DEF Steps, Same, Advances, Copies, Fails, At
<1>7. "chrdev" \notin nodes /\ \A f \in Files : files[f] = "closed"
  BY <1>4, <1>5, <1>6 DEF EarlyInv
<1>8. CASE \A a \in Actors : ~Statement(a)
  <2>1. UNCHANGED nodes
    BY <1>8, OtherFrame
  <2>2. ASSUME NEW t \in Threads PROVE ~OpenReturns(t) /\ ~ReleaseReturns(t)
    BY <1>3, <1>7 DEF FilesInv, OpenReturns, ReleaseReturns, Done
  <2>3. ASSUME NEW t \in Threads, NEW f \in Files PROVE ~Open(t, f) /\ ~Close(t, f)
    BY <1>7 DEF Open, Close
  <2>4. QED
    BY <1>7, <1>8, <2>1, <2>2, <2>3, OtherFrame
<1>9. ASSUME NEW a \in Actors, Statement(a)
      PROVE  UNCHANGED files /\ "chrdev" \notin nodes'
  <2>1. UNCHANGED files
    BY <1>9, StatementFrame
  <2>2. ASSUME RegisterChrdev(a) PROVE UNCHANGED nodes
    <3>1. Now(a).call = "register_chrdev" /\ run[a].todo # <<>>
      BY <2>2 DEF RegisterChrdev, At
    <3>2. a = admin /\ run[a].todo \in AskLast \cup {<<>>}
      BY <1>4, <3>1, WhoHolds DEF InitLeft
    <3>3. Tail(run[a].todo) = <<>> /\ run[a].ok
      BY <1>4, <1>5, <3>1, <3>2, AskLastSteps DEF HoldShape, Now
    <3>4. ~Accepted(a)
      <4>1. Succeed(a) => run'[a].todo = <<>> /\ run'[a].ok
        BY <1>3, <3>2, <3>3 DEF Succeed, Base, Formed
      <4>2. QED
        BY <3>2, <4>1 DEF Accepted
    <3>5. QED
      BY <2>2, <3>4 DEF RegisterChrdev
  <2>3. QED
    BY <1>7, <1>9, <2>1, <2>2, StatementFrame DEF UnregisterChrdev, ProvideCall, RemoveCall
<1>10. QED
  BY <1>7, <1>8, <1>9

-----------------------------------------------------------------------------

LEMMA TakersStep ==
  ASSUME HoldShape, UNCHANGED drv, NEW t \in Threads, Alone(t)
  PROVE  /\ (Takes(drv, run[t]) <=> Takes(drv, run'[t])) => UNCHANGED Takers
         /\ ~Takes(drv, run[t]) /\ Takes(drv, run'[t]) =>
              t \notin Takers /\ Takers' = Takers \cup {t}
         /\ Takes(drv, run[t]) /\ ~Takes(drv, run'[t]) =>
              t \in Takers /\ Takers' = Takers \ {t}
<1>1. \A u \in Threads : u # t => run'[u] = run[u]
  BY DEF Alone, Same, Actors
<1> DEFINE In(u) == Takes(drv, run[u])
           Next_(u) == Takes(drv, run'[u])
<1>2. \A u \in Threads : u # t => (In(u) <=> Next_(u))
  BY <1>1
<1>3. Takers = {u \in Threads : In(u)} /\ Takers' = {u \in Threads : Next_(u)}
  BY DEF Takers
<1> HIDE DEF In, Next_
<1>4. /\ (In(t) <=> Next_(t)) => Takers' = Takers
      /\ ~In(t) /\ Next_(t) => t \notin Takers /\ Takers' = Takers \cup {t}
      /\ In(t) /\ ~Next_(t) => t \in Takers /\ Takers' = Takers \ {t}
  BY <1>2, <1>3
<1>5. QED
  BY <1>4 DEF In, Next_

FileMoves(f, v) ==
  /\ f \in Owned <=> drv \in Owners /\ files[f] # "closed"
  /\ f \in Opened <=> drv \in UsesGet /\ files[f] = "open"
  /\ drv \in Owners /\ v # "closed" => Owned' = Owned \cup {f}
  /\ drv \in Owners /\ v = "closed" => Owned' = Owned \ {f}
  /\ drv \notin Owners => Owned = {} /\ Owned' = {}
  /\ drv \in UsesGet /\ v = "open" => Opened' = Opened \cup {f}
  /\ drv \in UsesGet /\ v # "open" => Opened' = Opened \ {f}
  /\ drv \notin UsesGet => Opened = {} /\ Opened' = {}

LEMMA FileStep ==
  ASSUME HoldShape, UNCHANGED drv, NEW f \in Files, NEW v, files' = [files EXCEPT ![f] = v]
  PROVE  FileMoves(f, v)
<1>1. \A g \in Files : files'[g] = IF g = f THEN v ELSE files[g]
  BY DEF HoldShape, FilesInv
<1>2. QED
  BY <1>1 DEF FileMoves, Owned, Opened

\* The reference count is that of the holders: all of them while a load goes on and
\* while the module is live, unless some have been forgotten; none are left once
\* it is being unloaded.
Exact  == drv # "P184" /\ (drv \in LeaksWhenRefused => clean)
Nobody == Owned = {} /\ Opened = {} /\ Takers = {}
CountInv ==
  /\ mod \in {"loading", "live"} => Counted(Owned, Opened, Takers, refs, Exact)
  /\ (mod = "unloading" /\ drv \notin Ioctl) \/ (mod = "out" /\ drv \in CountsUsers) => Nobody

LEMMA InitCountInv ==
  ASSUME Init
  PROVE  EarlyInv /\ CountInv
<1>1. /\ \A t \in Threads : run[t].op = "idle"
      /\ \A f \in Files : files[f] = "closed"
  BY DEF Init, Actors, Idle
<1>2. Nobody
  BY <1>1 DEF Nobody, Owned, Opened, Takers, Takes
<1>3. QED
  BY <1>2 DEF Init, EarlyInv, CountInv

LEMMA NoFileNobody ==
  ASSUME HoldShape, \A f \in Files : files[f] = "closed"
  PROVE  Nobody /\ \A t \in Threads : run[t].op \notin {"open", "release"}
<1>1. \A t \in Threads : run[t].op \notin {"open", "release"}
  BY DEF HoldShape, FilesInv
<1>2. QED
  BY <1>1 DEF Nobody, Owned, Opened, Takers, Takes

-----------------------------------------------------------------------------
(* What opening and closing a file does.                                   *)

\* What an application's open() and close() do, and the functions' returns.
LEMMA OpenStep ==
  ASSUME HoldShape, NEW t \in Threads, NEW f \in Files, Open(t, f)
  PROVE  /\ files[f] = "closed" /\ files' = [files EXCEPT ![f] = "opening"]
         /\ run[t].op = "idle" /\ Alone(t) /\ mod # "out"
         /\ ~Takes(drv, run[t]) /\ ~HasFlag(drv, run[t]) /\ ~HasBox(drv, run[t])
         /\ ~Takes(drv, run'[t])
         /\ drv \in Owners => mod # "unloading" /\ refs' = refs + 1
         /\ drv \notin Owners => refs' = refs
         /\ UNCHANGED <<drv, mod, clean, structs, openFlag, nodes>> /\ "chrdev" \in nodes
<1>1. Base /\ drv \in HoldVersions /\ t \in Actors /\ DOMAIN run = Actors
  BY DEF HoldShape, Base, Actors
<1>2. Start(t, "open", Driver[drv].open, f)
  BY DEF Open
<1>3. run[t].op = "idle" /\ Alone(t)
  BY <1>1, <1>2 DEF Start, Alone, Same, Idle
<1>4. run'[t].op = "open" /\ run'[t].todo = Driver[drv].open
  BY <1>1, <1>2 DEF Start
<1>5. Gets(Driver[drv], drv)
  BY <1>1, VersionsHold
<1>6. drv \in UsesGet => run'[t].todo \in Getting
  BY <1>4, <1>5 DEF UsesGet, Getting, Gets
<1>7. /\ ~Takes(drv, run[t]) /\ ~HasFlag(drv, run[t]) /\ ~HasBox(drv, run[t])
      /\ ~Takes(drv, run'[t])
  BY <1>3, <1>4, <1>6 DEF Takes, HasFlag, HasBox
<1>8. /\ drv \in Owners => mod # "unloading" /\ refs' = refs + 1
      /\ drv \notin Owners => refs' = refs
  BY <1>1, OwnerIs DEF Open
<1>9. QED
  BY <1>3, <1>7, <1>8 DEF Open, modVars

LEMMA CloseStep ==
  ASSUME HoldShape, NEW t \in Threads, NEW f \in Files, Close(t, f)
  PROVE  /\ files[f] = "open" /\ files' = [files EXCEPT ![f] = "closing"]
         /\ run[t].op = "idle" /\ run'[t].file = f /\ Alone(t) /\ mod # "out"
         /\ ~Takes(drv, run[t]) /\ ~HasFlag(drv, run[t]) /\ ~HasBox(drv, run[t])
         /\ drv \in UsesGet \ {"P184"} => Takes(drv, run'[t])
         /\ drv \notin UsesGet \ {"P184"} => ~Takes(drv, run'[t])
         /\ drv \in Once => HasFlag(drv, run'[t])
         /\ drv \in Boxed \cup {"P184Ksh"} => HasBox(drv, run'[t])
         /\ UNCHANGED <<drv, mod, clean, refs, structs, openFlag, nodes>>
<1>1. Base /\ drv \in HoldVersions /\ t \in Actors /\ DOMAIN run = Actors
  BY DEF HoldShape, Base, Actors
<1>2. Start(t, "release", Driver[drv].release, f)
  BY DEF Close
<1>3. run[t].op = "idle" /\ Alone(t)
  BY <1>1, <1>2 DEF Start, Alone, Same, Idle
<1>4. /\ run'[t].op = "release" /\ run'[t].todo = Driver[drv].release
      /\ run'[t].file = f
  BY <1>1, <1>2 DEF Start
<1>5. Gets(Driver[drv], drv)
  BY <1>1, VersionsHold
<1>6. ~Takes(drv, run[t]) /\ ~HasFlag(drv, run[t]) /\ ~HasBox(drv, run[t])
  BY <1>3 DEF Takes, HasFlag, HasBox
<1>7. drv \in UsesGet \ {"P184"} => Takes(drv, run'[t])
  BY <1>4, <1>5 DEF UsesGet, Putting, Gets, Takes
<1>8. drv \notin UsesGet \ {"P184"} => ~Takes(drv, run'[t])
  <2>1. Unbox2 \notin Putting
    BY ReleaseSteps DEF Putting
  <2>2. drv = "P184" => run'[t].todo = Unbox2
    BY <1>4, <1>5, Kinds DEF Gets
  <2>3. QED
    BY <1>4, <2>1, <2>2 DEF Takes
<1>9. /\ drv \in Once => HasFlag(drv, run'[t])
      /\ drv \in Boxed \cup {"P184Ksh"} => HasBox(drv, run'[t])
  BY <1>4, <1>5, ReleaseSteps DEF Gets, HasFlag, HasBox
<1>10. QED
  BY <1>3, <1>4, <1>6, <1>7, <1>8, <1>9 DEF Close, modVars

LEMMA OpenReturnsStep ==
  ASSUME HoldShape, NEW t \in Threads, OpenReturns(t)
  PROVE  LET f == run[t].file IN
         /\ f \in Files /\ files[f] = "opening" /\ run[t].op = "open" /\ Alone(t)
         /\ files' = [files EXCEPT ![f] = IF run[t].ok THEN "open" ELSE "closed"]
         /\ Takes(drv, run[t]) <=> drv \in UsesGet /\ run[t].ok
         /\ HasBox(drv, run[t]) => run[t].ok
         /\ HasFlag(drv, run[t]) => run[t].ok
         /\ ~Takes(drv, run'[t]) /\ ~HasFlag(drv, run'[t]) /\ ~HasBox(drv, run'[t])
         /\ drv \in Owners /\ ~run[t].ok => refs' = refs - 1
         /\ drv \notin Owners \/ run[t].ok => refs' = refs
         /\ UNCHANGED <<drv, mod, clean, structs, openFlag, nodes>>
<1>1. Base /\ drv \in HoldVersions /\ t \in Actors /\ DOMAIN run = Actors
  BY DEF HoldShape, Base, Actors
<1>2. run[t].op = "open" /\ run[t].todo = <<>> /\ run'[t] = Idle /\ Alone(t)
  BY <1>1 DEF OpenReturns, Done, Alone, Same
<1>3. run[t].file \in Files /\ files[run[t].file] = "opening"
  BY <1>2 DEF HoldShape, FilesInv
<1>4. <<>> \notin Getting
  BY OpenSteps DEF Getting
<1>5. Takes(drv, run[t]) <=> drv \in UsesGet /\ run[t].ok
  BY <1>2, <1>4 DEF Takes
<1>6. run'[t].op = "idle"
  BY <1>2 DEF Idle
<1>7. /\ HasBox(drv, run[t]) \/ HasFlag(drv, run[t]) => run[t].ok
      /\ ~Takes(drv, run'[t]) /\ ~HasFlag(drv, run'[t]) /\ ~HasBox(drv, run'[t])
  BY <1>2, <1>6 DEF Takes, HasFlag, HasBox
<1>8. /\ drv \in Owners /\ ~run[t].ok => refs' = refs - 1
      /\ drv \notin Owners \/ run[t].ok => refs' = refs
  BY <1>1, OwnerIs DEF OpenReturns
<1>9. QED
  BY <1>2, <1>3, <1>5, <1>7, <1>8 DEF OpenReturns, modVars

LEMMA ReleaseReturnsStep ==
  ASSUME HoldShape, NEW t \in Threads, ReleaseReturns(t)
  PROVE  LET f == run[t].file IN
         /\ f \in Files /\ files[f] = "closing" /\ run[t].op = "release" /\ Alone(t)
         /\ files' = [files EXCEPT ![f] = "closed"]
         /\ ~Takes(drv, run[t]) /\ ~HasFlag(drv, run[t]) /\ ~HasBox(drv, run[t])
         /\ ~Takes(drv, run'[t]) /\ ~HasFlag(drv, run'[t]) /\ ~HasBox(drv, run'[t])
         /\ drv \in Owners => refs' = refs - 1
         /\ drv \notin Owners => refs' = refs
         /\ UNCHANGED <<drv, mod, clean, structs, openFlag, nodes>>
<1>1. Base /\ drv \in HoldVersions /\ t \in Actors /\ DOMAIN run = Actors
  BY DEF HoldShape, Base, Actors
<1>2. run[t].op = "release" /\ run[t].todo = <<>> /\ run'[t] = Idle /\ Alone(t)
  BY <1>1 DEF ReleaseReturns, Done, Alone, Same
<1>3. run[t].file \in Files /\ files[run[t].file] = "closing"
  BY <1>2 DEF HoldShape, FilesInv
<1>4. <<>> \notin Putting
  BY ReleaseSteps DEF Putting
<1>5. run'[t].op = "idle"
  BY <1>2 DEF Idle
<1>6. /\ ~Takes(drv, run[t]) /\ ~HasFlag(drv, run[t]) /\ ~HasBox(drv, run[t])
      /\ ~Takes(drv, run'[t]) /\ ~HasFlag(drv, run'[t]) /\ ~HasBox(drv, run'[t])
  BY <1>2, <1>4, <1>5 DEF Takes, HasFlag, HasBox
<1>7. (drv \in Owners => refs' = refs - 1) /\ (drv \notin Owners => refs' = refs)
  BY <1>1, OwnerIs DEF ReleaseReturns
<1>8. QED
  BY <1>2, <1>3, <1>6, <1>7 DEF ReleaseReturns, modVars

-----------------------------------------------------------------------------
(* The reference count of a step.                                          *)

LEMMA QuietCount ==
  ASSUME HoldShape, EarlyInv, CountInv, Quiet,
         UNCHANGED mod \/ Rmmod \/ InitReturns \/ ExitReturns
  PROVE  CountInv'
<1>1. Owned' = Owned /\ Opened' = Opened /\ refs' = refs /\ drv' = drv
  BY DEF Quiet, Owned, Opened
<1>2. Takers' = Takers
  BY DEF Quiet, Takers, Alike
<1>3. Exact' => Exact
  BY DEF Quiet, Exact
<1>4. Nobody' <=> Nobody
  BY <1>1, <1>2 DEF Nobody
<1>5. Counted(Owned, Opened, Takers, refs, Exact) =>
        Counted(Owned, Opened, Takers, refs, Exact)'
  BY <1>1, <1>2, <1>3 DEF Counted
<1>6. CASE UNCHANGED mod
  BY <1>1, <1>4, <1>5, <1>6 DEF CountInv
<1>7. CASE Rmmod
  <2>1. mod = "live" /\ refs = 0 /\ mod' = "unloading"
    BY <1>7 DEF Rmmod
  <2>2. Counted(Owned, Opened, Takers, refs, Exact) /\ Exact \in BOOLEAN
    BY <2>1 DEF CountInv, Exact
  <2>3. Moves(Owned, Opened, Takers, refs, Exact, admin, admin)
    BY <2>2, CountSteps
  <2>4. Nobody
    BY <2>1, <2>3 DEF Nobody, Moves
  <2>5. QED
    BY <1>4, <2>1, <2>4 DEF CountInv
<1>8. CASE InitReturns
  <2>1. /\ mod = "loading" /\ run[admin].todo = <<>>
        /\ mod' = IF run[admin].ok THEN "live" ELSE "out"
    BY <1>8 DEF InitReturns, Done, HoldShape, Base
  <2>2. mod' = "out" /\ drv \in CountsUsers => Nobody
    BY <2>1, NoFileNobody DEF EarlyInv
  <2>3. QED
    BY <1>1, <1>4, <1>5, <2>1, <2>2 DEF CountInv
<1>9. CASE ExitReturns
  <2>1. mod = "unloading" /\ mod' = "out"
    BY <1>9 DEF ExitReturns, Done, HoldShape, Base
  <2>2. drv \in CountsUsers => Nobody
    BY <2>1, Kinds DEF CountInv
  <2>3. QED
    BY <1>1, <1>4, <2>1, <2>2 DEF CountInv
<1>10. QED
  BY <1>6, <1>7, <1>8, <1>9

LEMMA InsmodCount ==
  ASSUME HoldShape, Insmod
  PROVE  CountInv'
<1>1. /\ \A f \in Files : files[f] = "closed"
      /\ mod' = "loading" /\ refs' = 0 /\ UNCHANGED <<drv, files>>
  BY DEF Insmod
<1>2. Nobody
  BY <1>1, NoFileNobody
<1>3. \A t \in Threads : run'[t] = run[t]
  <2>1. admin \notin Threads /\ Threads \subseteq Actors /\ DOMAIN run = Actors
    BY ActorAssumption DEF Actors, HoldShape, Base
  <2>2. QED
    BY <2>1 DEF Insmod, Start
<1>4. Owned' = {} /\ Opened' = {} /\ Takers' = {}
  BY <1>1, <1>2, <1>3 DEF Nobody, Owned, Opened, Takers
<1>5. Counted({}, {}, {}, 0, Exact')
  BY FS_EmptySet DEF Counted
<1>6. QED
  BY <1>1, <1>4, <1>5 DEF CountInv

\* Where nobody may be, nobody comes in.
LEMMA OpenCount ==
  ASSUME HoldShape, CountInv, NEW t \in Threads, NEW f \in Files, Open(t, f)
  PROVE  CountInv'
<1>1. /\ files[f] = "closed" /\ files' = [files EXCEPT ![f] = "opening"]
      /\ Alone(t) /\ mod # "out" /\ ~Takes(drv, run[t]) /\ ~Takes(drv, run'[t])
      /\ drv \in Owners => mod # "unloading" /\ refs' = refs + 1
      /\ drv \notin Owners => refs' = refs
      /\ UNCHANGED <<drv, mod, clean>>
  BY OpenStep
<1>2. Takers' = Takers /\ Exact' = Exact /\ Exact \in BOOLEAN
  BY <1>1, TakersStep DEF Exact
<1>3. /\ f \notin Owned
      /\ drv \in Owners => Owned' = Owned \cup {f}
      /\ drv \notin Owners => Owned' = Owned
      /\ Opened' = Opened
  <2>1. FileMoves(f, "opening")
    BY <1>1, FileStep
  <2>2. QED
    BY <1>1, <2>1 DEF FileMoves
<1>4. CASE mod \in {"loading", "live"}
  <2>1. Counted(Owned, Opened, Takers, refs, Exact)
    BY <1>4 DEF CountInv
  <2>2. Counted(Owned', Opened', Takers', refs', Exact')
    <3>1. Moves(Owned, Opened, Takers, refs, Exact, f, t)
      BY <1>2, <2>1, CountSteps
    <3>2. CASE drv \in Owners
      <4>1. Counted(Owned \cup {f}, Opened, Takers, refs + 1, Exact)
        BY <1>3, <3>1 DEF Moves
      <4>2. QED
        BY <1>1, <1>2, <1>3, <3>2, <4>1
    <3>3. CASE drv \notin Owners
      BY <1>1, <1>2, <1>3, <2>1, <3>3
    <3>4. QED
      BY <3>2, <3>3
  <2>3. QED
    BY <1>1, <1>4, <2>2 DEF CountInv
<1>5. CASE mod = "unloading"
  BY <1>1, <1>2, <1>3, <1>5 DEF CountInv, Nobody
<1>6. QED
  BY <1>1, <1>4, <1>5 DEF HoldShape, Base

LEMMA CloseCount ==
  ASSUME HoldShape, CountInv, NEW t \in Threads, NEW f \in Files, Close(t, f)
  PROVE  CountInv'
<1>1. /\ files[f] = "open" /\ files' = [files EXCEPT ![f] = "closing"]
      /\ Alone(t) /\ mod # "out" /\ ~Takes(drv, run[t])
      /\ drv \in UsesGet \ {"P184"} => Takes(drv, run'[t])
      /\ drv \notin UsesGet \ {"P184"} => ~Takes(drv, run'[t])
      /\ UNCHANGED <<drv, mod, clean, refs>>
  BY CloseStep
<1>2. Exact' = Exact /\ Exact \in BOOLEAN /\ t \notin Takers
  BY <1>1 DEF Exact, Takers
<1>3. /\ Owned' = Owned
      /\ drv \in UsesGet => f \in Opened /\ Opened' = Opened \ {f}
      /\ drv \notin UsesGet => Opened' = Opened
  <2>1. FileMoves(f, "closing")
    BY <1>1, FileStep
  <2>2. QED
    BY <1>1, <2>1 DEF FileMoves
<1>4. CASE mod \in {"loading", "live"}
  <2>1. Counted(Owned, Opened, Takers, refs, Exact)
    BY <1>4 DEF CountInv
  <2>2. Counted(Owned', Opened', Takers', refs', Exact')
    <3>0. Moves(Owned, Opened, Takers, refs, Exact, f, t)
      BY <1>2, <2>1, CountSteps
    <3>1. CASE drv \in UsesGet \ {"P184"}
      <4>1. Takers' = Takers \cup {t}
        BY <1>1, <3>1, TakersStep
      <4>2. Counted(Owned, Opened \ {f}, Takers \cup {t}, refs, Exact)
        BY <1>2, <1>3, <3>0, <3>1 DEF Moves
      <4>3. QED
        BY <1>1, <1>2, <1>3, <3>1, <4>1, <4>2
    <3>2. CASE drv = "P184"
      <4>1. Takers' = Takers
        BY <1>1, <3>2, TakersStep
      <4>2. ~Exact /\ drv \in UsesGet
        BY <3>2, Kinds DEF Exact
      <4>3. Counted(Owned, Opened \ {f}, Takers, refs, FALSE)
        BY <1>3, <3>0, <4>2 DEF Moves
      <4>4. QED
        BY <1>1, <1>2, <1>3, <4>1, <4>2, <4>3 DEF Counted
    <3>3. CASE drv \notin UsesGet
      <4>1. Takers' = Takers
        BY <1>1, <3>3, TakersStep
      <4>2. QED
        BY <1>1, <1>2, <1>3, <2>1, <3>3, <4>1
    <3>4. QED
      BY <3>1, <3>2, <3>3
  <2>3. QED
    BY <1>1, <1>4, <2>2 DEF CountInv
<1>5. CASE mod = "unloading"
  <2>1. drv \notin Ioctl => Nobody
    BY <1>5 DEF CountInv
  <2>2. drv \notin Ioctl => drv \notin UsesGet
    BY <1>3, <2>1 DEF Nobody
  <2>3. drv \notin UsesGet => Takers' = Takers
    BY <1>1, TakersStep
  <2>4. QED
    BY <1>1, <1>3, <1>5, <2>1, <2>2, <2>3 DEF CountInv, Nobody
<1>6. QED
  BY <1>1, <1>4, <1>5 DEF HoldShape, Base

LEMMA OpenReturnsCount ==
  ASSUME HoldShape, CountInv, NEW t \in Threads, OpenReturns(t)
  PROVE  CountInv'
<1> DEFINE f == run[t].file
<1>1. /\ f \in Files /\ files[f] = "opening" /\ run[t].op = "open" /\ Alone(t)
      /\ files' = [files EXCEPT ![f] = IF run[t].ok THEN "open" ELSE "closed"]
      /\ Takes(drv, run[t]) <=> drv \in UsesGet /\ run[t].ok
      /\ ~Takes(drv, run'[t])
      /\ drv \in Owners /\ ~run[t].ok => refs' = refs - 1
      /\ drv \notin Owners \/ run[t].ok => refs' = refs
      /\ UNCHANGED <<drv, mod, clean>>
  BY OpenReturnsStep
<1>2. Exact' = Exact /\ Exact \in BOOLEAN
  BY <1>1 DEF Exact
<1>3. /\ drv \in Owners => f \in Owned
      /\ drv \notin Owners => Owned' = Owned
      /\ f \notin Opened
      /\ run[t].ok => Owned' = Owned
      /\ ~run[t].ok /\ drv \in Owners => Owned' = Owned \ {f}
      /\ ~run[t].ok \/ drv \notin UsesGet => Opened' = Opened
      /\ run[t].ok /\ drv \in UsesGet => Opened' = Opened \cup {f}
  <2>1. (drv \in Owners => f \in Owned) /\ f \notin Opened
    BY <1>1 DEF Owned, Opened
  <2>2. CASE run[t].ok
    <3>1. files' = [files EXCEPT ![f] = "open"]
      BY <1>1, <2>2
    <3>2. FileMoves(f, "open")
      BY <1>1, <3>1, FileStep
    <3>3. QED
      BY <1>1, <2>1, <2>2, <3>2 DEF FileMoves
  <2>3. CASE ~run[t].ok
    <3>1. files' = [files EXCEPT ![f] = "closed"]
      BY <1>1, <2>3
    <3>2. FileMoves(f, "closed")
      BY <1>1, <3>1, FileStep
    <3>3. QED
      BY <1>1, <2>1, <2>3, <3>2 DEF FileMoves
  <2>4. QED
    BY <2>2, <2>3
<1>4. /\ drv \in UsesGet /\ run[t].ok => t \in Takers /\ Takers' = Takers \ {t}
      /\ drv \notin UsesGet \/ ~run[t].ok => Takers' = Takers
  BY <1>1, TakersStep
<1> HIDE DEF f
<1>5. CASE mod \in {"loading", "live"}
  <2>1. Counted(Owned, Opened, Takers, refs, Exact)
    BY <1>5 DEF CountInv
  <2>2. Counted(Owned', Opened', Takers', refs', Exact')
    <3>0. Moves(Owned, Opened, Takers, refs, Exact, f, t)
      BY <1>2, <2>1, CountSteps
    <3>1. CASE run[t].ok /\ drv \in UsesGet
      <4>1. Counted(Owned, Opened \cup {f}, Takers \ {t}, refs, Exact)
        BY <1>3, <1>4, <3>0, <3>1 DEF Moves
      <4>2. QED
        BY <1>1, <1>2, <1>3, <1>4, <3>1, <4>1
    <3>2. CASE run[t].ok /\ drv \notin UsesGet
      BY <1>1, <1>2, <1>3, <1>4, <2>1, <3>2
    <3>3. CASE ~run[t].ok /\ drv \in Owners
      <4>1. Counted(Owned \ {f}, Opened, Takers, refs - 1, Exact)
        BY <1>3, <3>0, <3>3 DEF Moves
      <4>2. QED
        BY <1>1, <1>2, <1>3, <1>4, <3>3, <4>1
    <3>4. CASE ~run[t].ok /\ drv \notin Owners
      BY <1>1, <1>2, <1>3, <1>4, <2>1, <3>4
    <3>5. QED
      BY <3>1, <3>2, <3>3, <3>4
  <2>3. QED
    BY <1>1, <1>5, <2>2 DEF CountInv
<1>6. CASE mod \notin {"loading", "live"}
  <2>1. Nobody => Nobody'
    BY <1>3, <1>4 DEF Nobody
  <2>2. QED
    BY <1>1, <1>6, <2>1 DEF CountInv
<1>7. QED
  BY <1>5, <1>6

LEMMA ReleaseReturnsCount ==
  ASSUME HoldShape, CountInv, NEW t \in Threads, ReleaseReturns(t)
  PROVE  CountInv'
<1> DEFINE f == run[t].file
<1>1. /\ f \in Files /\ files[f] = "closing" /\ Alone(t)
      /\ files' = [files EXCEPT ![f] = "closed"]
      /\ ~Takes(drv, run[t]) /\ ~Takes(drv, run'[t])
      /\ drv \in Owners => refs' = refs - 1
      /\ drv \notin Owners => refs' = refs
      /\ UNCHANGED <<drv, mod, clean>>
  BY ReleaseReturnsStep
<1>2. Exact' = Exact /\ Exact \in BOOLEAN /\ Takers' = Takers
  BY <1>1, TakersStep DEF Exact
<1>3. /\ drv \in Owners => f \in Owned /\ Owned' = Owned \ {f}
      /\ drv \notin Owners => Owned' = Owned
      /\ Opened' = Opened
  <2>1. FileMoves(f, "closed")
    BY <1>1, FileStep
  <2>2. QED
    BY <1>1, <2>1 DEF FileMoves
<1> HIDE DEF f
<1>4. CASE mod \in {"loading", "live"}
  <2>1. Counted(Owned, Opened, Takers, refs, Exact)
    BY <1>4 DEF CountInv
  <2>2. Counted(Owned', Opened', Takers', refs', Exact')
    <3>0. Moves(Owned, Opened, Takers, refs, Exact, f, t)
      BY <1>2, <2>1, CountSteps
    <3>1. CASE drv \in Owners
      <4>1. Counted(Owned \ {f}, Opened, Takers, refs - 1, Exact)
        BY <1>3, <3>0, <3>1 DEF Moves
      <4>2. QED
        BY <1>1, <1>2, <1>3, <3>1, <4>1
    <3>2. CASE drv \notin Owners
      BY <1>1, <1>2, <1>3, <2>1, <3>2
    <3>3. QED
      BY <3>1, <3>2
  <2>3. QED
    BY <1>1, <1>4, <2>2 DEF CountInv
<1>5. CASE mod \notin {"loading", "live"}
  <2>1. Nobody => Nobody'
    BY <1>2, <1>3 DEF Nobody
  <2>2. QED
    BY <1>1, <1>5, <2>1 DEF CountInv
<1>6. QED
  BY <1>4, <1>5

-----------------------------------------------------------------------------
(* The reference count and the flag.                                       *)

LEMMA HoldCount ==
  ASSUME HoldShape, CountInv, NEW a \in Actors, Statement(a), a \notin asleep,
         Now(a).call \in HoldCalls
  PROVE  CountInv'
<1>1. /\ a \in Threads /\ Alone(a) /\ mod # "out" /\ UNCHANGED <<drv, mod, files>>
      /\ UNCHANGED refs \/ Now(a).call \in {"try_module_get", "module_put"}
      /\ UNCHANGED clean \/ Now(a).call = "kmalloc"
  BY HoldFrame
<1>2. Owned' = Owned /\ Opened' = Opened /\ Exact \in BOOLEAN /\ Exact' \in BOOLEAN
  BY <1>1 DEF Owned, Opened, Exact
<1>3. mod \in {"loading", "live", "unloading"}
  BY <1>1 DEF HoldShape, Base
<1>4. mod \in {"loading", "live"} =>
        /\ Counted(Owned, Opened, Takers, refs, Exact)
        /\ Moves(Owned, Opened, Takers, refs, Exact, none, a)
  <2>1. mod \in {"loading", "live"} => Counted(Owned, Opened, Takers, refs, Exact)
    BY DEF CountInv
  <2>2. QED
    BY <1>2, <2>1, CountSteps
<1>5. /\ (Takes(drv, run[a]) <=> Takes(drv, run'[a])) => Takers' = Takers
      /\ ~Takes(drv, run[a]) /\ Takes(drv, run'[a]) =>
           a \notin Takers /\ Takers' = Takers \cup {a}
      /\ Takes(drv, run[a]) /\ ~Takes(drv, run'[a]) =>
           a \in Takers /\ Takers' = Takers \ {a}
  BY <1>1, TakersStep
<1> SUFFICES /\ mod \in {"loading", "live"} => Counted(Owned, Opened, Takers', refs', Exact')
             /\ mod = "unloading" /\ drv \notin Ioctl /\ Nobody => Takers' = {}
  BY <1>1, <1>2 DEF CountInv, Nobody
<1>6. CASE Now(a).call = "try_module_get"
  <2>1. /\ run[a].op = "open" /\ drv \in UsesGet /\ ~Takes(drv, run[a])
        /\ \/ mod # "unloading" /\ refs' = refs + 1 /\ Takes(drv, run'[a])
           \/ /\ mod = "unloading" /\ UNCHANGED refs
              /\ drv \in Once => ~Takes(drv, run'[a])
    BY <1>6, GetStatement
  <2>2. Exact' = Exact
    BY <1>1, <1>6 DEF Exact
  <2>3. mod = "unloading" /\ drv \notin Ioctl /\ Nobody => drv \in Once
    <3>1. run[a].file \in Files /\ files[run[a].file] = "opening"
      BY <1>1, <2>1 DEF HoldShape, FilesInv
    <3>2. Nobody => drv \notin Owners
      BY <3>1 DEF Nobody, Owned
    <3>3. QED
      BY <2>1, <3>2, Kinds
  <2>4. QED
    BY <1>3, <1>4, <1>5, <2>1, <2>2, <2>3 DEF Moves, Nobody
<1>7. CASE Now(a).call = "module_put"
  <2>1. /\ Takes(drv, run[a]) /\ ~Takes(drv, run'[a])
        /\ refs' = IF refs > 0 THEN refs - 1 ELSE 0
    BY <1>7, PutStatement
  <2>2. Exact' = Exact
    BY <1>1, <1>7 DEF Exact
  <2>3. QED
    BY <1>3, <1>4, <1>5, <2>1, <2>2 DEF Moves, Nobody
<1>8. CASE Now(a).call = "kmalloc"
  <2>1. UNCHANGED refs
    BY <1>1, <1>8
  <2>2. CASE UNCHANGED clean /\ (Takes(drv, run[a]) <=> Takes(drv, run'[a]))
    <3>1. Exact' = Exact
      BY <1>1, <2>2 DEF Exact
    <3>2. QED
      BY <1>4, <1>5, <2>1, <2>2, <3>1 DEF Nobody
  <2>3. CASE ~clean' /\ ~Takes(drv, run'[a]) /\ drv \in Boxed \cup {"P184Ksh"}
    <3>1. CASE drv = "P184Ksh"
      <4>1. drv \notin UsesGet /\ drv \notin LeaksWhenRefused
        BY <3>1, Kinds DEF LeaksWhenRefused
      <4>2. ~Takes(drv, run[a])
        BY <4>1 DEF Takes
      <4>3. Exact' = Exact
        BY <1>1, <4>1 DEF Exact
      <4>4. QED
        BY <1>4, <1>5, <2>1, <2>3, <4>2, <4>3 DEF Nobody
    <3>2. CASE drv \in Boxed
      <4>1. ~Exact'
        BY <1>1, <2>3, <3>2, Kinds DEF Exact
      <4>2. Counted(Owned, Opened, Takers, refs, Exact) =>
              Counted(Owned, Opened, Takers, refs, FALSE)
        BY DEF Counted
      <4>3. Exact' = FALSE
        BY <1>2, <4>1
      <4>4. QED
        BY <1>4, <1>5, <2>1, <2>3, <4>2, <4>3 DEF Moves, Nobody
    <3>3. QED
      BY <2>3, <3>1, <3>2
  <2>4. QED
    BY <1>8, <2>2, <2>3, AllocStatement
<1>9. CASE Now(a).call \in {"kfree", "set_open", "clear_open"}
  <2>1. Takes(drv, run[a]) <=> Takes(drv, run'[a])
    BY <1>9, FreeStatement, FlagStatement
  <2>2. Exact' = Exact /\ refs' = refs
    BY <1>1, <1>9 DEF Exact
  <2>3. QED
    BY <1>4, <1>5, <2>1, <2>2 DEF Nobody
<1>10. QED
  BY <1>6, <1>7, <1>8, <1>9 DEF HoldCalls

LEMMA NextCountInv ==
  ASSUME HoldShape, EarlyInv, CountInv, [Next]_vars
  PROVE  CountInv'
BY QuietSteps, QuietCount, InsmodCount, OpenCount, CloseCount, OpenReturnsCount,
   ReleaseReturnsCount, HoldCount

-----------------------------------------------------------------------------

\* Who has set the flag: whoever has the device open, or is about to.
FlagInv ==
  /\ drv \notin Once => openFlag = 0
  /\ mod \in {"loading", "live"} /\ openFlag # 0 =>
       \/ \E f \in Files : files[f] = "open"
       \/ \E t \in Threads : HasFlag(drv, run[t])

LEMMA NextFlagInv ==
  ASSUME HoldShape, FlagInv, [Next]_vars
  PROVE  FlagInv'
<1> DEFINE Held == \/ \E f \in Files : files[f] = "open"
                   \/ \E t \in Threads : HasFlag(drv, run[t])
<1>1. FlagInv <=> /\ drv \notin Once => openFlag = 0
                  /\ mod \in {"loading", "live"} /\ openFlag # 0 => Held
  BY DEF FlagInv
<1>2. FlagInv' <=> /\ drv' \notin Once => openFlag' = 0
                   /\ mod' \in {"loading", "live"} /\ openFlag' # 0 => Held'
  BY DEF FlagInv
<1>3. DOMAIN files = Files /\ Base
  BY DEF HoldShape, FilesInv
<1>4. CASE Quiet /\ (UNCHANGED mod \/ Rmmod \/ InitReturns \/ ExitReturns)
  <2>1. mod' \in {"loading", "live"} => mod \in {"loading", "live"}
    BY <1>4 DEF Rmmod, InitReturns, ExitReturns, Done, HoldShape, Base
  <2>2. Held => Held'
    BY <1>4 DEF Quiet, Alike
  <2>3. QED
    BY <1>1, <1>2, <1>4, <2>1, <2>2 DEF Quiet
<1>5. CASE Insmod
  BY <1>5 DEF Insmod, FlagInv
<1>6. ASSUME NEW t \in Threads, NEW f \in Files, Open(t, f)
      PROVE  FlagInv'
  <2>1. /\ files[f] = "closed" /\ files' = [files EXCEPT ![f] = "opening"] /\ Alone(t)
        /\ ~HasFlag(drv, run[t]) /\ UNCHANGED <<drv, mod, openFlag>>
    BY <1>6, OpenStep
  <2>2. \A u \in Threads : HasFlag(drv, run[u]) => HasFlag(drv, run'[u])
    BY <2>1 DEF Alone, Same, Actors
  <2>3. Held => Held'
    BY <1>3, <2>1, <2>2
  <2>4. QED
    BY <1>1, <1>2, <2>1, <2>3
<1>7. ASSUME NEW t \in Threads, NEW f \in Files, Close(t, f)
      PROVE  FlagInv'
  <2>1. /\ (drv \in Once => HasFlag(drv, run'[t])) /\ UNCHANGED <<drv, mod, openFlag>>
    BY <1>7, CloseStep
  <2>2. QED
    BY <1>1, <1>2, <2>1
<1>8. ASSUME NEW t \in Threads, OpenReturns(t)
      PROVE  FlagInv'
  <2> DEFINE g == run[t].file
  <2>1. /\ g \in Files /\ files[g] = "opening" /\ Alone(t)
        /\ files' = [files EXCEPT ![g] = IF run[t].ok THEN "open" ELSE "closed"]
        /\ HasFlag(drv, run[t]) => run[t].ok
        /\ UNCHANGED <<drv, mod, openFlag>>
    BY <1>8, OpenReturnsStep
  <2> HIDE DEF g
  <2>2. CASE run[t].ok
    <3>1. Held'
      BY <1>3, <2>1, <2>2
    <3>2. QED
      BY <1>1, <1>2, <2>1, <3>1
  <2>3. CASE ~run[t].ok
    <3>1. \A u \in Threads : HasFlag(drv, run[u]) => HasFlag(drv, run'[u])
      BY <2>1, <2>3 DEF Alone, Same, Actors
    <3>2. Held => Held'
      BY <1>3, <2>1, <2>3, <3>1
    <3>3. QED
      BY <1>1, <1>2, <2>1, <3>2
  <2>4. QED
    BY <2>2, <2>3
<1>9. ASSUME NEW t \in Threads, ReleaseReturns(t)
      PROVE  FlagInv'
  <2> DEFINE g == run[t].file
  <2>1. /\ g \in Files /\ files[g] = "closing" /\ Alone(t)
        /\ files' = [files EXCEPT ![g] = "closed"]
        /\ ~HasFlag(drv, run[t])
        /\ UNCHANGED <<drv, mod, openFlag>>
    BY <1>9, ReleaseReturnsStep
  <2> HIDE DEF g
  <2>2. \A u \in Threads : HasFlag(drv, run[u]) => HasFlag(drv, run'[u])
    BY <2>1 DEF Alone, Same, Actors
  <2>3. Held => Held'
    BY <1>3, <2>1, <2>2
  <2>4. QED
    BY <1>1, <1>2, <2>1, <2>3
<1>10. ASSUME NEW a \in Actors, Statement(a), a \notin asleep, Now(a).call \in HoldCalls
      PROVE  FlagInv'
  <2>1. /\ a \in Threads /\ Alone(a) /\ UNCHANGED <<drv, mod, files>>
        /\ UNCHANGED openFlag \/ Now(a).call \in {"set_open", "clear_open"}
        /\ run[a].op \in {"open", "release"} /\ run'[a].op = run[a].op
    BY <1>10, HoldFrame
  <2>2. CASE Now(a).call = "set_open"
    <3>1. drv \in Once /\ HasFlag(drv, run'[a])
      BY <1>10, <2>2, FlagStatement
    <3>2. QED
      BY <1>2, <2>1, <3>1
  <2>3. CASE Now(a).call = "clear_open"
    <3>1. openFlag' = 0
      BY <1>10, <2>3, FlagStatement
    <3>2. QED
      BY <1>2, <3>1
  <2>4. CASE Now(a).call \in {"try_module_get", "module_put", "kmalloc", "kfree"}
    <3>1. drv \in Once /\ mod \in {"loading", "live"} /\ HasFlag(drv, run[a])
            => HasFlag(drv, run'[a])
      <4>1. CASE Now(a).call = "try_module_get"
        BY <1>10, <4>1, GetStatement
      <4>2. CASE Now(a).call = "module_put"
        BY <1>10, <4>2, PutStatement
      <4>3. CASE Now(a).call \in {"kmalloc", "kfree"}
        <5>1. drv \in Boxed \cup {"P184Ksh"}
          BY <1>10, <4>3, AllocStatement, FreeStatement
        <5>2. QED
          BY <5>1, Kinds DEF HasFlag, UsesGet
      <4>4. QED
        BY <2>4, <4>1, <4>2, <4>3
    <3>2. drv \in Once /\ mod \in {"loading", "live"} =>
            \A u \in Threads : HasFlag(drv, run[u]) => HasFlag(drv, run'[u])
      BY <2>1, <3>1 DEF Alone, Same, Actors
    <3>3. drv \in Once /\ mod \in {"loading", "live"} /\ Held => Held'
      BY <2>1, <3>2
    <3>4. QED
      BY <1>1, <1>2, <2>1, <2>4, <3>3
  <2>5. QED
    BY <1>10, <2>2, <2>3, <2>4 DEF HoldCalls
<1>11. QED
  BY <1>4, <1>5, <1>6, <1>7, <1>8, <1>9, <1>10, QuietSteps

-----------------------------------------------------------------------------
(* An open file holds the module; a closed device is free.                 *)

\* Whose structures are allocated: those of the open files, and of the files whose
\* open() has allocated it or whose release() has not freed it yet.
Boxes(f) == files[f] = "open" \/ \E t \in Threads : run[t].file = f /\ HasBox(drv, run[t])
BoxInv ==
  /\ drv \notin Boxed \cup {"P184Ksh"} => structs = {}
  /\ \A f \in structs : f \in Files /\ Boxes(f)

LEMMA NextBoxInv ==
  ASSUME HoldShape, BoxInv, [Next]_vars
  PROVE  BoxInv'
<1>1. DOMAIN files = Files /\ Base /\ Threads \subseteq Actors
  BY DEF HoldShape, FilesInv, Actors
<1>2. CASE Quiet
  <2>1. \A f \in structs : Boxes(f) => Boxes(f)'
    BY <1>2 DEF Quiet, Alike, Boxes
  <2>2. UNCHANGED <<drv, structs>>
    BY <1>2 DEF Quiet
  <2>3. QED
    BY <2>1, <2>2 DEF BoxInv
<1>3. CASE Insmod
  <2>1. \A t \in Threads : run'[t] = run[t]
    BY <1>1, <1>3, ActorAssumption DEF Insmod, Start, Base
  <2>2. UNCHANGED <<drv, structs, files>>
    BY <1>3 DEF Insmod
  <2>3. QED
    BY <2>1, <2>2 DEF BoxInv, Boxes
<1>4. ASSUME NEW t \in Threads, NEW f \in Files, Open(t, f)
      PROVE  BoxInv'
  <2>1. /\ files[f] = "closed" /\ files' = [files EXCEPT ![f] = "opening"] /\ Alone(t)
        /\ ~HasBox(drv, run[t]) /\ UNCHANGED <<drv, structs>>
    BY <1>4, OpenStep
  <2>2. \A u \in Threads : HasBox(drv, run[u]) => run'[u] = run[u]
    BY <1>1, <2>1 DEF Alone, Same
  <2>3. \A g \in Files : Boxes(g) => Boxes(g)'
    BY <1>1, <2>1, <2>2 DEF Boxes
  <2>4. QED
    BY <2>1, <2>3 DEF BoxInv
<1>5. ASSUME NEW t \in Threads, NEW f \in Files, Close(t, f)
      PROVE  BoxInv'
  <2>1. /\ files' = [files EXCEPT ![f] = "closing"] /\ Alone(t) /\ run'[t].file = f
        /\ ~HasBox(drv, run[t])
        /\ drv \in Boxed \cup {"P184Ksh"} => HasBox(drv, run'[t])
        /\ UNCHANGED <<drv, structs>>
    BY <1>5, CloseStep
  <2>2. \A u \in Threads : HasBox(drv, run[u]) => run'[u] = run[u]
    BY <1>1, <2>1 DEF Alone, Same
  <2>3. drv \in Boxed \cup {"P184Ksh"} => \A g \in Files : Boxes(g) => Boxes(g)'
    BY <1>1, <2>1, <2>2 DEF Boxes
  <2>4. QED
    BY <2>1, <2>3 DEF BoxInv
<1>6. ASSUME NEW t \in Threads, OpenReturns(t)
      PROVE  BoxInv'
  <2> DEFINE g == run[t].file
  <2>1. /\ g \in Files /\ run[t].op = "open" /\ Alone(t)
        /\ files[g] = "opening"
        /\ files' = [files EXCEPT ![g] = IF run[t].ok THEN "open" ELSE "closed"]
        /\ HasBox(drv, run[t]) => run[t].ok
        /\ UNCHANGED <<drv, structs>>
    BY <1>6, OpenReturnsStep
  <2>2. \A u \in Threads : u # t => run[u].file # g /\ run'[u] = run[u]
    BY <1>1, <2>1 DEF Alone, Same, HoldShape, FilesInv
  <2> HIDE DEF g
  <2>3. ASSUME NEW f \in Files, Boxes(f) PROVE Boxes(f)'
    <3>1. CASE f = g
      BY <1>1, <2>1, <2>2, <2>3, <3>1 DEF Boxes
    <3>2. CASE f # g
      <4>1. run[t].file = g
        BY DEF g
      <4>2. QED
        BY <1>1, <2>1, <2>2, <2>3, <3>2, <4>1 DEF Boxes
    <3>3. QED
      BY <3>1, <3>2
  <2>4. QED
    BY <2>1, <2>3 DEF BoxInv
<1>7. ASSUME NEW t \in Threads, ReleaseReturns(t)
      PROVE  BoxInv'
  <2> DEFINE g == run[t].file
  <2>1. /\ g \in Files /\ run[t].op = "release" /\ Alone(t)
        /\ files[g] = "closing" /\ files' = [files EXCEPT ![g] = "closed"]
        /\ ~HasBox(drv, run[t]) /\ UNCHANGED <<drv, structs>>
    BY <1>7, ReleaseReturnsStep
  <2>2. \A u \in Threads : u # t => run[u].file # g /\ run'[u] = run[u]
    BY <1>1, <2>1 DEF Alone, Same, HoldShape, FilesInv
  <2> HIDE DEF g
  <2>3. \A f \in Files : Boxes(f) => Boxes(f)'
    BY <1>1, <2>1, <2>2 DEF Boxes
  <2>4. QED
    BY <2>1, <2>3 DEF BoxInv
<1>8. ASSUME NEW a \in Actors, Statement(a), a \notin asleep, Now(a).call \in HoldCalls
      PROVE  BoxInv'
  <2> DEFINE g == run[a].file
  <2>1. /\ a \in Threads /\ Alone(a) /\ UNCHANGED <<drv, files>>
        /\ UNCHANGED structs \/ Now(a).call \in {"kmalloc", "kfree"}
        /\ run[a].op \in {"open", "release"} /\ run'[a].op = run[a].op
        /\ run'[a].file = g
    BY <1>8, HoldFrame
  <2>2. g \in Files
    BY <2>1 DEF HoldShape, FilesInv
  <2>3. \A u \in Threads : u # a => run'[u] = run[u]
    BY <1>1, <2>1 DEF Alone, Same
  <2>4. ASSUME HasBox(drv, run[a]) => HasBox(drv, run'[a])
        PROVE  \A f \in Files : Boxes(f) => Boxes(f)'
    BY <2>1, <2>3, <2>4 DEF Boxes
  <2>5. CASE Now(a).call = "try_module_get"
    <3>1. ~HasBox(drv, run[a])
      BY <1>8, <2>5, GetStatement
    <3>2. QED
      BY <2>1, <2>4, <2>5, <3>1 DEF BoxInv
  <2>6. CASE Now(a).call = "module_put"
    <3>1. HasBox(drv, run[a]) => HasBox(drv, run'[a])
      BY <1>8, <2>6, PutStatement
    <3>2. QED
      BY <2>1, <2>4, <2>6, <3>1 DEF BoxInv
  <2>7. CASE Now(a).call = "kmalloc"
    <3>1. /\ drv \in Boxed \cup {"P184Ksh"} /\ ~HasBox(drv, run[a])
          /\ \/ structs' = structs \cup {g} /\ HasBox(drv, run'[a])
             \/ UNCHANGED structs
      BY <1>8, <2>7, AllocStatement
    <3>2. \A f \in Files : Boxes(f) => Boxes(f)'
      BY <2>4, <3>1
    <3>3. HasBox(drv, run'[a]) => Boxes(g)'
      BY <2>1 DEF Boxes
    <3>4. QED
      BY <2>1, <2>2, <3>1, <3>2, <3>3 DEF BoxInv
  <2>8. CASE Now(a).call = "kfree"
    <3>1. structs' = structs \ {g} /\ drv \in Boxed \cup {"P184Ksh"}
      BY <1>8, <2>8, FreeStatement
    <3>2. \A f \in Files : f # g /\ Boxes(f) => Boxes(f)'
      BY <2>1, <2>3 DEF Boxes
    <3>3. QED
      BY <2>1, <3>1, <3>2 DEF BoxInv
  <2>9. CASE Now(a).call \in {"set_open", "clear_open"}
    <3>1. drv \in Once
      BY <1>8, <2>9, FlagStatement
    <3>2. structs = {} /\ structs' = {} /\ drv' = drv
      BY <2>1, <2>9, <3>1, Kinds DEF BoxInv, Once
    <3>3. QED
      BY <3>2 DEF BoxInv
  <2>10. QED
    BY <1>8, <2>5, <2>6, <2>7, <2>8, <2>9 DEF HoldCalls
<1>9. QED
  BY <1>2, <1>3, <1>4, <1>5, <1>6, <1>7, <1>8, QuietSteps

-----------------------------------------------------------------------------

\* The reference count, the flag and the structures of the versions other than the
\* allocating one are those of the files that are open and of the functions that
\* open and close them.
HoldInv == drv \in HoldVersions => HoldShape /\ EarlyInv /\ CountInv /\ FlagInv /\ BoxInv

LEMMA InitHoldInv ==
  ASSUME Init
  PROVE  HoldInv
<1>1. drv \in HoldVersions => HoldShape
  BY InitHoldShape
<1>2. FlagInv /\ BoxInv
  BY DEF Init, FlagInv, BoxInv
<1>3. QED
  BY <1>1, <1>2, InitCountInv DEF HoldInv

LEMMA NextHoldInv ==
  ASSUME HoldInv, [Next]_vars
  PROVE  HoldInv'
<1>1. drv' = drv
  BY StatementFrame, OtherFrame DEF vars, modVars
<1>2. QED
  BY <1>1, NextHoldShape, NextEarlyInv, NextCountInv, NextFlagInv, NextBoxInv DEF HoldInv

LEMMA HoldsModule ==
  ASSUME HoldInv
  PROVE  OpenFileHoldsModule
<1> SUFFICES ASSUME drv \in CountsUsers \cup CountsUsersOnceLive, NEW f \in Files,
                    files[f] = "open"
             PROVE  /\ mod # "unloading"
                    /\ mod = "out" => drv \notin CountsUsers
                    /\ mod # "out" => refs > 0
  BY DEF OpenFileHoldsModule
<1>1. drv \in HoldVersions /\ drv \notin Ioctl /\ drv \in Once \cup Owners
  BY Kinds DEF HoldVersions, CountsUsers, CountsUsersOnceLive, Owners, Driver
<1>2. HoldShape /\ CountInv
  BY <1>1 DEF HoldInv
<1>3. f \in Owned \/ f \in Opened
  BY <1>1, Kinds DEF Owned, Opened, UsesGet
<1>4. ~Nobody
  BY <1>3 DEF Nobody
<1>5. mod # "unloading" /\ (mod = "out" => drv \notin CountsUsers)
  BY <1>1, <1>2, <1>4 DEF CountInv
<1>6. ASSUME mod # "out" PROVE refs > 0
  <2>1. Counted(Owned, Opened, Takers, refs, Exact) /\ Exact \in BOOLEAN
    BY <1>2, <1>5, <1>6 DEF CountInv, HoldShape, Base, Exact
  <2>2. Moves(Owned, Opened, Takers, refs, Exact, f, f)
    BY <2>1, CountSteps
  <2>3. QED
    BY <1>3, <2>2 DEF Moves
<1>7. QED
  BY <1>5, <1>6

LEMMA FreeWhenClosed ==
  ASSUME HoldInv
  PROVE  ClosedIsFree
<1> SUFFICES ASSUME drv \in Balanced, drv \in LeaksWhenRefused => clean, mod = "live",
                    \A f \in Files : files[f] = "closed"
             PROVE  refs = 0 /\ openFlag = 0 /\ structs = {}
  BY DEF ClosedIsFree
<1>1. drv \in HoldVersions /\ Exact
  BY DEF HoldVersions, Balanced, Exact
<1>2. HoldShape /\ CountInv /\ FlagInv /\ BoxInv
  BY <1>1 DEF HoldInv
<1>3. Nobody /\ \A t \in Threads : run[t].op \notin {"open", "release"}
  BY <1>2, NoFileNobody
<1>4. refs = 0
  <2>1. Counted(Owned, Opened, Takers, refs, Exact)
    BY <1>2 DEF CountInv
  <2>2. refs = Cardinality({}) + Cardinality({}) + Cardinality({})
    BY <1>1, <1>3, <2>1 DEF Counted, Nobody
  <2>3. QED
    BY <2>2, FS_EmptySet
<1>5. \A t \in Threads : ~HasFlag(drv, run[t]) /\ ~HasBox(drv, run[t])
  BY <1>3 DEF HasFlag, HasBox
<1>6. openFlag = 0
  BY <1>2, <1>5 DEF FlagInv
<1>7. structs = {}
  BY <1>2, <1>5 DEF BoxInv, Boxes
<1>8. QED
  BY <1>4, <1>6, <1>7

\* An open file keeps the module: while the module is there, it has a reference for
\* every open file, so rmmod finds the count above 0; the versions that ask for
\* their device last have nobody in them when init fails.
THEOREM OpenFilesHoldModule == Spec => []OpenFileHoldsModule
<1>1. Init => HoldInv
  BY InitHoldInv
<1>2. HoldInv /\ [Next]_vars => HoldInv'
  BY NextHoldInv
<1>3. HoldInv => OpenFileHoldsModule
  BY HoldsModule
<1>4. QED
  BY <1>1, <1>2, <1>3, PTL DEF Spec

\* When every file is closed, what open() took has been given back: the reference,
\* the flag and the structures, whichever opens and closes ran at the same time.
THEOREM ClosedDeviceIsFree == Spec => []ClosedIsFree
<1>1. Init => HoldInv
  BY InitHoldInv
<1>2. HoldInv /\ [Next]_vars => HoldInv'
  BY NextHoldInv
<1>3. HoldInv => ClosedIsFree
  BY FreeWhenClosed
<1>4. QED
  BY <1>1, <1>2, <1>3, PTL DEF Spec
=============================================================================
