# TLA+ models of the LED/key drivers and the Tetrix game

`src/Linux_Bsp` is a study project for a Raspberry Pi: a series of Linux
character drivers for eight LEDs and eight keys on GPIO lines, applications that
use them, a driver for a seven-segment display, and a Qt game, Tetrix, that is
played with the keys. The functions are short, and what is hard about them is
not in any one of them: interrupt handlers, timer callbacks, kernel threads,
system calls and module unloading run at the same time, on state they share
without locks or with a mutex that everybody only tries. This directory models
them, checks the models with TLC and proves the most important results with
TLAPS.

Below, `U/` stands for `src/Linux_Bsp/Ubuntu_BSP/` and `Q/` for
`src/Linux_Bsp/Pi_Bsp/Qt/tetrixPi/`.

## 1. The system

### Components, their state and their operations

| component | state | operations |
|---|---|---|
| key path, `U/p432_ledkey_poll/ledkey_poll_dev.c` | `keyNum`, `keyMutex`, the wait queue | `keyIsr` (interrupt), `ledkey_read`, `ledkey_poll` |
| loading and unloading, same file | requested LED and key lines, interrupts, `irqKey[]`, the device number, the mutex's life | `ledkey_init`, `ledkey_exit` |
| kernel timer driver, `U/0625_TEST/p335_kerneltimer_dev/kerneltimer_dev.c` | `openFlag`, module reference count, `timerLed`, `timerVal`, `ledVal`, the LEDs | open, release, `TIMER_START`, `TIMER_STOP`, `TIMER_VALUE`, write, `kerneltimer_func` (timer softirq), init, exit; a key path as above |
| allocating driver, `U/p369_ledkey_int_kmalloc*/ledkey_int_dev.c` | `openFlag`, reference count, the allocated `keyDataStruct`s, which handler holds which, `keyMutex` | open (allocates and requests interrupts), read, release, `keyIsr`, exit |
| ioctl driver, `U/p306_ledkey_ioctl_rw_LEDKEY_ksh/ioctl_dev.c` | requested lines, `gpioLedInitFlag`, `gpioKeyInitFlag` | ioctl commands `KEYLEDINIT`, `KEYINIT`, `LEDINIT`, `KEYLEDFREE` and commands on values, release |
| the other drivers: `U/p106*`, `U/p122`, `U/p184*`, `U/p238*`, `U/p270*`, `U/p306*`, `U/p369*`, `U/p399*`, `U/p432*`, `U/p527*`, `U/p335*` | lines, handlers, device number, `/proc` files, `openFlag`, `gpioInitFlag`, `keyNum`, the mutex, the reference count, the timer | init, exit, open, release, read, write, ioctl, poll, handlers, timer functions |
| display driver and its application, `U/fnd_4digit` | four digits, position of the scan, select and segment lines, the thread | `fnd_thread`, write, init, exit; load, write, unload |
| Tetrix board and piece, `Q/tetrixboard.cpp`, `Q/tetrixpiece.cpp` | the squares, the falling and the next piece, three flags, the timer, counters | `start`, `pause`, `keyPressEvent`, `timerEvent`, `readGpioData` |
| KeyLed, `Q/keyled.cpp` | the open device | reads a key, emits it to the board; writes the LEDs |
| applications (`ledkey_poll_app.c`, `kerneltimer_app.c`, ...) | last key, mode, the value of the LEDs | loops of `poll`, `read`, `write`, `ioctl` |

`PROJECT.json` lists every component with its files, what is modelled of it, and
the reason where it is not.

### How they interact

* A key press raises an interrupt; `keyIsr` puts the number of the key into
  `keyNum` and wakes the queue. A read or a poll of an application, or KeyLed's
  read on behalf of the game, takes it out. `KeyMailbox` is the contract between
  the two sides; the applications of `UserPrograms` live on its outcome, the
  number of the newest key or 0.
* The game gets a key as a signal of KeyLed in its event loop, at whatever
  moment; it answers by writing the key number to the LEDs.
* The timer application reads keys, and starts, stops and configures the blinking
  by ioctl and write; the callback in the softirq shares `timerVal`, `ledVal` and
  the timer with these calls.
* The kernel decides when a module may be unloaded, by its reference count.

### What is hard

* **Interleaving without locks.** `keyNum` is tested outside the mutex and taken
  inside it; `openFlag`, `ledVal`, the ioctl flags have no lock at all.
* **A trylock in an interrupt handler.** A handler that finds the mutex taken
  gives its key up.
* **Sleeping and waking.** A key between a test and the sleep; several sleepers,
  one key; signals; poll timeouts.
* **Callbacks and threads that outlive their stop.** `del_timer()` does not wait;
  `kthread_stop()` does, and a thread may be stopped before its first run.
* **Partial failure.** Most versions of `init` and `open` give back nothing of
  what they have got when a later request fails.
* **Order of registering.** A device that can be opened before its lines are
  there, a timer that runs before the load has succeeded.
* **Event orders.** The game gets driver keys when there is no piece, no game, or
  a pause; an application gets keys and typed lines in any order.

`PROJECT.json` "hazards" has the list with the line of each.

### What makes each component correct

* key path: no wake-up is lost, each key is read at most once and is the newest,
  sleepers are served, it is a one-key mailbox;
* load and unload: a reported success is complete, an open or an interrupt meets
  a complete device, repeated use keeps nothing, no way leads into freed memory;
* open files: they hold the module, and closing them all frees it;
* timer: references match opens and guard the unload, the LEDs blink only after a
  start, a quiet stop holds, a new period is adopted, what is shown is inverted;
* allocating driver: no handler has freed data, an open file has all keys and holds
  the module, `openFlag` admits one process at a time;
* ioctl driver: what is requested is known, and given back when everybody closes;
* display: one position at a time, dark after the unload, a number comes to be shown;
* applications: the LEDs show the newest input, the last key ends, nothing else does;
* Tetrix: the piece fits, lines are removed when full, squares are conserved, a
  game goes on, a pause is a pause, pieces land.

## 2. Modules

| module | models | composed of |
|---|---|---|
| `KeyMailbox` | abstract: a mailbox of one key, `Put` and `Take` | |
| `KeyEvent` | the key path, one action per statement on shared state | refines `KeyMailbox` |
| `DriverLoad` | `ledkey_init` and `ledkey_exit` of the polling driver | |
| `KernelTimer` | the timer driver without its key path | |
| `LedkeyIntKmalloc` | open, release, read, handler and unloading of the allocating driver | |
| `IoctlDev` | who holds the lines of the ioctl driver | |
| `KernelCalls` | the notation: a function is a sequence of kernel calls, each with what follows a failure | |
| `PollingVersions`, `InterruptVersions`, `TimerVersions` | the functions of 26 versions of the driver, file by file | EXTEND `KernelCalls` |
| `DriverMachine` | the kernel around a version: insmod, rmmod, open, calls, close, handlers, timer | EXTENDS the versions |
| `UserPrograms` | the loops of 18 applications, and the person at keys and keyboard | |
| `FndDev` | the display driver, its thread and its application | |
| `TetrixPiece`, `TetrixBoard` | the game's pieces; its event handlers | the board EXTENDS the pieces |
| `MCKeyEvent`, `MCKernelTimer`, `MCLedkeyIntKmalloc`, `MCIoctlDev`, `MCDriverMachine`, `MCUserPrograms`, `MCFndDev`, `MCTetrixBoard` | constants for TLC | `DriverLoad` needs none |
| `KeyEventProofs`, `DriverLoadProofs`, `LedkeyIntKmallocProofs`, `IoctlDevProofs`, `PeriodicDriverProofs` (timer driver and display), `ApplicationProofs` (game and applications), `DriverMachineProofs`, `DriverLinesProofs` (the versions) | theorems | each EXTENDS the components it is about; `DriverLinesProofs` EXTENDS `DriverMachineProofs` |

Definitions whose comment begins with "Mutant of" are not part of a
specification. Each is a plausible mistake in the definition that follows it,
several of them taken from other versions of the same driver in the repository,
and shows that the property it is paired with in `PROJECT.json` can fail.

### Correspondence to the code

**KeyEvent.** `isr[k]` and `pc[t]` are the program counters of the handler of key
line `k` and of thread `t`; the labels are named after the statements.
`wait_event_interruptible()` is written out as the kernel does it: test
(`WaitCheck`), enter the queue (`PrepareToWait`), test again and leave
(`WaitDone`) or `Sleep`, and `Resume` on a wake-up or a signal. `poll(2)` is
`PollAdd` (`poll_wait`), the test, and a sleep that a wake-up (`triggered`) or the
timeout ends. A key line remembers one edge while its handler runs (`pending`).
`puts`, `mail`, `copied`, `taken`, `lost` are history: they number the stored keys
so that two presses of one key can be told apart. `IsrDrop` is the trylock that
fails: the key is not stored, the wake-up is sent all the same.

**KernelTimer.** `timer` is 0 or the period it was armed with; `mod_timer()` and
`del_timer()` are atomic, and `del_timer()` leaves a running callback alone. The
callback goes LED by LED, then loads and stores `ledVal`, then reads `timerVal`,
then arms the timer. A byte of LEDs is the set of its one bits, so `~ledVal & 0xff`
is a complement. `moduleState` goes through the statements of exit; `rmmod` needs a
reference count of 0. The model starts after a successful `init`.

**DriverLoad.** `step` is the statement of init or exit to run next, `i` the loop
variable from 1. Each request takes the line, or fails because the module's own
last load holds it, or for a foreign reason (at most `MaxFailures` times). What
the kernel holds for the module survives a failed load.

**LedkeyIntKmalloc.** Structures are numbered as `kmalloc()` provides them and are
not reused, so that a use after free would be visible. `request_irq()` refuses a
line that has a handler, because the code asks for no sharing, and may refuse any line
for a reason outside the driver. Test and set of `openFlag` are two steps. `isr[k]` and
`data[k]` are where the handler of key `k` stands and the structure it was called with:
it looks for its line in `irqKey[]` and tries the lock (`IsrLock`, or `IsrBusy` when
somebody has it), stores and unlocks, and prints `keyNum` of the structure without the
lock. `read` takes the key under the lock, or finds it taken and returns 0. `free_irq()`
waits for a handler that is running. `rmmod` needs a reference count of 0, but as the
file operations name no owner, an open may be under way or still begin until
`unregister_chrdev()`: its `try_module_get()` then fails (`OpenNoDevice`), and
`openFlag`, structure and interrupts stay behind. The model starts after a successful
`init` and ends with the module's text.

**IoctlDev.** Every access to a flag or a line is a step, because nothing is
locked. `FirstLabel` is the `switch`. Freeing a line that is not held changes
nothing (the kernel prints a warning). The reference that open takes, without looking
at the result of `try_module_get()`, and release gives back is left out with the
unloading: no property here is about it, and `P306` of `DriverMachine` has both.

**The versions and DriverMachine.** The drivers of the repository are versions of
one another: the same dozen kernel calls in different orders, with different tests
and different answers to a failure. That order is what can be wrong with them, so a
version is written as data: for each function (init, exit, open, each call,
release, `isr`, `timer`) the sequence of its statements on lines, handlers, device
numbers, flags, the mutex, the stored key and the reference count. `On(lines, call)`
is a call whose failure makes the function return; `Version` puts the file operations
of a version together with its init and exit; `OnFailure` gives the cleanup
before that return, `Unchecked` a result nobody looks at, `CallThen` a helper whose
result its caller drops, `IfThen` a test. `DriverMachine` has one action per kernel
call, executed by whoever is at it, so that every statement of every actor can
interleave with every other. A request fails because the line, the handler or the
device number is taken, or for a foreign reason (`MaxFailures`). `run[a]` is what
actor `a` has still to do; `admin` runs insmod and rmmod, `softirq` the timer's
function, a key line its own handler. Files may be shared by threads. The test of
`wait_event_interruptible()` and the sleep are one step, since a wake-up between them
takes the sleep back: that it does is the subject of `KeyEvent`, which has the macro
statement by statement; here the subject is the order of store and wake-up in the
handlers of each version. Values on
the lines are left out: `touch` is the access, `TouchesHeldLines` says what it
needs. Where a version leaves a way into memory that is given back, the machine goes no
further, because what would run there is not defined.

**UserPrograms.** The body of each application's loop is an operator from the byte
read (or the line typed) and the program's variables to those variables. `Mask` is
the shift by `buff - 1` with the width of a `char`, which for a read that returned 0
leaves no bit. `ReadDuringIsr` is the read that returns 0 beside the handler. What a
program may have in an uninitialised variable (`key_no` of the timer application) is
a choice of the initial state.

**FndDev.** `thread` is the program counter of `fnd_thread()` within one position;
`level[p]` is the select line, low lights; `write()` stores digit by digit. `Printed`
is `snprintf("%04d")` cut to four characters, with its sign, and `num` is the table
lookup, which for a sign reads outside the table (`junk`). The application loads the
module, writes what is typed and unloads it; several copies may run at once. A failed
`misc_register()` leaves the thread running; the model stops there.

**TetrixBoard.** All of it runs in the thread of the event loop, so an event
handler with everything it calls is one action. The board is the set of occupied
cells. `Garbage` stands for the members the constructor does not initialise;
`GpioKeys` for the keys the driver may deliver, `{}` for a game without driver.
`BoardWidth`, `BoardHeight`, the shapes and the 25 pieces of a level are constants,
so that TLC can work on a small board; the theorems hold for all.

## 3. Runs

Every property is defined in the component's module with a comment that says what
it means for the code. Sizes are distinct states.

| run | instance | properties | shows |
|---|---|---|---|
| `key_path` | 2 threads, 2 keys, 2 presses, signals | NoLostWakeup, ExactlyOnce; MailboxSpec, ReaderServed, PollerServed, SignalEndsRead | the key path is a one-key mailbox under every interleaving, and sleepers come back |
| `timer_safety` | 2 processes, 2 LEDs, 2 periods | ReferenceSafe, FlagHasOwner, NoBlinkBeforeStart, StopHolds, BlinkInverts; PeriodAdopted | open, close and unload bookkeeping, blinking, a new period arrives |
| `timer_stop` | the same, violation | StopStops | the finding of section 5 |
| `driver_load` | 3 LEDs and 3 keys, 2 failures | LoadSafe, CleanReload | load and unload, again and again |
| `kmalloc_safety` | 3 processes, 2 keys, 4 allocations (1,436,754 states) | HandlerDataAlive, OpenOwnsAllKeys, FlagHasOneOwner, OpenFileCounted | no handler on freed data, one process at a time, whatever fails |
| `ioctl_lines` | 3 processes, 2 LEDs and 2 keys | TrackedKeys, ClosedReturnsKeys | key lines are not lost track of |
| `versions_load` | all 26 versions, 2 LEDs, 2 keys, 1 thread, 2 loads, 1 foreign failure (209,232 states) | LiveComplete, NoWayIntoFreedModule, UnloadGivesBack | what each version's init promises and its exit undoes, with a user, handlers and the timer beside it |
| `versions_files` | the 12 versions whose open files have statements no other run has, 1 LED, 2 keys, 2 threads, 2 files, one of them non-blocking, 2 presses, 1 foreign failure (730,741 states) | TouchesHeldLines, OpenFileHoldsModule, ClearsWhatItCopied, SleeperHasNoKey, ClosedIsFree | open, calls, close, handlers and rmmod against each other |
| `user_programs` | all 18 programs, the real 8 keys, 3 typed lines (33,962 states) | ShowsNewest, EndsWithLastKey; LastKeyEnds | the loops under any order of keys and lines, with reads that find nothing |
| `fnd_display` | 2 positions, 2 segment lines, 2 processes, 2 loads, 2 writes, 1 busy line (235,411 states) | AtMostOneLit, UnloadedIsDark; NumberShown | the scan against write, load failure and unload |
| `tetrix_game` | 3 x 5 board, 3 shapes, 6 pieces, no driver | NoFullLine, SquaresConserved, GameInProgress; PausedStandsStill, PiecesLand | the rules of the game |
| `tetrix_gpio` | 4 pieces, all driver keys, odd values in the uninitialised members (342,936 states) | PieceFits | what survives keys at any moment, also before the first start |

A property of `DriverMachine` names the versions it is claimed for, by what they do
(those that register last, those that count their users, ...). For the others it is
false, and section 5 says which and why.

### Bounds and why they are enough

* Two threads or processes are what every race here needs: one that has tested and
  one that changes what was tested. `ioctl_lines` has three, because `TrackedKeys`
  allows one process to be responsible while two others interfere. `versions_load`
  has one, because `versions_files` has the races between users. `kmalloc_safety` has three:
  one that closes, one that fails halfway, and one that gets the lines of the first.
* Two keys let handlers of different lines run against each other; two presses
  give one key in the mailbox and one that replaces it or meets its reader. The
  safety properties of the key path are proved for every number.
* Two loads: the second is the one that meets what the first has left. One foreign
  failure in each history is enough for the versions, because a load that has
  failed gives nothing to the next but taken lines, and those refuse without being
  counted; `driver_load` has two failures.
* `MaxRefs = 3` stops `open()` where two threads could only repeat themselves.
* Two periods, one of them the initial one; a byte with one of two bits set, so that
  it differs from its inverse in both.
* Loops over lines behave alike at every line but the first and the last; two or
  three lines have both.
* Four allocations: two opens that fail beside two that go on.
* `user_programs` uses the real width of eight keys, because the programs' mistakes
  are coincidences of numbers (key 4 and the mask of key 3). The keys pressed are
  those with a meaning and those whose number is the mask of another.
* Two positions are the smallest display in which unselecting the wrong position
  shows; the theorems hold for every number.
* A board of 3 x 5 with three shapes of four squares has full lines, several at
  once and not adjacent, walls on both sides of a turning piece, and the end of
  the game after few pieces. `LevelPieces = 2` makes the level change often. The
  shapes are those that reach left of their origin, because a new piece starts at
  column `BoardWidth / 2 + 1`.
* `Garbage` has a value below the board, one on it and one beyond it: keys before the
  first start find coordinates and counters of each kind.
* Symmetry is used in `kmalloc_safety`, `ioctl_lines` and `versions_files`, where all
  processes are alike and no property is temporal. The two files of `versions_files`
  are not symmetric, since one of them is non-blocking.

### Deadlock

`CHECK_DEADLOCK FALSE` is set where the system may really stop: the key path when
the presses of the bound are used up and all threads sleep; the timer driver when
the module is gone, and so the allocating driver;
the versions when the loads of the bound are used up, or a load has left a way into
freed memory; the display when its loads and writes are used up; an application
that has ended, when its person has typed all lines; the game with driver keys in
a state that is paused and over at the same time (see section 5). `driver_load`,
`ioctl_lines` and `tetrix_game` check for deadlock.

### Fairness

* `KeyEvent!FairSpec`: a handler whose edge has come runs to its end (the interrupt
  controller guarantees it), and a thread inside a call is scheduled while it can
  run. Nobody must press a key, call the driver or send a signal.
* `KernelTimer!FairSpec`: an armed timer expires and its callback runs to the end.
  No call of a process and no unload is fair.
* `FndDev!FndSpec`: the scan thread is scheduled again and again, as `msleep()` and the
  scheduler guarantee. No application has to go on.
* `UserPrograms!ProgramSpec`: a program in its loop goes on. The person at the keys need not
  do anything.
* `TetrixBoard!FairSpec`: an active timer fires again and again. The player need
  not do anything, and may do everything; `PiecesLand` asks for nothing but that he
  stops restarting the game.

## 4. Proofs

All proofs are complete, and every invariant that a passing run checks is also a
theorem. The assumptions are those named in the modules (`GPIOCNT`
and the board's sides are positive numbers, bounds are natural numbers, the sets of
modes, shapes and so on are subsets of what the code knows). Nothing is assumed of
`KeyEvent!Tasks` and the `Users` of `IoctlDev` and `LedkeyIntKmalloc`, not even that
they are finite; `KernelTimer!Users` is finite, because its references are counted.

**KeyEventProofs.** The invariant is `TypeOK`, `MutualExclusion`, `Ledger`,
`PollersQueued`, `NoLostWakeup` and `ExactlyOnce`, each with a lemma for its step.
`MutualExclusion` carries itself: it says that the mutex is held exactly while one
party is between its trylock and its unlock. `Ledger` is what `ExactlyOnce` lacks
to be inductive: the key in `keyNum` is the one stored last, and a reader past its
test finds it until it clears it; that step needs `MutualExclusion`, because only
the mutex keeps a handler from storing between copy and clear. `NoLostWakeup`
needs `PollersQueued`, that `poll_wait()`'s entry stays until poll returns.
`Refinement` then maps storing to `Put`, clearing to `Take` and all else to a
stutter; `NewestSafe` is the same step lemma read as an action property.

**DriverLoadProofs.** `Holdings` says for each statement exactly what a load or
unload that has not failed holds: the loops of init have the lines below `i`, the
loops of exit still the lines from `i` on. After a failure `Stuck` holds instead:
line 1 is taken and a load cannot get past its first request. The step lemma
splits every request into the one that succeeds and the one that gives the load
up (`GiveUpStep`). `LoadIsSafe` puts together the parts a caller sees; all
properties are read off the invariant.

**PeriodicDriverProofs**, the timer driver. `ReferenceSafe` carries itself with the typing: the set of
processes with a reference gains one member in `OpenGet` and loses one in
`ReleasePut`, and both change the count by one (`GetReference`, `PutReference`).
`NoBlinkBeforeStart` and `StopHolds` carry themselves too, with one lemma for the
three places that call `del_timer()` (`DelTimerStops`). `BlinkInverts` needs
`BlinkInv`, which says what an undisturbed callback has done at each of its
statements: the bits before `cbBit` are shown, then all, then `cbVal` is their
inverse.

The display driver. `ScanInv` names, for every step of the scan, the position that may
be lit: the one before while it is unselected, none while the next is selected,
then that one; the last one, when the thread has been stopped. `AfterExit` is
inductive because only an exit sets `unloaded` and every load clears it.

**LedkeyIntKmallocProofs.** `LineInv` says for each statement of a process which
lines have its structure as their handler's data: those its loop has passed while
it requests, all until it closes, none of those its loop has passed while it frees,
none at all afterwards. With `Allocated` and `Distinct` (a process between kmalloc
and kfree has a live structure that nobody else has) and `Running` (a handler that runs
has the data its line still has, since `free_irq()` waits for it) this makes kfree safe
and two successful opens impossible. An open that fails leaves its structure allocated
and its lines requested: that leak is what keeps the handlers' data alive. All this is
`LinesInv`, which does not speak of `openFlag`. It is what makes the unlocked test of
`openFlag` safe (`CheckFlag`): a process at the test has all lines, and so has one that
is past it and has not set the flag yet, so they are the same; and whoever has set the
flag is seen. So at most one process owns the flag, and only an owner has a reference
(`OneReference`): the count is 0 or 1, and `rmmod` at 0 finds nobody.

**IoctlDevProofs.** `TrackedKeys` is nearly inductive; `CmdFits` adds which
command can be at which statement, and `KeysKept` that a held line always has a
process that is still to close, so that a last close cannot pass it by.

**ApplicationProofs**, the game. `PieceInv` (the piece fits; between lines there is none) is
shown for every event, with lemmas for rotation, a move, a new piece and a landing;
nothing is needed of what `removeFullLines` does to the board, because a new piece
is tested against whatever is there. The flags of a game in progress and the
standstill of a pause are proved for `GpioKeys = {}`, which is an assumption of
those theorems and not of the first. `NeverAFullLine` and `SquaresStayConserved` are
about `removeFullLines` itself, whose loop is the recursive function `AfterLine`: the
board once the lines from the top down to `i` have been visited. The library's
induction theorems take an operator, which the provers here cannot instantiate, so
`NatInd` states induction for a set of numbers; it rests on `NatMin`, that a set of
numbers has a least element, which follows from the well-foundedness of strict
inclusion among finite sets. With it `AfterLineDef` gives the function the value its
definition says, and `VisitedAll` shows at once that no line visited is full, that the
lines not visited are as before, and that the squares less a whole line for every line
taken out are those there were. The squares of a landing piece are four because a
piece that fits does not cover itself (`ShapeApart`, from the table of the shapes, kept
by `RotationApart`).

The applications. Most of them do nothing about a key that they take for seen, and
`ShowsNewest` is not inductive without saying which keys those are. `UserInv` adds
`SeenShown`, that what a program takes for seen is nothing or what is on the LEDs, and
`LastUnseen`, that the key that ends a program is never among them, so that it ends
when that key is read again. What is compared are masks, so the proof needs that the
masks of different keys differ whatever the number of keys is: `Bit`, the power of
two as a recursive function, has its values by `NatInd` above.

**DriverMachineProofs** and **DriverLinesProofs.** The eight properties of the versions,
for any number of threads, files, keys and lines. What a version's functions are is
data, and the number of its statements depends on the numbers of LEDs and keys, so it
is not unfolded. Instead `Program(C)` is the set of programs that make calls of the set `C`
only, `Notation` shows that every operator of `KernelCalls` stays in such a set, and a
set of programs is `Closed` when the rest of a program and what it does on a failure
are in it. A function that starts in a closed set stays in it (`StaysInOp`): what holds
of every member holds of whatever an actor has left to do. `Base` is what is known of
the actors in all versions.

* `NoWakeUpIsLost` (26 versions): `SleepInv`. A handler that has stored a key has the
  wake-up among its remaining statements, in every version whose threads sleep.
* `NothingLeadsIntoFreedModule` (7): `WayInv`. These versions touch neither handlers nor
  the timer, and what they have left to do in init ends with the registration, in exit
  begins with its end.
* `LoadIsComplete` (18): `CompleteInv`. Each line is held or its request is still among
  init's statements, and so for directions and handlers; a failure empties what is left
  and takes `ok` away. No function of these versions but exit gives anything back.
* `ReadTakesWhatItClears` (8): `MutexInv`. Whoever has only statements left that come
  after the trylock holds the mutex; a handler stores a key only then.
* `OpenFilesHoldModule` (17) and `ClosedDeviceIsFree` (24): `HoldInv`. `CountInv` counts:
  the references are those of the open files of a driver with the owner field, those
  taken by `try_module_get()` and kept by open files, and those of functions on their
  way (`Takers`); exactly, unless open() has forgotten one. `CountSteps` is what taking,
  giving back, handing over and forgetting a reference do to the sum of the three
  cardinalities. Rmmod needs 0, so it finds nobody, and afterwards nobody comes in: an
  owner is refused by the kernel and a `try_module_get()` by itself. `EarlyInv` covers
  the failing load: a version that registers last has no device before init has
  succeeded. `FlagInv` and `BoxInv` say for `openFlag` and the structures which open
  file or which running function accounts for them. The allocating driver (`Kmalloc`)
  is not among these; `LedkeyIntKmallocProofs` is about it.

The two properties of `DriverLinesProofs` need the order of statements as well, and
which lines each is for. `Of(p, c)` is what program `p` makes call `c` for, and a
program is `Orderly` if nothing is asked for twice or after it was given back, and
nothing is used that was given back. Loops over tables of lines without repetitions
are orderly (`LoopTurn`, `DoubleLoopTurn`), and so is one part after another under
conditions on what the parts are for (`OrderlyConcat`); init and exit of each version
are put together that way.

* `UnloadGivesEverythingBack` (23 versions): `TidyInv`. As long as no request has
  failed for a foreign reason, init's remaining statements ask for nothing that is
  held, so that none can be refused, and what is held together with what they ask for
  is what they must leave (`Due`). Exit's remaining statements must leave nothing, and
  `Undoes` says of the 22 versions with an exit that exit gives back what init has
  taken, also where a pending timer sends it through another branch. The system call,
  which is never unloaded, has `CallInv`. That no open file is left comes from
  `HoldInv`.
* `OnlyHeldLinesAreTouched` (11): `TouchInv`, which is three arguments. In four versions
  init, exit or the system call itself touches lines that it has asked for
  (`Borrowers`): `OwnInv` says that what a function has yet to touch or to free without
  asking for it (`Needs`) is held and needed by no other function; a failure is followed
  only by the freeing of what was needed anyway (`Sturdy`). In the others (`Holders`)
  only calls on an open file touch lines (`CallsTouch`); an open file keeps the module
  where it is by `HoldInv`, and nobody is let in before `CompleteInv` has all lines,
  which stay until exit. The allocating driver takes its reference with the last
  statement of open, after an allocation and requests that may fail, and gives it back
  in the middle of release, so it has a count of its own, `KmallocInv`: an open is
  still before its `try_module_get()` or counted (`StillToGet`, `Holding`), a release
  is counted up to its `module_put()` (`StillToPut`).

### Only model-checked

* Liveness (`ReaderServed`, `PollerServed`, `SignalEndsRead`, `PeriodAdopted`,
  `LastKeyEnds`, `NumberShown`, `PiecesLand`): out of the prover's reach.
* The violation, by its nature.

## 5. Findings

`U/0625_TEST/p335_kerneltimer_dev/kerneltimer_dev.c:199`: the comments at lines 189
and 281 say that `TIMER_STOP` and release stop the timer; `del_timer()` against a
running callback does not, and the blinking goes on (`timer_stop`).

Seen while modelling, where no comment, test or document promises otherwise:

* a blocking read returns 0 although a key is there, because its trylock meets the
  handler that stored the key (`U/p432_ledkey_poll/ledkey_poll_dev.c:108`); the poll
  applications then show no LED (`ReadDuringIsr`), and a press that meets a read is
  lost (`IsrDrop`);
* test and set of `openFlag` are two statements (`kerneltimer_dev.c:180` and every
  other driver with the flag): two processes can open the device;
* unloading frees the LEDs and the module under a running timer callback
  (`kerneltimer_dev.c:372`); a write between load and store of `ledVal` at line 315 is
  lost;
* an open of the allocating driver that fails keeps its memory and the interrupts it
  has got (`U/p369_ledkey_int_kmalloc_hjy/ledkey_int_dev.c:111`); these handlers are
  still there after an unload, and a later open finds their lines taken;
* `openFlag` stays set when `try_module_get()` refuses an open (line 121 of that file,
  line 184 of `U/0625_TEST/p335_kerneltimer_dev/kerneltimer_dev.c`); rmmod has begun
  then, so it ends with the module;
* `U/p184_ledkey/call_ledkey_dev.c:167` takes a reference in open and gives none back:
  the module cannot be unloaded;
* `p270`, `p184*` and `p527` register the device before the lines are requested, and do
  not unregister it when a request fails; `U/p335_kerneltimer_dev/kerneltimer_dev.c:343`
  arms the timer before the registration that may fail; `kerneltimer_dev_hjy.c:320`
  does not look at the result of its requests;
* so a file opened in between loses its module when init fails (`U/p270/minor_dev.c:266`
  and the others of the line before): with the owner field it had a reference, but a
  failed init asks for none (`OpenFileHoldsModule` and `UnloadGivesBack` say when this
  cannot happen);
* `U/p184_calldev_ledkey_backup/call_dev.c:139` and its copies: an open that fails at
  `kmalloc()` keeps the reference it has taken, and the module stays loaded;
* `U/p527_ledkey_proc/p527_ledkey_dev.c:325` goes on after a refused interrupt and then
  returns the error, with everything else left in place;
* the reads of `p399_ledkey_blockio_ksh` and `p527` copy and clear the key without the
  mutex, so that a key stored between the two is lost;
* `U/fnd_4digit/fnd_dev.c:130`: a failed `misc_register()` leaves the thread running in
  a module that is given back;
* the applications of `p369_ledkey_int`, `p369_ledkey_int_ksh` and `p399` compare the
  number of a key with the mask of the one before: key 4 after key 3 and key 8 after
  key 4 pass unseen;
* with the driver's keys a game can be paused and over at once, and then `start()` and
  `pause()` both refuse for ever; `timerEvent()` starts the timer of a game that has
  just ended; the comments at `tetrixboard.cpp:102` and `107` call keys 3 and 4 right and
  left, the code moves the piece left and right.

## 6. Not modelled

* KeyLed and the Tetrix window: `readKeyData()` is one read and one emit. The read is
  `KeyEvent`'s, the key emitted is `readGpioData()` of `TetrixBoard`, which takes a key
  at any moment; a composition would only remove orders of events.
* Painting, score and window layout; GPIO electrics, bouncing included (an edge is an
  edge); the values that commands copy between the user and the lines.
* `U/call_ledkey_dev.c`, `U/p184_calldev_ledkey/call_app.c`, `U/kerneltimer_led.c` and
  `U/p335_kerneltimer/kerneltimer_led.c`, which stop in the middle of a statement and do
  not compile.
* Programs that make each call once and end; file tools; a command of the boot loader;
  generated meta-object code, kernel images, build products and build files.

## 7. What is left

* A composition of `UserPrograms` with `KeyEvent`, in which two applications share a
  key path; `ReadDuringIsr` stands for it now.
