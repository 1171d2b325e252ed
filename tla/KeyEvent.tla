------------------------------ MODULE KeyEvent ------------------------------
(***************************************************************************)
(* The path of a key press through p432_ledkey_poll/ledkey_poll_dev.c:     *)
(* keyIsr() stores the number of the key in keyNum under a mutex it only   *)
(* tries to take and wakes the wait queue; ledkey_read() sleeps on the     *)
(* queue until keyNum is set, tries the mutex, copies keyNum and clears    *)
(* it; ledkey_poll() queues the caller and tests keyNum.  The timer driver *)
(* 0625_TEST/p335_kerneltimer_dev holds the same three functions and       *)
(* p399_ledkey_blockio the first two.                                      *)
(*                                                                         *)
(* Every statement that touches shared state is a step of its own.         *)
(* Handlers of different key lines run concurrently with each other and    *)
(* with the threads; the kernel never runs two handlers of one line at     *)
(* once and remembers at most one further edge of it (pending).            *)
(*                                                                         *)
(* The keys stored in keyNum are numbered 1, 2, 3, ...: the variables      *)
(* puts, mail, copied, taken and lost are history, no guard reads them.    *)
(***************************************************************************)
EXTENDS Naturals

CONSTANTS
  Tasks,            \* threads that share the open file
  GPIOCNT,          \* number of keys (8 in the source)
  FileModes,        \* the modes a read may find in f_flags
  Interruptible,    \* the threads a signal may be sent to
  MaxPresses        \* bound on the number of rising edges of all keys

ASSUME GpioAssumption == GPIOCNT \in Nat \ {0}
ASSUME BoundAssumption == MaxPresses \in Nat
ASSUME ModeAssumption == FileModes \subseteq {"blocking", "nonblocking"}
ASSUME SignalAssumption == Interruptible \subseteq Tasks

VARIABLES
  keyNum,           \* 0, or the number of the key nobody has read yet
  keyMutex,         \* "free" or "held"
  waitQueueRead,    \* threads with an entry in the wait queue
  triggered,        \* pollers a wake-up has reached since they last looked
  signalled,        \* threads with a pending signal
  pending,          \* key lines whose edge awaits its handler
  presses,          \* rising edges so far
  isr,              \* isr[k]: next statement of the handler of key k
  pc,               \* pc[t]: next statement of thread t
  kbuf,             \* kbuf[t]: the local variable of thread t's read
  puts, mail, copied, taken, lost

device   == <<keyNum, keyMutex>>
queue    == <<waitQueueRead, triggered>>
edges    == <<pending, presses>>
history  == <<puts, mail, copied, taken, lost>>
vars == <<device, queue, signalled, edges, isr, pc, kbuf, history>>

Keys == 1..GPIOCNT

IsrLabels    == {"idle", "lock", "store", "unlock", "wake"}
ReaderLabels == {"check", "prepare", "recheck", "asleep",
                 "lock", "test", "copy", "clear", "unlock", "return"}
PollerLabels == {"poll_add", "poll_check", "poll_sleep", "poll_last"}

Init ==
  /\ keyNum = 0
  /\ keyMutex = "free"
  /\ waitQueueRead = {}
  /\ triggered = {}
  /\ signalled = {}
  /\ pending = {}
  /\ presses = 0
  /\ isr = [k \in Keys |-> "idle"]
  /\ pc = [t \in Tasks |-> "idle"]
  /\ kbuf = [t \in Tasks |-> 0]
  /\ puts = 0
  /\ mail = 0
  /\ copied = [t \in Tasks |-> 0]
  /\ taken = [t \in Tasks |-> {}]
  /\ lost = {}

IsrStep(k, from, to) ==
  /\ isr[k] = from
  /\ isr' = [isr EXCEPT ![k] = to]

TaskStep(t, from, to) ==
  /\ pc[t] = from
  /\ pc' = [pc EXCEPT ![t] = to]

Enqueue(t) == waitQueueRead' = waitQueueRead \cup {t}
Dequeue(t) == waitQueueRead' = waitQueueRead \ {t}

-----------------------------------------------------------------------------
(* The key lines and keyIsr().                                             *)

\* A rising edge on the line of key k; an edge that finds one pending is lost.
Press(k) ==
  /\ presses < MaxPresses
  /\ presses' = presses + 1
  /\ pending' = pending \cup {k}
  /\ UNCHANGED <<device, queue, signalled, isr, pc, kbuf, history>>

IsrEnter(k) ==
  /\ k \in pending
  /\ IsrStep(k, "idle", "lock")
  /\ pending' = pending \ {k}
  /\ UNCHANGED <<device, queue, signalled, presses, pc, kbuf, history>>

IsrLock(k) ==
  /\ keyMutex = "free"
  /\ IsrStep(k, "lock", "store")
  /\ keyMutex' = "held"
  /\ UNCHANGED <<keyNum, queue, signalled, edges, pc, kbuf, history>>

\* mutex_trylock() fails: the loop runs on and the press is dropped.
IsrDrop(k) ==
  /\ keyMutex = "held"
  /\ IsrStep(k, "lock", "wake")
  /\ UNCHANGED <<device, queue, signalled, edges, pc, kbuf, history>>

IsrStore(k) ==
  /\ IsrStep(k, "store", "unlock")
  /\ keyNum' = k
  /\ puts' = puts + 1
  /\ mail' = puts'
  /\ lost' = IF keyNum = 0 THEN lost ELSE lost \cup {mail}
  /\ UNCHANGED <<keyMutex, queue, signalled, edges, pc, kbuf, copied, taken>>

IsrUnlock(k) ==
  /\ IsrStep(k, "unlock", "wake")
  /\ keyMutex' = "free"
  /\ UNCHANGED <<keyNum, queue, signalled, edges, pc, kbuf, history>>

\* A wake-up takes the sleeping readers out of the queue (their entries
\* remove themselves) and marks the pollers, whose entries stay.
Pollers == {t \in Tasks : pc[t] \in PollerLabels}

\* Mutant of IsrWake: wake_up_interruptible() is forgotten.
IsrNoWake(k) ==
  /\ IsrStep(k, "wake", "idle")
  /\ UNCHANGED <<device, queue, signalled, edges, pc, kbuf, history>>

IsrWake(k) ==
  /\ IsrStep(k, "wake", "idle")
  /\ waitQueueRead' = waitQueueRead \cap Pollers
  /\ triggered' = triggered \cup (waitQueueRead \cap Pollers)
  /\ UNCHANGED <<device, signalled, edges, pc, kbuf, history>>

keyIsr(k) ==
  \/ IsrEnter(k) \/ IsrLock(k) \/ IsrDrop(k)
  \/ IsrStore(k) \/ IsrUnlock(k) \/ IsrWake(k)

-----------------------------------------------------------------------------
(* ledkey_read().                                                          *)

ReadCall(t, mode) ==
  /\ TaskStep(t, "idle", IF mode = "nonblocking" THEN "lock" ELSE "check")
  /\ kbuf' = [kbuf EXCEPT ![t] = 0]
  /\ UNCHANGED <<device, queue, signalled, edges, isr, history>>

\* wait_event_interruptible(): the test before anything is queued.
WaitCheck(t) ==
  /\ TaskStep(t, "check", IF keyNum # 0 THEN "lock" ELSE "prepare")
  /\ UNCHANGED <<device, queue, signalled, edges, isr, kbuf, history>>

PrepareToWait(t) ==
  /\ TaskStep(t, "prepare", "recheck")
  /\ Enqueue(t)
  /\ UNCHANGED <<device, triggered, signalled, edges, isr, kbuf, history>>

\* Mutant of WaitDone: wait_event() instead of wait_event_interruptible().
WaitDoneUninterruptible(t) ==
  /\ keyNum # 0
  /\ TaskStep(t, "recheck", "lock")
  /\ Dequeue(t)
  /\ UNCHANGED <<device, triggered, signalled, edges, isr, kbuf, history>>

\* The wait ends when keyNum is set or a signal is pending, and the code
\* ignores which of the two it was.
WaitDone(t) ==
  /\ keyNum # 0 \/ t \in signalled
  /\ TaskStep(t, "recheck", "lock")
  /\ Dequeue(t)
  /\ UNCHANGED <<device, triggered, signalled, edges, isr, kbuf, history>>

\* Mutant of Sleep: keyNum is not tested again once the thread is queued.
SleepUntested(t) ==
  /\ t \notin signalled
  /\ TaskStep(t, "recheck", "asleep")
  /\ UNCHANGED <<device, queue, signalled, edges, isr, kbuf, history>>

Sleep(t) ==
  /\ keyNum = 0
  /\ t \notin signalled
  /\ TaskStep(t, "recheck", "asleep")
  /\ UNCHANGED <<device, queue, signalled, edges, isr, kbuf, history>>

\* schedule() returns to a thread a wake-up or a signal has made runnable.
Resume(t) ==
  /\ t \notin waitQueueRead \/ t \in signalled
  /\ TaskStep(t, "asleep", "prepare")
  /\ UNCHANGED <<device, queue, signalled, edges, isr, kbuf, history>>

Signal(t) ==
  /\ t \notin signalled
  /\ pc[t] \in {"check", "prepare", "recheck", "asleep"}
  /\ signalled' = signalled \cup {t}
  /\ UNCHANGED <<device, queue, edges, isr, pc, kbuf, history>>

\* Mutant of ReadLock: keyNum is read and cleared without the mutex, as the
\* variant p399_ledkey_blockio_ksh does.
ReadLockUnchecked(t) ==
  /\ TaskStep(t, "lock", "test")
  /\ keyMutex' = "held"
  /\ UNCHANGED <<keyNum, queue, signalled, edges, isr, kbuf, history>>

ReadLock(t) ==
  /\ keyMutex = "free"
  /\ TaskStep(t, "lock", "test")
  /\ keyMutex' = "held"
  /\ UNCHANGED <<keyNum, queue, signalled, edges, isr, kbuf, history>>

\* mutex_trylock() fails: the read returns the 0 kbuf was initialised with.
ReadGiveUp(t) ==
  /\ keyMutex = "held"
  /\ TaskStep(t, "lock", "return")
  /\ UNCHANGED <<device, queue, signalled, edges, isr, kbuf, history>>

ReadTest(t) ==
  /\ TaskStep(t, "test", IF keyNum # 0 THEN "copy" ELSE "unlock")
  /\ UNCHANGED <<device, queue, signalled, edges, isr, kbuf, history>>

ReadCopy(t) ==
  /\ TaskStep(t, "copy", "clear")
  /\ kbuf' = [kbuf EXCEPT ![t] = keyNum]
  /\ copied' = [copied EXCEPT ![t] = mail]
  /\ UNCHANGED <<device, queue, signalled, edges, isr, puts, mail, taken, lost>>

ReadClear(t) ==
  /\ TaskStep(t, "clear", "unlock")
  /\ keyNum' = 0
  /\ mail' = 0
  /\ taken' = [taken EXCEPT ![t] = @ \cup {copied[t]}]
  /\ UNCHANGED <<keyMutex, queue, signalled, edges, isr, kbuf, puts, copied, lost>>

ReadUnlock(t) ==
  /\ TaskStep(t, "unlock", "return")
  /\ keyMutex' = "free"
  /\ UNCHANGED <<keyNum, queue, signalled, edges, isr, kbuf, history>>

\* put_user(kbuf, buf); the signal is handled on the way out of the kernel.
ReadReturn(t) ==
  /\ TaskStep(t, "return", "idle")
  /\ signalled' = signalled \ {t}
  /\ UNCHANGED <<device, queue, edges, isr, kbuf, history>>

\* The steps ledkey_read() takes by itself once it has been called.
ledkey_read(t) ==
  \/ WaitCheck(t) \/ PrepareToWait(t) \/ WaitDone(t) \/ Sleep(t) \/ Resume(t)
  \/ ReadLock(t) \/ ReadGiveUp(t) \/ ReadTest(t) \/ ReadCopy(t)
  \/ ReadClear(t) \/ ReadUnlock(t) \/ ReadReturn(t)

-----------------------------------------------------------------------------
(* ledkey_poll(), and the loop of poll(2) that calls it.                   *)

PollCall(t) ==
  /\ TaskStep(t, "idle", "poll_add")
  /\ UNCHANGED <<device, queue, signalled, edges, isr, kbuf, history>>

\* Mutant of PollAdd: poll_wait() is forgotten.
PollAddUnqueued(t) ==
  /\ TaskStep(t, "poll_add", "poll_check")
  /\ UNCHANGED <<device, queue, signalled, edges, isr, kbuf, history>>

PollAdd(t) ==
  /\ TaskStep(t, "poll_add", "poll_check")
  /\ Enqueue(t)
  /\ UNCHANGED <<device, triggered, signalled, edges, isr, kbuf, history>>

\* ledkey_poll() returns POLLIN and poll(2) returns.
PollReady(t) ==
  /\ keyNum > 0
  /\ \E l \in {"poll_check", "poll_last"} : TaskStep(t, l, "idle")
  /\ Dequeue(t)
  /\ triggered' = triggered \ {t}
  /\ UNCHANGED <<device, signalled, edges, isr, kbuf, history>>

PollSleep(t) ==
  /\ keyNum = 0
  /\ TaskStep(t, "poll_check", "poll_sleep")
  /\ UNCHANGED <<device, queue, signalled, edges, isr, kbuf, history>>

PollWoken(t) ==
  /\ t \in triggered
  /\ TaskStep(t, "poll_sleep", "poll_check")
  /\ triggered' = triggered \ {t}
  /\ UNCHANGED <<device, waitQueueRead, signalled, edges, isr, kbuf, history>>

\* The timeout passes; poll(2) calls ledkey_poll() once more.
PollTimeout(t) ==
  /\ TaskStep(t, "poll_sleep", "poll_last")
  /\ triggered' = triggered \ {t}
  /\ UNCHANGED <<device, waitQueueRead, signalled, edges, isr, kbuf, history>>

PollNothing(t) ==
  /\ keyNum = 0
  /\ TaskStep(t, "poll_last", "idle")
  /\ Dequeue(t)
  /\ triggered' = triggered \ {t}
  /\ UNCHANGED <<device, signalled, edges, isr, kbuf, history>>

\* The steps of poll(2) other than the timeout, which nothing need cause.
ledkey_poll(t) ==
  PollAdd(t) \/ PollReady(t) \/ PollSleep(t) \/ PollWoken(t) \/ PollNothing(t)

-----------------------------------------------------------------------------
KeyNext == \E k \in Keys : Press(k) \/ keyIsr(k)

TaskNext ==
  \E t \in Tasks :
    \/ \E mode \in FileModes : ReadCall(t, mode)
    \/ ledkey_read(t)
    \/ PollCall(t)
    \/ ledkey_poll(t)
    \/ PollTimeout(t)

SignalNext == \E t \in Interruptible : Signal(t)

Next == KeyNext \/ TaskNext \/ SignalNext

\* A handler that has an edge runs to its end, and a thread inside a call is
\* scheduled whenever it can run.  Nobody has to press a key or make a call.
Fairness ==
  /\ \A k \in Keys : WF_vars(keyIsr(k))
  /\ \A t \in Tasks : WF_vars(ledkey_read(t)) /\ WF_vars(ledkey_poll(t))

Spec == Init /\ [][Next]_vars

FairSpec == Spec /\ Fairness

-----------------------------------------------------------------------------
(* Properties.                                                             *)

\* The type invariant: every variable has a value the program can give it.
TypeOK ==
  /\ keyNum \in 0..GPIOCNT
  /\ keyMutex \in {"free", "held"}
  /\ waitQueueRead \subseteq Tasks
  /\ triggered \subseteq Tasks
  /\ signalled \subseteq Interruptible
  /\ pending \subseteq Keys
  /\ presses \in 0..MaxPresses
  /\ isr \in [Keys -> IsrLabels]
  /\ pc \in [Tasks -> {"idle"} \cup ReaderLabels \cup PollerLabels]
  /\ kbuf \in [Tasks -> 0..GPIOCNT]
  /\ puts \in Nat
  /\ mail \in Nat
  /\ copied \in [Tasks -> Nat]
  /\ taken \in [Tasks -> SUBSET Nat]
  /\ lost \subseteq Nat

IsrHolds(k)  == isr[k] \in {"store", "unlock"}
TaskHolds(t) == pc[t] \in {"test", "copy", "clear", "unlock"}

\* keyMutex is held exactly while one handler or one reader is between its
\* trylock and its unlock: a trylock in an interrupt handler excludes the
\* handlers of the other lines and the readers.
MutualExclusion ==
  /\ \A k \in Keys : IsrHolds(k) => keyMutex = "held"
  /\ \A t \in Tasks : TaskHolds(t) => keyMutex = "held"
  /\ \A k \in Keys, t \in Tasks : ~(IsrHolds(k) /\ TaskHolds(t))
  /\ \A k, m \in Keys : IsrHolds(k) /\ IsrHolds(m) => k = m
  /\ \A t, u \in Tasks : TaskHolds(t) /\ TaskHolds(u) => t = u
  /\ keyMutex = "held" =>
       (\E k \in Keys : IsrHolds(k)) \/ (\E t \in Tasks : TaskHolds(t))

\* A handler that has stored a key and has not called wake_up_interruptible().
WakePromised == \E k \in Keys : isr[k] \in {"unlock", "wake"}

\* No wake-up is lost: when a reader or a poller sleeps in the queue although
\* a key is there, a handler still has its wake-up before it.  keyNum is
\* tested without the mutex, so this rests on queueing before testing.
NoLostWakeup ==
  keyNum # 0 =>
    /\ \A t \in waitQueueRead : pc[t] = "asleep" => WakePromised
    /\ \A t \in Tasks \ triggered : pc[t] = "poll_sleep" => WakePromised

TakenKeys == UNION {taken[t] : t \in Tasks}

\* Every key a handler stored is, at any time, in exactly one place: still in
\* keyNum, replaced by a newer key before a read, or returned by one read of
\* one thread.  No read duplicates a key and no clearing of keyNum wipes out
\* a key that was stored after the copy was made.
ExactlyOnce ==
  /\ 1..puts = TakenKeys \cup lost \cup (IF keyNum = 0 THEN {} ELSE {mail})
  /\ TakenKeys \cap lost = {}
  /\ keyNum # 0 => mail \notin TakenKeys \cup lost
  /\ \A t, u \in Tasks : t # u => taken[t] \cap taken[u] = {}

\* A read that returns a key returns the one pressed last: from copying keyNum
\* to clearing it no handler gets a newer key in.
DeliversNewest ==
  [][\A t \in Tasks : taken'[t] # taken[t] => taken'[t] = taken[t] \cup {puts}]_vars

\* What the bookkeeping of ExactlyOnce rests on: the key in keyNum is the last
\* one stored, and a reader that has found it finds it until it clears it.
Ledger ==
  /\ keyNum = 0 => mail = 0
  /\ keyNum # 0 => mail = puts /\ puts # 0
  /\ \A t \in Tasks : pc[t] \in {"copy", "clear"} => keyNum # 0
  /\ \A t \in Tasks : pc[t] = "clear" => copied[t] = mail

\* poll_wait() leaves a poller in the queue until its poll(2) returns.
PollersQueued ==
  \A t \in Tasks :
    pc[t] \in {"poll_check", "poll_sleep", "poll_last"} => t \in waitQueueRead

Mailbox == INSTANCE KeyMailbox
             WITH Tasks <- Tasks, puts <- puts, mail <- mail, taken <- taken, lost <- lost

\* The key path implements the one-key mailbox of KeyMailbox: storing keyNum
\* is its Put, clearing it its Take, every other step a stutter.
MailboxSpec == Mailbox!MailSpec

\* A reader asleep while a key is there returns, unless somebody else empties
\* keyNum first.
ReaderServed ==
  \A t \in Tasks :
    (pc[t] = "asleep" /\ keyNum # 0) ~> (pc[t] = "idle" \/ keyNum = 0)

\* The same for a poll(2) that sleeps, whether its timeout ever passes or not.
PollerServed ==
  \A t \in Tasks :
    (pc[t] = "poll_sleep" /\ keyNum # 0) ~> (pc[t] = "idle" \/ keyNum = 0)

\* A signal ends a blocking read even if no key is ever pressed again.
SignalEndsRead ==
  \A t \in Interruptible : t \in signalled ~> pc[t] = "idle"
=============================================================================
