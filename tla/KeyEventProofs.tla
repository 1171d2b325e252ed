--------------------------- MODULE KeyEventProofs ---------------------------
EXTENDS KeyEvent, TLAPS

\* Every step keeps the type invariant.
LEMMA TypeStep ==
  ASSUME TypeOK, [Next]_vars
  PROVE  TypeOK'
<1>1. ASSUME NEW k \in Keys, Press(k) PROVE TypeOK'
  BY <1>1, BoundAssumption DEF Press, TypeOK, Keys, IsrLabels, ReaderLabels,
    PollerLabels, Pollers, device, queue, edges, history
<1>2. ASSUME NEW k \in Keys, IsrEnter(k) PROVE TypeOK'
  BY <1>2 DEF IsrEnter, IsrStep, TypeOK, Keys, IsrLabels, ReaderLabels,
    PollerLabels, Pollers, device, queue, edges, history
<1>3. ASSUME NEW k \in Keys, IsrLock(k) PROVE TypeOK'
  BY <1>3 DEF IsrLock, IsrStep, TypeOK, Keys, IsrLabels, ReaderLabels,
    PollerLabels, Pollers, device, queue, edges, history
<1>4. ASSUME NEW k \in Keys, IsrDrop(k) PROVE TypeOK'
  BY <1>4 DEF IsrDrop, IsrStep, TypeOK, Keys, IsrLabels, ReaderLabels,
    PollerLabels, Pollers, device, queue, edges, history
<1>5. ASSUME NEW k \in Keys, IsrStore(k) PROVE TypeOK'
  BY <1>5 DEF IsrStore, IsrStep, TypeOK, Keys, IsrLabels, ReaderLabels,
    PollerLabels, Pollers, device, queue, edges, history
<1>6. ASSUME NEW k \in Keys, IsrUnlock(k) PROVE TypeOK'
  BY <1>6 DEF IsrUnlock, IsrStep, TypeOK, Keys, IsrLabels, ReaderLabels,
    PollerLabels, Pollers, device, queue, edges, history
<1>7. ASSUME NEW k \in Keys, IsrWake(k) PROVE TypeOK'
  BY <1>7 DEF IsrWake, IsrStep, TypeOK, Keys, IsrLabels, ReaderLabels,
    PollerLabels, Pollers, device, queue, edges, history
<1>8. ASSUME NEW t \in Tasks, NEW mode \in FileModes, ReadCall(t, mode)
      PROVE TypeOK'
  BY <1>8, GpioAssumption DEF ReadCall, TaskStep, TypeOK, Keys, IsrLabels,
    ReaderLabels, PollerLabels, Pollers, device, queue, edges, history
<1>9. ASSUME NEW t \in Tasks, WaitCheck(t) PROVE TypeOK'
  BY <1>9 DEF WaitCheck, TaskStep, TypeOK, Keys, IsrLabels, ReaderLabels,
    PollerLabels, Pollers, device, queue, edges, history
<1>10. ASSUME NEW t \in Tasks, PrepareToWait(t) PROVE TypeOK'
  BY <1>10 DEF PrepareToWait, TaskStep, Enqueue, TypeOK, Keys, IsrLabels,
    ReaderLabels, PollerLabels, Pollers, device, queue, edges, history
<1>11. ASSUME NEW t \in Tasks, WaitDone(t) PROVE TypeOK'
  BY <1>11 DEF WaitDone, TaskStep, Dequeue, TypeOK, Keys, IsrLabels,
    ReaderLabels, PollerLabels, Pollers, device, queue, edges, history
<1>12. ASSUME NEW t \in Tasks, Sleep(t) PROVE TypeOK'
  BY <1>12 DEF Sleep, TaskStep, TypeOK, Keys, IsrLabels, ReaderLabels,
    PollerLabels, Pollers, device, queue, edges, history
<1>13. ASSUME NEW t \in Tasks, Resume(t) PROVE TypeOK'
  BY <1>13 DEF Resume, TaskStep, TypeOK, Keys, IsrLabels, ReaderLabels,
    PollerLabels, Pollers, device, queue, edges, history
<1>14. ASSUME NEW t \in Tasks, ReadLock(t) PROVE TypeOK'
  BY <1>14 DEF ReadLock, TaskStep, TypeOK, Keys, IsrLabels, ReaderLabels,
    PollerLabels, Pollers, device, queue, edges, history
<1>15. ASSUME NEW t \in Tasks, ReadGiveUp(t) PROVE TypeOK'
  BY <1>15 DEF ReadGiveUp, TaskStep, TypeOK, Keys, IsrLabels, ReaderLabels,
    PollerLabels, Pollers, device, queue, edges, history
<1>16. ASSUME NEW t \in Tasks, ReadTest(t) PROVE TypeOK'
  BY <1>16 DEF ReadTest, TaskStep, TypeOK, Keys, IsrLabels, ReaderLabels,
    PollerLabels, Pollers, device, queue, edges, history
<1>17. ASSUME NEW t \in Tasks, ReadCopy(t) PROVE TypeOK'
  BY <1>17 DEF ReadCopy, TaskStep, TypeOK, Keys, IsrLabels, ReaderLabels,
    PollerLabels, Pollers, device, queue, edges, history
<1>18. ASSUME NEW t \in Tasks, ReadClear(t) PROVE TypeOK'
  <2>1. taken[t] \subseteq Nat /\ copied[t] \in Nat
    BY DEF TypeOK
  <2>2. taken[t] \cup {copied[t]} \in SUBSET Nat
    BY <2>1
  <2>3. taken' \in [Tasks -> SUBSET Nat]
    BY <1>18, <2>2 DEF ReadClear, TypeOK
  <2>4. /\ keyNum' = 0 /\ mail' = 0
        /\ pc' = [pc EXCEPT ![t] = "unlock"]
        /\ UNCHANGED <<keyMutex, queue, signalled, edges, isr, kbuf, puts,
                        copied, lost>>
    BY <1>18 DEF ReadClear, TaskStep
  <2>5. QED
    BY <2>3, <2>4, GpioAssumption DEF TypeOK, Keys, IsrLabels, ReaderLabels,
      PollerLabels, Pollers, device, queue, edges, history
<1>19. ASSUME NEW t \in Tasks, ReadUnlock(t) PROVE TypeOK'
  BY <1>19 DEF ReadUnlock, TaskStep, TypeOK, Keys, IsrLabels, ReaderLabels,
    PollerLabels, Pollers, device, queue, edges, history
<1>20. ASSUME NEW t \in Tasks, ReadReturn(t) PROVE TypeOK'
  BY <1>20 DEF ReadReturn, TaskStep, TypeOK, Keys, IsrLabels, ReaderLabels,
    PollerLabels, Pollers, device, queue, edges, history
<1>21. ASSUME NEW t \in Tasks, PollCall(t) PROVE TypeOK'
  BY <1>21 DEF PollCall, TaskStep, TypeOK, Keys, IsrLabels, ReaderLabels,
    PollerLabels, Pollers, device, queue, edges, history
<1>22. ASSUME NEW t \in Tasks, PollAdd(t) PROVE TypeOK'
  BY <1>22 DEF PollAdd, TaskStep, Enqueue, TypeOK, Keys, IsrLabels,
    ReaderLabels, PollerLabels, Pollers, device, queue, edges, history
<1>23. ASSUME NEW t \in Tasks, PollReady(t) PROVE TypeOK'
  BY <1>23 DEF PollReady, TaskStep, Dequeue, TypeOK, Keys, IsrLabels,
    ReaderLabels, PollerLabels, Pollers, device, queue, edges, history
<1>24. ASSUME NEW t \in Tasks, PollSleep(t) PROVE TypeOK'
  BY <1>24 DEF PollSleep, TaskStep, TypeOK, Keys, IsrLabels, ReaderLabels,
    PollerLabels, Pollers, device, queue, edges, history
<1>25. ASSUME NEW t \in Tasks, PollWoken(t) PROVE TypeOK'
  BY <1>25 DEF PollWoken, TaskStep, TypeOK, Keys, IsrLabels, ReaderLabels,
    PollerLabels, Pollers, device, queue, edges, history
<1>26. ASSUME NEW t \in Tasks, PollNothing(t) PROVE TypeOK'
  BY <1>26 DEF PollNothing, TaskStep, Dequeue, TypeOK, Keys, IsrLabels,
    ReaderLabels, PollerLabels, Pollers, device, queue, edges, history
<1>27. ASSUME NEW t \in Tasks, PollTimeout(t) PROVE TypeOK'
  BY <1>27 DEF PollTimeout, TaskStep, TypeOK, Keys, IsrLabels, ReaderLabels,
    PollerLabels, Pollers, device, queue, edges, history
<1>28. ASSUME NEW t \in Interruptible, Signal(t) PROVE TypeOK'
  BY <1>28 DEF Signal, TypeOK, Keys, IsrLabels, ReaderLabels, PollerLabels,
    Pollers, device, queue, edges, history
<1>29. CASE UNCHANGED vars
  BY <1>29 DEF TypeOK, Keys, IsrLabels, ReaderLabels, PollerLabels, Pollers,
    device, queue, edges, history, vars
<1>30. QED
  BY <1>1, <1>2, <1>3, <1>4, <1>5, <1>6, <1>7, <1>8, <1>9, <1>10, <1>11, <1>12,
    <1>13, <1>14, <1>15, <1>16, <1>17, <1>18, <1>19, <1>20, <1>21, <1>22,
    <1>23, <1>24, <1>25, <1>26, <1>27, <1>28, <1>29
  DEF Next, KeyNext, TaskNext, SignalNext, keyIsr, ledkey_read, ledkey_poll

\* Every step keeps mutual exclusion.
LEMMA MutexStep ==
  ASSUME TypeOK, MutualExclusion, [Next]_vars
  PROVE  MutualExclusion'
<1>1. ASSUME NEW k \in Keys, Press(k) PROVE MutualExclusion'
  BY <1>1 DEF Press, MutualExclusion, IsrHolds, TaskHolds, TypeOK, device,
    queue, edges, history
<1>2. ASSUME NEW k \in Keys, IsrEnter(k) PROVE MutualExclusion'
  BY <1>2 DEF IsrEnter, IsrStep, MutualExclusion, IsrHolds, TaskHolds, TypeOK,
    device, queue, edges, history
<1>3. ASSUME NEW k \in Keys, IsrLock(k) PROVE MutualExclusion'
  BY <1>3 DEF IsrLock, IsrStep, MutualExclusion, IsrHolds, TaskHolds, TypeOK,
    device, queue, edges, history
<1>4. ASSUME NEW k \in Keys, IsrDrop(k) PROVE MutualExclusion'
  BY <1>4 DEF IsrDrop, IsrStep, MutualExclusion, IsrHolds, TaskHolds, TypeOK,
    device, queue, edges, history
<1>5. ASSUME NEW k \in Keys, IsrStore(k) PROVE MutualExclusion'
  BY <1>5 DEF IsrStore, IsrStep, MutualExclusion, IsrHolds, TaskHolds, TypeOK,
    device, queue, edges, history
<1>6. ASSUME NEW k \in Keys, IsrUnlock(k) PROVE MutualExclusion'
  BY <1>6 DEF IsrUnlock, IsrStep, MutualExclusion, IsrHolds, TaskHolds, TypeOK,
    device, queue, edges, history
<1>7. ASSUME NEW k \in Keys, IsrWake(k) PROVE MutualExclusion'
  BY <1>7 DEF IsrWake, IsrStep, MutualExclusion, IsrHolds, TaskHolds, TypeOK,
    device, queue, edges, history
<1>8. ASSUME NEW t \in Tasks, NEW mode \in FileModes, ReadCall(t, mode)
      PROVE MutualExclusion'
  BY <1>8 DEF ReadCall, TaskStep, MutualExclusion, IsrHolds, TaskHolds, TypeOK,
    device, queue, edges, history
<1>9. ASSUME NEW t \in Tasks, WaitCheck(t) PROVE MutualExclusion'
  BY <1>9 DEF WaitCheck, TaskStep, MutualExclusion, IsrHolds, TaskHolds,
    TypeOK, device, queue, edges, history
<1>10. ASSUME NEW t \in Tasks, PrepareToWait(t) PROVE MutualExclusion'
  BY <1>10 DEF PrepareToWait, TaskStep, Enqueue, MutualExclusion, IsrHolds,
    TaskHolds, TypeOK, device, queue, edges, history
<1>11. ASSUME NEW t \in Tasks, WaitDone(t) PROVE MutualExclusion'
  BY <1>11 DEF WaitDone, TaskStep, Dequeue, MutualExclusion, IsrHolds,
    TaskHolds, TypeOK, device, queue, edges, history
<1>12. ASSUME NEW t \in Tasks, Sleep(t) PROVE MutualExclusion'
  BY <1>12 DEF Sleep, TaskStep, MutualExclusion, IsrHolds, TaskHolds, TypeOK,
    device, queue, edges, history
<1>13. ASSUME NEW t \in Tasks, Resume(t) PROVE MutualExclusion'
  BY <1>13 DEF Resume, TaskStep, MutualExclusion, IsrHolds, TaskHolds, TypeOK,
    device, queue, edges, history
<1>14. ASSUME NEW t \in Tasks, ReadLock(t) PROVE MutualExclusion'
  BY <1>14 DEF ReadLock, TaskStep, MutualExclusion, IsrHolds, TaskHolds,
    TypeOK, device, queue, edges, history
<1>15. ASSUME NEW t \in Tasks, ReadGiveUp(t) PROVE MutualExclusion'
  BY <1>15 DEF ReadGiveUp, TaskStep, MutualExclusion, IsrHolds, TaskHolds,
    TypeOK, device, queue, edges, history
<1>16. ASSUME NEW t \in Tasks, ReadTest(t) PROVE MutualExclusion'
  BY <1>16 DEF ReadTest, TaskStep, MutualExclusion, IsrHolds, TaskHolds,
    TypeOK, device, queue, edges, history
<1>17. ASSUME NEW t \in Tasks, ReadCopy(t) PROVE MutualExclusion'
  BY <1>17 DEF ReadCopy, TaskStep, MutualExclusion, IsrHolds, TaskHolds,
    TypeOK, device, queue, edges, history
<1>18. ASSUME NEW t \in Tasks, ReadClear(t) PROVE MutualExclusion'
  BY <1>18 DEF ReadClear, TaskStep, MutualExclusion, IsrHolds, TaskHolds,
    TypeOK, device, queue, edges, history
<1>19. ASSUME NEW t \in Tasks, ReadUnlock(t) PROVE MutualExclusion'
  BY <1>19 DEF ReadUnlock, TaskStep, MutualExclusion, IsrHolds, TaskHolds,
    TypeOK, device, queue, edges, history
<1>20. ASSUME NEW t \in Tasks, ReadReturn(t) PROVE MutualExclusion'
  BY <1>20 DEF ReadReturn, TaskStep, MutualExclusion, IsrHolds, TaskHolds,
    TypeOK, device, queue, edges, history
<1>21. ASSUME NEW t \in Tasks, PollCall(t) PROVE MutualExclusion'
  BY <1>21 DEF PollCall, TaskStep, MutualExclusion, IsrHolds, TaskHolds,
    TypeOK, device, queue, edges, history
<1>22. ASSUME NEW t \in Tasks, PollAdd(t) PROVE MutualExclusion'
  BY <1>22 DEF PollAdd, TaskStep, Enqueue, MutualExclusion, IsrHolds,
    TaskHolds, TypeOK, device, queue, edges, history
<1>23. ASSUME NEW t \in Tasks, PollReady(t) PROVE MutualExclusion'
  BY <1>23 DEF PollReady, TaskStep, Dequeue, MutualExclusion, IsrHolds,
    TaskHolds, TypeOK, device, queue, edges, history
<1>24. ASSUME NEW t \in Tasks, PollSleep(t) PROVE MutualExclusion'
  BY <1>24 DEF PollSleep, TaskStep, MutualExclusion, IsrHolds, TaskHolds,
    TypeOK, device, queue, edges, history
<1>25. ASSUME NEW t \in Tasks, PollWoken(t) PROVE MutualExclusion'
  BY <1>25 DEF PollWoken, TaskStep, MutualExclusion, IsrHolds, TaskHolds,
    TypeOK, device, queue, edges, history
<1>26. ASSUME NEW t \in Tasks, PollNothing(t) PROVE MutualExclusion'
  BY <1>26 DEF PollNothing, TaskStep, Dequeue, MutualExclusion, IsrHolds,
    TaskHolds, TypeOK, device, queue, edges, history
<1>27. ASSUME NEW t \in Tasks, PollTimeout(t) PROVE MutualExclusion'
  BY <1>27 DEF PollTimeout, TaskStep, MutualExclusion, IsrHolds, TaskHolds,
    TypeOK, device, queue, edges, history
<1>28. ASSUME NEW t \in Interruptible, Signal(t) PROVE MutualExclusion'
  BY <1>28 DEF Signal, MutualExclusion, IsrHolds, TaskHolds, TypeOK, device,
    queue, edges, history
<1>29. CASE UNCHANGED vars
  BY <1>29 DEF MutualExclusion, IsrHolds, TaskHolds, TypeOK, device, queue,
    edges, history, vars
<1>30. QED
  BY <1>1, <1>2, <1>3, <1>4, <1>5, <1>6, <1>7, <1>8, <1>9, <1>10, <1>11, <1>12,
    <1>13, <1>14, <1>15, <1>16, <1>17, <1>18, <1>19, <1>20, <1>21, <1>22,
    <1>23, <1>24, <1>25, <1>26, <1>27, <1>28, <1>29
  DEF Next, KeyNext, TaskNext, SignalNext, keyIsr, ledkey_read, ledkey_poll

\* Every step keeps the promise of a wake-up.
LEMMA WakeStep ==
  ASSUME TypeOK, PollersQueued, NoLostWakeup, [Next]_vars
  PROVE  NoLostWakeup' /\ PollersQueued'
<1>1. ASSUME NEW k \in Keys, Press(k) PROVE NoLostWakeup' /\ PollersQueued'
  BY <1>1 DEF Press, NoLostWakeup, WakePromised, PollersQueued, TypeOK,
    Pollers, PollerLabels, device, queue, edges, history
<1>2. ASSUME NEW k \in Keys, IsrEnter(k) PROVE NoLostWakeup' /\ PollersQueued'
  BY <1>2 DEF IsrEnter, IsrStep, NoLostWakeup, WakePromised, PollersQueued,
    TypeOK, Pollers, PollerLabels, device, queue, edges, history
<1>3. ASSUME NEW k \in Keys, IsrLock(k) PROVE NoLostWakeup' /\ PollersQueued'
  BY <1>3 DEF IsrLock, IsrStep, NoLostWakeup, WakePromised, PollersQueued,
    TypeOK, Pollers, PollerLabels, device, queue, edges, history
<1>4. ASSUME NEW k \in Keys, IsrDrop(k) PROVE NoLostWakeup' /\ PollersQueued'
  BY <1>4 DEF IsrDrop, IsrStep, NoLostWakeup, WakePromised, PollersQueued,
    TypeOK, Pollers, PollerLabels, device, queue, edges, history
<1>5. ASSUME NEW k \in Keys, IsrStore(k) PROVE NoLostWakeup' /\ PollersQueued'
  BY <1>5 DEF IsrStore, IsrStep, NoLostWakeup, WakePromised, PollersQueued,
    TypeOK, Pollers, PollerLabels, device, queue, edges, history
<1>6. ASSUME NEW k \in Keys, IsrUnlock(k) PROVE NoLostWakeup' /\ PollersQueued'
  BY <1>6 DEF IsrUnlock, IsrStep, NoLostWakeup, WakePromised, PollersQueued,
    TypeOK, Pollers, PollerLabels, device, queue, edges, history
<1>7. ASSUME NEW k \in Keys, IsrWake(k) PROVE NoLostWakeup' /\ PollersQueued'
  BY <1>7 DEF IsrWake, IsrStep, NoLostWakeup, WakePromised, PollersQueued,
    TypeOK, Pollers, PollerLabels, device, queue, edges, history
<1>8. ASSUME NEW t \in Tasks, NEW mode \in FileModes, ReadCall(t, mode)
      PROVE NoLostWakeup' /\ PollersQueued'
  BY <1>8 DEF ReadCall, TaskStep, NoLostWakeup, WakePromised, PollersQueued,
    TypeOK, Pollers, PollerLabels, device, queue, edges, history
<1>9. ASSUME NEW t \in Tasks, WaitCheck(t)
      PROVE NoLostWakeup' /\ PollersQueued'
  BY <1>9 DEF WaitCheck, TaskStep, NoLostWakeup, WakePromised, PollersQueued,
    TypeOK, Pollers, PollerLabels, device, queue, edges, history
<1>10. ASSUME NEW t \in Tasks, PrepareToWait(t)
       PROVE NoLostWakeup' /\ PollersQueued'
  BY <1>10 DEF PrepareToWait, TaskStep, Enqueue, NoLostWakeup, WakePromised,
    PollersQueued, TypeOK, Pollers, PollerLabels, device, queue, edges, history
<1>11. ASSUME NEW t \in Tasks, WaitDone(t)
       PROVE NoLostWakeup' /\ PollersQueued'
  BY <1>11 DEF WaitDone, TaskStep, Dequeue, NoLostWakeup, WakePromised,
    PollersQueued, TypeOK, Pollers, PollerLabels, device, queue, edges, history
<1>12. ASSUME NEW t \in Tasks, Sleep(t) PROVE NoLostWakeup' /\ PollersQueued'
  BY <1>12 DEF Sleep, TaskStep, NoLostWakeup, WakePromised, PollersQueued,
    TypeOK, Pollers, PollerLabels, device, queue, edges, history
<1>13. ASSUME NEW t \in Tasks, Resume(t) PROVE NoLostWakeup' /\ PollersQueued'
  BY <1>13 DEF Resume, TaskStep, NoLostWakeup, WakePromised, PollersQueued,
    TypeOK, Pollers, PollerLabels, device, queue, edges, history
<1>14. ASSUME NEW t \in Tasks, ReadLock(t)
       PROVE NoLostWakeup' /\ PollersQueued'
  BY <1>14 DEF ReadLock, TaskStep, NoLostWakeup, WakePromised, PollersQueued,
    TypeOK, Pollers, PollerLabels, device, queue, edges, history
<1>15. ASSUME NEW t \in Tasks, ReadGiveUp(t)
       PROVE NoLostWakeup' /\ PollersQueued'
  BY <1>15 DEF ReadGiveUp, TaskStep, NoLostWakeup, WakePromised, PollersQueued,
    TypeOK, Pollers, PollerLabels, device, queue, edges, history
<1>16. ASSUME NEW t \in Tasks, ReadTest(t)
       PROVE NoLostWakeup' /\ PollersQueued'
  BY <1>16 DEF ReadTest, TaskStep, NoLostWakeup, WakePromised, PollersQueued,
    TypeOK, Pollers, PollerLabels, device, queue, edges, history
<1>17. ASSUME NEW t \in Tasks, ReadCopy(t)
       PROVE NoLostWakeup' /\ PollersQueued'
  BY <1>17 DEF ReadCopy, TaskStep, NoLostWakeup, WakePromised, PollersQueued,
    TypeOK, Pollers, PollerLabels, device, queue, edges, history
<1>18. ASSUME NEW t \in Tasks, ReadClear(t)
       PROVE NoLostWakeup' /\ PollersQueued'
  BY <1>18 DEF ReadClear, TaskStep, NoLostWakeup, WakePromised, PollersQueued,
    TypeOK, Pollers, PollerLabels, device, queue, edges, history
<1>19. ASSUME NEW t \in Tasks, ReadUnlock(t)
       PROVE NoLostWakeup' /\ PollersQueued'
  BY <1>19 DEF ReadUnlock, TaskStep, NoLostWakeup, WakePromised, PollersQueued,
    TypeOK, Pollers, PollerLabels, device, queue, edges, history
<1>20. ASSUME NEW t \in Tasks, ReadReturn(t)
       PROVE NoLostWakeup' /\ PollersQueued'
  BY <1>20 DEF ReadReturn, TaskStep, NoLostWakeup, WakePromised, PollersQueued,
    TypeOK, Pollers, PollerLabels, device, queue, edges, history
<1>21. ASSUME NEW t \in Tasks, PollCall(t)
       PROVE NoLostWakeup' /\ PollersQueued'
  BY <1>21 DEF PollCall, TaskStep, NoLostWakeup, WakePromised, PollersQueued,
    TypeOK, Pollers, PollerLabels, device, queue, edges, history
<1>22. ASSUME NEW t \in Tasks, PollAdd(t) PROVE NoLostWakeup' /\ PollersQueued'
  BY <1>22 DEF PollAdd, TaskStep, Enqueue, NoLostWakeup, WakePromised,
    PollersQueued, TypeOK, Pollers, PollerLabels, device, queue, edges, history
<1>23. ASSUME NEW t \in Tasks, PollReady(t)
       PROVE NoLostWakeup' /\ PollersQueued'
  BY <1>23 DEF PollReady, TaskStep, Dequeue, NoLostWakeup, WakePromised,
    PollersQueued, TypeOK, Pollers, PollerLabels, device, queue, edges, history
<1>24. ASSUME NEW t \in Tasks, PollSleep(t)
       PROVE NoLostWakeup' /\ PollersQueued'
  BY <1>24 DEF PollSleep, TaskStep, NoLostWakeup, WakePromised, PollersQueued,
    TypeOK, Pollers, PollerLabels, device, queue, edges, history
<1>25. ASSUME NEW t \in Tasks, PollWoken(t)
       PROVE NoLostWakeup' /\ PollersQueued'
  BY <1>25 DEF PollWoken, TaskStep, NoLostWakeup, WakePromised, PollersQueued,
    TypeOK, Pollers, PollerLabels, device, queue, edges, history
<1>26. ASSUME NEW t \in Tasks, PollNothing(t)
       PROVE NoLostWakeup' /\ PollersQueued'
  BY <1>26 DEF PollNothing, TaskStep, Dequeue, NoLostWakeup, WakePromised,
    PollersQueued, TypeOK, Pollers, PollerLabels, device, queue, edges, history
<1>27. ASSUME NEW t \in Tasks, PollTimeout(t)
       PROVE NoLostWakeup' /\ PollersQueued'
  BY <1>27 DEF PollTimeout, TaskStep, NoLostWakeup, WakePromised,
    PollersQueued, TypeOK, Pollers, PollerLabels, device, queue, edges, history
<1>28. ASSUME NEW t \in Interruptible, Signal(t)
       PROVE NoLostWakeup' /\ PollersQueued'
  BY <1>28 DEF Signal, NoLostWakeup, WakePromised, PollersQueued, TypeOK,
    Pollers, PollerLabels, device, queue, edges, history
<1>29. CASE UNCHANGED vars
  BY <1>29 DEF NoLostWakeup, WakePromised, PollersQueued, TypeOK, Pollers,
    PollerLabels, device, queue, edges, history, vars
<1>30. QED
  BY <1>1, <1>2, <1>3, <1>4, <1>5, <1>6, <1>7, <1>8, <1>9, <1>10, <1>11, <1>12,
    <1>13, <1>14, <1>15, <1>16, <1>17, <1>18, <1>19, <1>20, <1>21, <1>22,
    <1>23, <1>24, <1>25, <1>26, <1>27, <1>28, <1>29
  DEF Next, KeyNext, TaskNext, SignalNext, keyIsr, ledkey_read, ledkey_poll

\* Every step keeps the ledger.
LEMMA LedgerStep ==
  ASSUME TypeOK, MutualExclusion, Ledger, [Next]_vars
  PROVE  Ledger'
<1>1. ASSUME NEW k \in Keys, Press(k) PROVE Ledger'
  BY <1>1 DEF Press, Ledger, MutualExclusion, IsrHolds, TaskHolds, TypeOK,
    Keys, device, queue, edges, history
<1>2. ASSUME NEW k \in Keys, IsrEnter(k) PROVE Ledger'
  BY <1>2 DEF IsrEnter, IsrStep, Ledger, MutualExclusion, IsrHolds, TaskHolds,
    TypeOK, Keys, device, queue, edges, history
<1>3. ASSUME NEW k \in Keys, IsrLock(k) PROVE Ledger'
  BY <1>3 DEF IsrLock, IsrStep, Ledger, MutualExclusion, IsrHolds, TaskHolds,
    TypeOK, Keys, device, queue, edges, history
<1>4. ASSUME NEW k \in Keys, IsrDrop(k) PROVE Ledger'
  BY <1>4 DEF IsrDrop, IsrStep, Ledger, MutualExclusion, IsrHolds, TaskHolds,
    TypeOK, Keys, device, queue, edges, history
<1>5. ASSUME NEW k \in Keys, IsrStore(k) PROVE Ledger'
  BY <1>5 DEF IsrStore, IsrStep, Ledger, MutualExclusion, IsrHolds, TaskHolds,
    TypeOK, Keys, device, queue, edges, history
<1>6. ASSUME NEW k \in Keys, IsrUnlock(k) PROVE Ledger'
  BY <1>6 DEF IsrUnlock, IsrStep, Ledger, MutualExclusion, IsrHolds, TaskHolds,
    TypeOK, Keys, device, queue, edges, history
<1>7. ASSUME NEW k \in Keys, IsrWake(k) PROVE Ledger'
  BY <1>7 DEF IsrWake, IsrStep, Ledger, MutualExclusion, IsrHolds, TaskHolds,
    TypeOK, Keys, device, queue, edges, history
<1>8. ASSUME NEW t \in Tasks, NEW mode \in FileModes, ReadCall(t, mode)
      PROVE Ledger'
  BY <1>8 DEF ReadCall, TaskStep, Ledger, MutualExclusion, IsrHolds, TaskHolds,
    TypeOK, Keys, device, queue, edges, history
<1>9. ASSUME NEW t \in Tasks, WaitCheck(t) PROVE Ledger'
  BY <1>9 DEF WaitCheck, TaskStep, Ledger, MutualExclusion, IsrHolds,
    TaskHolds, TypeOK, Keys, device, queue, edges, history
<1>10. ASSUME NEW t \in Tasks, PrepareToWait(t) PROVE Ledger'
  BY <1>10 DEF PrepareToWait, TaskStep, Enqueue, Ledger, MutualExclusion,
    IsrHolds, TaskHolds, TypeOK, Keys, device, queue, edges, history
<1>11. ASSUME NEW t \in Tasks, WaitDone(t) PROVE Ledger'
  BY <1>11 DEF WaitDone, TaskStep, Dequeue, Ledger, MutualExclusion, IsrHolds,
    TaskHolds, TypeOK, Keys, device, queue, edges, history
<1>12. ASSUME NEW t \in Tasks, Sleep(t) PROVE Ledger'
  BY <1>12 DEF Sleep, TaskStep, Ledger, MutualExclusion, IsrHolds, TaskHolds,
    TypeOK, Keys, device, queue, edges, history
<1>13. ASSUME NEW t \in Tasks, Resume(t) PROVE Ledger'
  BY <1>13 DEF Resume, TaskStep, Ledger, MutualExclusion, IsrHolds, TaskHolds,
    TypeOK, Keys, device, queue, edges, history
<1>14. ASSUME NEW t \in Tasks, ReadLock(t) PROVE Ledger'
  BY <1>14 DEF ReadLock, TaskStep, Ledger, MutualExclusion, IsrHolds,
    TaskHolds, TypeOK, Keys, device, queue, edges, history
<1>15. ASSUME NEW t \in Tasks, ReadGiveUp(t) PROVE Ledger'
  BY <1>15 DEF ReadGiveUp, TaskStep, Ledger, MutualExclusion, IsrHolds,
    TaskHolds, TypeOK, Keys, device, queue, edges, history
<1>16. ASSUME NEW t \in Tasks, ReadTest(t) PROVE Ledger'
  BY <1>16 DEF ReadTest, TaskStep, Ledger, MutualExclusion, IsrHolds,
    TaskHolds, TypeOK, Keys, device, queue, edges, history
<1>17. ASSUME NEW t \in Tasks, ReadCopy(t) PROVE Ledger'
  BY <1>17 DEF ReadCopy, TaskStep, Ledger, MutualExclusion, IsrHolds,
    TaskHolds, TypeOK, Keys, device, queue, edges, history
<1>18. ASSUME NEW t \in Tasks, ReadClear(t) PROVE Ledger'
  BY <1>18 DEF ReadClear, TaskStep, Ledger, MutualExclusion, IsrHolds,
    TaskHolds, TypeOK, Keys, device, queue, edges, history
<1>19. ASSUME NEW t \in Tasks, ReadUnlock(t) PROVE Ledger'
  BY <1>19 DEF ReadUnlock, TaskStep, Ledger, MutualExclusion, IsrHolds,
    TaskHolds, TypeOK, Keys, device, queue, edges, history
<1>20. ASSUME NEW t \in Tasks, ReadReturn(t) PROVE Ledger'
  BY <1>20 DEF ReadReturn, TaskStep, Ledger, MutualExclusion, IsrHolds,
    TaskHolds, TypeOK, Keys, device, queue, edges, history
<1>21. ASSUME NEW t \in Tasks, PollCall(t) PROVE Ledger'
  BY <1>21 DEF PollCall, TaskStep, Ledger, MutualExclusion, IsrHolds,
    TaskHolds, TypeOK, Keys, device, queue, edges, history
<1>22. ASSUME NEW t \in Tasks, PollAdd(t) PROVE Ledger'
  BY <1>22 DEF PollAdd, TaskStep, Enqueue, Ledger, MutualExclusion, IsrHolds,
    TaskHolds, TypeOK, Keys, device, queue, edges, history
<1>23. ASSUME NEW t \in Tasks, PollReady(t) PROVE Ledger'
  BY <1>23 DEF PollReady, TaskStep, Dequeue, Ledger, MutualExclusion, IsrHolds,
    TaskHolds, TypeOK, Keys, device, queue, edges, history
<1>24. ASSUME NEW t \in Tasks, PollSleep(t) PROVE Ledger'
  BY <1>24 DEF PollSleep, TaskStep, Ledger, MutualExclusion, IsrHolds,
    TaskHolds, TypeOK, Keys, device, queue, edges, history
<1>25. ASSUME NEW t \in Tasks, PollWoken(t) PROVE Ledger'
  BY <1>25 DEF PollWoken, TaskStep, Ledger, MutualExclusion, IsrHolds,
    TaskHolds, TypeOK, Keys, device, queue, edges, history
<1>26. ASSUME NEW t \in Tasks, PollNothing(t) PROVE Ledger'
  BY <1>26 DEF PollNothing, TaskStep, Dequeue, Ledger, MutualExclusion,
    IsrHolds, TaskHolds, TypeOK, Keys, device, queue, edges, history
<1>27. ASSUME NEW t \in Tasks, PollTimeout(t) PROVE Ledger'
  BY <1>27 DEF PollTimeout, TaskStep, Ledger, MutualExclusion, IsrHolds,
    TaskHolds, TypeOK, Keys, device, queue, edges, history
<1>28. ASSUME NEW t \in Interruptible, Signal(t) PROVE Ledger'
  BY <1>28 DEF Signal, Ledger, MutualExclusion, IsrHolds, TaskHolds, TypeOK,
    Keys, device, queue, edges, history
<1>29. CASE UNCHANGED vars
  BY <1>29 DEF Ledger, MutualExclusion, IsrHolds, TaskHolds, TypeOK, Keys,
    device, queue, edges, history, vars
<1>30. QED
  BY <1>1, <1>2, <1>3, <1>4, <1>5, <1>6, <1>7, <1>8, <1>9, <1>10, <1>11, <1>12,
    <1>13, <1>14, <1>15, <1>16, <1>17, <1>18, <1>19, <1>20, <1>21, <1>22,
    <1>23, <1>24, <1>25, <1>26, <1>27, <1>28, <1>29
  DEF Next, KeyNext, TaskNext, SignalNext, keyIsr, ledkey_read, ledkey_poll

\* Every step is a step of the mailbox or leaves it alone.
LEMMA MailStep ==
  ASSUME TypeOK, MutualExclusion, Ledger, [Next]_vars
  PROVE  [Mailbox!MailNext]_(Mailbox!mailVars)
<1>1. ASSUME NEW k \in Keys, Press(k)
      PROVE [Mailbox!MailNext]_(Mailbox!mailVars)
  BY <1>1 DEF Press, Mailbox!MailNext, Mailbox!mailVars, device, queue, edges,
    history
<1>2. ASSUME NEW k \in Keys, IsrEnter(k)
      PROVE [Mailbox!MailNext]_(Mailbox!mailVars)
  BY <1>2 DEF IsrEnter, IsrStep, Mailbox!MailNext, Mailbox!mailVars, device,
    queue, edges, history
<1>3. ASSUME NEW k \in Keys, IsrLock(k)
      PROVE [Mailbox!MailNext]_(Mailbox!mailVars)
  BY <1>3 DEF IsrLock, IsrStep, Mailbox!MailNext, Mailbox!mailVars, device,
    queue, edges, history
<1>4. ASSUME NEW k \in Keys, IsrDrop(k)
      PROVE [Mailbox!MailNext]_(Mailbox!mailVars)
  BY <1>4 DEF IsrDrop, IsrStep, Mailbox!MailNext, Mailbox!mailVars, device,
    queue, edges, history
<1>5. ASSUME NEW k \in Keys, IsrStore(k)
      PROVE [Mailbox!MailNext]_(Mailbox!mailVars)
  <2>1. Mailbox!Put
    BY <1>5 DEF IsrStore, Mailbox!Put, Ledger
  <2>2. QED BY <2>1 DEF Mailbox!MailNext
<1>6. ASSUME NEW k \in Keys, IsrUnlock(k)
      PROVE [Mailbox!MailNext]_(Mailbox!mailVars)
  BY <1>6 DEF IsrUnlock, IsrStep, Mailbox!MailNext, Mailbox!mailVars, device,
    queue, edges, history
<1>7. ASSUME NEW k \in Keys, IsrWake(k)
      PROVE [Mailbox!MailNext]_(Mailbox!mailVars)
  BY <1>7 DEF IsrWake, IsrStep, Mailbox!MailNext, Mailbox!mailVars, device,
    queue, edges, history
<1>8. ASSUME NEW t \in Tasks, NEW mode \in FileModes, ReadCall(t, mode)
      PROVE [Mailbox!MailNext]_(Mailbox!mailVars)
  BY <1>8 DEF ReadCall, TaskStep, Mailbox!MailNext, Mailbox!mailVars, device,
    queue, edges, history
<1>9. ASSUME NEW t \in Tasks, WaitCheck(t)
      PROVE [Mailbox!MailNext]_(Mailbox!mailVars)
  BY <1>9 DEF WaitCheck, TaskStep, Mailbox!MailNext, Mailbox!mailVars, device,
    queue, edges, history
<1>10. ASSUME NEW t \in Tasks, PrepareToWait(t)
       PROVE [Mailbox!MailNext]_(Mailbox!mailVars)
  BY <1>10 DEF PrepareToWait, TaskStep, Enqueue, Mailbox!MailNext,
    Mailbox!mailVars, device, queue, edges, history
<1>11. ASSUME NEW t \in Tasks, WaitDone(t)
       PROVE [Mailbox!MailNext]_(Mailbox!mailVars)
  BY <1>11 DEF WaitDone, TaskStep, Dequeue, Mailbox!MailNext, Mailbox!mailVars,
    device, queue, edges, history
<1>12. ASSUME NEW t \in Tasks, Sleep(t)
       PROVE [Mailbox!MailNext]_(Mailbox!mailVars)
  BY <1>12 DEF Sleep, TaskStep, Mailbox!MailNext, Mailbox!mailVars, device,
    queue, edges, history
<1>13. ASSUME NEW t \in Tasks, Resume(t)
       PROVE [Mailbox!MailNext]_(Mailbox!mailVars)
  BY <1>13 DEF Resume, TaskStep, Mailbox!MailNext, Mailbox!mailVars, device,
    queue, edges, history
<1>14. ASSUME NEW t \in Tasks, ReadLock(t)
       PROVE [Mailbox!MailNext]_(Mailbox!mailVars)
  BY <1>14 DEF ReadLock, TaskStep, Mailbox!MailNext, Mailbox!mailVars, device,
    queue, edges, history
<1>15. ASSUME NEW t \in Tasks, ReadGiveUp(t)
       PROVE [Mailbox!MailNext]_(Mailbox!mailVars)
  BY <1>15 DEF ReadGiveUp, TaskStep, Mailbox!MailNext, Mailbox!mailVars,
    device, queue, edges, history
<1>16. ASSUME NEW t \in Tasks, ReadTest(t)
       PROVE [Mailbox!MailNext]_(Mailbox!mailVars)
  BY <1>16 DEF ReadTest, TaskStep, Mailbox!MailNext, Mailbox!mailVars, device,
    queue, edges, history
<1>17. ASSUME NEW t \in Tasks, ReadCopy(t)
       PROVE [Mailbox!MailNext]_(Mailbox!mailVars)
  BY <1>17 DEF ReadCopy, TaskStep, Mailbox!MailNext, Mailbox!mailVars, device,
    queue, edges, history
<1>18. ASSUME NEW t \in Tasks, ReadClear(t)
       PROVE [Mailbox!MailNext]_(Mailbox!mailVars)
  <2>1. mail # 0 /\ copied[t] = mail
    BY <1>18 DEF ReadClear, TaskStep, Ledger
  <2>2. Mailbox!Take(t)
    BY <1>18, <2>1 DEF ReadClear, Mailbox!Take
  <2>3. QED BY <2>2 DEF Mailbox!MailNext
<1>19. ASSUME NEW t \in Tasks, ReadUnlock(t)
       PROVE [Mailbox!MailNext]_(Mailbox!mailVars)
  BY <1>19 DEF ReadUnlock, TaskStep, Mailbox!MailNext, Mailbox!mailVars,
    device, queue, edges, history
<1>20. ASSUME NEW t \in Tasks, ReadReturn(t)
       PROVE [Mailbox!MailNext]_(Mailbox!mailVars)
  BY <1>20 DEF ReadReturn, TaskStep, Mailbox!MailNext, Mailbox!mailVars,
    device, queue, edges, history
<1>21. ASSUME NEW t \in Tasks, PollCall(t)
       PROVE [Mailbox!MailNext]_(Mailbox!mailVars)
  BY <1>21 DEF PollCall, TaskStep, Mailbox!MailNext, Mailbox!mailVars, device,
    queue, edges, history
<1>22. ASSUME NEW t \in Tasks, PollAdd(t)
       PROVE [Mailbox!MailNext]_(Mailbox!mailVars)
  BY <1>22 DEF PollAdd, TaskStep, Enqueue, Mailbox!MailNext, Mailbox!mailVars,
    device, queue, edges, history
<1>23. ASSUME NEW t \in Tasks, PollReady(t)
       PROVE [Mailbox!MailNext]_(Mailbox!mailVars)
  BY <1>23 DEF PollReady, TaskStep, Dequeue, Mailbox!MailNext,
    Mailbox!mailVars, device, queue, edges, history
<1>24. ASSUME NEW t \in Tasks, PollSleep(t)
       PROVE [Mailbox!MailNext]_(Mailbox!mailVars)
  BY <1>24 DEF PollSleep, TaskStep, Mailbox!MailNext, Mailbox!mailVars, device,
    queue, edges, history
<1>25. ASSUME NEW t \in Tasks, PollWoken(t)
       PROVE [Mailbox!MailNext]_(Mailbox!mailVars)
  BY <1>25 DEF PollWoken, TaskStep, Mailbox!MailNext, Mailbox!mailVars, device,
    queue, edges, history
<1>26. ASSUME NEW t \in Tasks, PollNothing(t)
       PROVE [Mailbox!MailNext]_(Mailbox!mailVars)
  BY <1>26 DEF PollNothing, TaskStep, Dequeue, Mailbox!MailNext,
    Mailbox!mailVars, device, queue, edges, history
<1>27. ASSUME NEW t \in Tasks, PollTimeout(t)
       PROVE [Mailbox!MailNext]_(Mailbox!mailVars)
  BY <1>27 DEF PollTimeout, TaskStep, Mailbox!MailNext, Mailbox!mailVars,
    device, queue, edges, history
<1>28. ASSUME NEW t \in Interruptible, Signal(t)
       PROVE [Mailbox!MailNext]_(Mailbox!mailVars)
  BY <1>28 DEF Signal, Mailbox!MailNext, Mailbox!mailVars, device, queue,
    edges, history
<1>29. CASE UNCHANGED vars
  BY <1>29 DEF Mailbox!MailNext, Mailbox!mailVars, device, queue, edges,
    history, vars
<1>30. QED
  BY <1>1, <1>2, <1>3, <1>4, <1>5, <1>6, <1>7, <1>8, <1>9, <1>10, <1>11, <1>12,
    <1>13, <1>14, <1>15, <1>16, <1>17, <1>18, <1>19, <1>20, <1>21, <1>22,
    <1>23, <1>24, <1>25, <1>26, <1>27, <1>28, <1>29
  DEF Next, KeyNext, TaskNext, SignalNext, keyIsr, ledkey_read, ledkey_poll

\* Every step of the mailbox keeps every key in exactly one place.
LEMMA OnceStep ==
  ASSUME TypeOK, Ledger, Ledger', ExactlyOnce,
         [Mailbox!MailNext]_(Mailbox!mailVars)
  PROVE  ExactlyOnce'
<1> DEFINE InBox == IF mail = 0 THEN {} ELSE {mail}
<1>1. /\ 1..puts = TakenKeys \cup lost \cup InBox
      /\ TakenKeys \cap lost = {}
      /\ mail # 0 => mail \notin TakenKeys \cup lost
      /\ \A t, u \in Tasks : t # u => taken[t] \cap taken[u] = {}
  BY DEF Ledger, ExactlyOnce
<1>2. SUFFICES /\ (1..puts)' = (TakenKeys \cup lost \cup InBox)'
               /\ (TakenKeys \cap lost = {})'
               /\ mail' # 0 => mail' \notin TakenKeys' \cup lost'
               /\ \A t, u \in Tasks : t # u => taken'[t] \cap taken'[u] = {}
  BY DEF Ledger, ExactlyOnce
<1>3. CASE Mailbox!Put
  <2>1. puts \in Nat /\ mail \in Nat
    BY DEF TypeOK
  <2>2. /\ puts' = puts + 1 /\ mail' = puts + 1
        /\ lost' = lost \cup InBox /\ taken' = taken
    BY <1>3 DEF Mailbox!Put
  <2>3. TakenKeys' = TakenKeys
    BY <2>2 DEF TakenKeys
  <2>4. 1..(puts + 1) = (1..puts) \cup {puts + 1} /\ puts + 1 \notin 1..puts
    BY <2>1
  <2>5. QED
    BY <1>1, <2>1, <2>2, <2>3, <2>4
<1>4. ASSUME NEW t \in Tasks, Mailbox!Take(t)
      PROVE  /\ (1..puts)' = (TakenKeys \cup lost \cup InBox)'
             /\ (TakenKeys \cap lost = {})'
             /\ mail' # 0 => mail' \notin TakenKeys' \cup lost'
             /\ \A u, v \in Tasks : u # v => taken'[u] \cap taken'[v] = {}
  <2>1. /\ mail # 0 /\ mail' = 0 /\ puts' = puts /\ lost' = lost
        /\ taken' = [taken EXCEPT ![t] = taken[t] \cup {mail}]
    BY <1>4 DEF Mailbox!Take
  <2>2. taken'[t] = taken[t] \cup {mail}
        /\ \A u \in Tasks \ {t} : taken'[u] = taken[u]
    BY <2>1 DEF TypeOK
  <2>3. TakenKeys' = TakenKeys \cup {mail}
    BY <2>2 DEF TakenKeys
  <2>4. mail \notin lost /\ \A u \in Tasks : mail \notin taken[u]
    BY <1>1, <2>1 DEF TakenKeys
  <2>5. \A u, v \in Tasks : u # v => taken'[u] \cap taken'[v] = {}
    BY <1>1, <2>2, <2>4
  <2>6. QED
    BY <1>1, <2>1, <2>3, <2>4, <2>5
<1>5. CASE UNCHANGED Mailbox!mailVars
  BY <1>1, <1>5 DEF Mailbox!mailVars, TakenKeys
<1>6. QED
  BY <1>3, <1>4, <1>5 DEF Mailbox!MailNext

-----------------------------------------------------------------------------
\* The inductive invariant: typing, who holds the mutex, what the holder knows
\* of keyNum, who is in the wait queue, and where every key is.
IInv ==
  /\ TypeOK
  /\ MutualExclusion
  /\ Ledger
  /\ PollersQueued
  /\ NoLostWakeup
  /\ ExactlyOnce

LEMMA InitIInv ==
  ASSUME Init
  PROVE  IInv
<1>1. TypeOK
  BY GpioAssumption, BoundAssumption DEF Init, TypeOK, IsrLabels
<1>2. MutualExclusion
  BY DEF Init, MutualExclusion, IsrHolds, TaskHolds
<1>3. Ledger /\ PollersQueued /\ NoLostWakeup
  BY DEF Init, Ledger, PollersQueued, NoLostWakeup
<1>4. ExactlyOnce
  <2>1. TakenKeys = {}
    BY DEF Init, TakenKeys
  <2>2. QED
    BY <2>1 DEF Init, ExactlyOnce
<1>5. QED
  BY <1>1, <1>2, <1>3, <1>4 DEF IInv

LEMMA NextIInv ==
  ASSUME IInv, [Next]_vars
  PROVE  IInv'
<1>1. TypeOK' /\ MutualExclusion' /\ Ledger' /\ PollersQueued' /\ NoLostWakeup'
  BY TypeStep, MutexStep, LedgerStep, WakeStep DEF IInv
<1>2. ExactlyOnce'
  BY <1>1, MailStep, OnceStep DEF IInv
<1>3. QED
  BY <1>1, <1>2 DEF IInv

\* The invariant holds in every state of every run.
THEOREM Invariance == Spec => []IInv
<1>1. Init => IInv
  BY InitIInv
<1>2. IInv /\ [Next]_vars => IInv'
  BY NextIInv
<1>3. QED
  BY <1>1, <1>2, PTL DEF Spec

-----------------------------------------------------------------------------
\* Every variable of the driver keeps its type.
THEOREM Typing == Spec => []TypeOK
<1>1. IInv => TypeOK
  BY DEF IInv
<1>2. QED
  BY <1>1, Invariance, PTL

\* Any number of key handlers and readers exclude each other by trylock alone.
THEOREM MutexSafe == Spec => []MutualExclusion
<1>1. IInv => MutualExclusion
  BY DEF IInv
<1>2. QED
  BY <1>1, Invariance, PTL

\* No reader and no poller sleeps through a key.
THEOREM WakeupSafe == Spec => []NoLostWakeup
<1>1. IInv => NoLostWakeup
  BY DEF IInv
<1>2. QED
  BY <1>1, Invariance, PTL

\* Every stored key is read once, replaced once, or still there.
THEOREM ExactlyOnceSafe == Spec => []ExactlyOnce
<1>1. IInv => ExactlyOnce
  BY DEF IInv
<1>2. QED
  BY <1>1, Invariance, PTL

\* The key path implements the one-key mailbox.
THEOREM Refinement == Spec => MailboxSpec
<1>1. Init => Mailbox!MailInit
  BY DEF Init, Mailbox!MailInit
<1>2. IInv /\ [Next]_vars => [Mailbox!MailNext]_(Mailbox!mailVars)
  BY MailStep DEF IInv
<1>3. QED
  BY <1>1, <1>2, Invariance, PTL DEF Spec, MailboxSpec, Mailbox!MailSpec

\* A read that returns a key returns the one stored last.
THEOREM NewestSafe == Spec => DeliversNewest
<1> DEFINE Newest == \A t \in Tasks :
             taken'[t] # taken[t] => taken'[t] = taken[t] \cup {puts}
<1>1. IInv /\ [Next]_vars => [Newest]_vars
  <2> SUFFICES ASSUME IInv, [Next]_vars
               PROVE  Newest
    OBVIOUS
  <2>1. [Mailbox!MailNext]_(Mailbox!mailVars)
    BY MailStep DEF IInv
  <2>2. CASE Mailbox!Put \/ UNCHANGED Mailbox!mailVars
    BY <2>2 DEF Mailbox!Put, Mailbox!mailVars
  <2>3. ASSUME NEW u \in Tasks, Mailbox!Take(u)
        PROVE  Newest
    <3>1. mail = puts
      BY <2>3 DEF Mailbox!Take, IInv, Ledger
    <3>2. QED
      BY <2>3, <3>1 DEF Mailbox!Take, IInv, TypeOK
  <2>4. QED
    BY <2>1, <2>2, <2>3 DEF Mailbox!MailNext
<1>2. QED
  BY <1>1, Invariance, PTL DEF Spec, DeliversNewest

=============================================================================
