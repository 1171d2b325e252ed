--------------------------- MODULE IoctlDevProofs ---------------------------
(***************************************************************************)
(* Proofs about IoctlDev for any number of processes and of lines: a key   *)
(* line is never held behind the back of gpioKeyInitFlag, and when every   *)
(* file is closed every key line has been given back.                      *)
(***************************************************************************)
EXTENDS IoctlDev, TLAPS

-----------------------------------------------------------------------------
(* The inductive invariant.                                                *)

\* Which command a process can be in at which statement; outside the loops the
\* loop variable is at its start.
CmdFits ==
  \A p \in Users :
    /\ pc[p] \in {"led_request", "led_flag"} => cmd[p] \in {"KEYLEDINIT", "LEDINIT"}
    /\ pc[p] \in {"key_request", "key_flag"} => cmd[p] \in {"KEYLEDINIT", "KEYINIT"}
    /\ pc[p] \in {"led_clear", "key_clear"}  => cmd[p] = "KEYLEDFREE"
    /\ pc[p] \in {"led_test", "key_test"}    => cmd[p] = "release"
    /\ pc[p] \in {"led_free", "key_free"}    => cmd[p] \in {"KEYLEDFREE", "release"}
    /\ pc[p] \notin {"led_request", "key_request", "led_free", "key_free"} => i[p] = 1

\* Process p is in the driver and its release(), if it is in one, has not yet
\* come past key line k.
Keeps(p, k) ==
  /\ pc[p] # "closed"
  /\ ~(cmd[p] = "release" /\ pc[p] = "key_free" /\ i[p] > k)

\* Every key line that is held has a process that can still give it back.
KeysKept == \A k \in keys : \E p \in Users : Keeps(p, k)

IInv == TypeOK /\ CmdFits /\ TrackedKeys /\ KeysKept

LEMMA InitIInv == Init => IInv
BY GpioAssumption
   DEF Init, IInv, TypeOK, CmdFits, TrackedKeys, KeysKept, Lines, Labels

\* The next value of a loop variable is a line again.
LEMMA LineStep ==
  ASSUME NEW n \in Lines
  PROVE  (IF n = GPIOCNT THEN 1 ELSE n + 1) \in Lines /\ 1 \in Lines
BY GpioAssumption DEF Lines

\* Every step keeps the types, and a process stays at the statements of its
\* command.
LEMMA TypeStep ==
  ASSUME IInv, [Next]_vars
  PROVE  TypeOK' /\ CmdFits'
<1> USE DEF TypeOK, CmdFits, Goto, NextLine, LeaveLoop, flags, Labels, Commands
<1>1. ASSUME NEW p \in Users, Open(p) PROVE TypeOK' /\ CmdFits'
  BY <1>1 DEF Open, IInv
<1>2. ASSUME NEW p \in Users, NEW c \in Commands, Ioctl(p, c)
      PROVE  TypeOK' /\ CmdFits'
  BY <1>2 DEF Ioctl, FirstLabel, IInv
<1>3. ASSUME NEW p \in Users, LedRequest(p) PROVE TypeOK' /\ CmdFits'
  BY <1>3, LineStep DEF LedRequest, AfterLedInit, IInv
<1>4. ASSUME NEW p \in Users, LedRequestFails(p) PROVE TypeOK' /\ CmdFits'
  BY <1>4, LineStep DEF LedRequestFails, AfterLedInit, IInv
<1>5. ASSUME NEW p \in Users, KeyRequest(p) PROVE TypeOK' /\ CmdFits'
  BY <1>5, LineStep DEF KeyRequest, AfterKeyInit, IInv
<1>6. ASSUME NEW p \in Users, KeyRequestFails(p) PROVE TypeOK' /\ CmdFits'
  BY <1>6, LineStep DEF KeyRequestFails, AfterKeyInit, IInv
<1>7. ASSUME NEW p \in Users, SetLedFlag(p) PROVE TypeOK' /\ CmdFits'
  BY <1>7 DEF SetLedFlag, IInv
<1>8. ASSUME NEW p \in Users, SetKeyFlag(p) PROVE TypeOK' /\ CmdFits'
  BY <1>8 DEF SetKeyFlag, IInv
<1>9. ASSUME NEW p \in Users, ClearLedFlag(p) PROVE TypeOK' /\ CmdFits'
  BY <1>9 DEF ClearLedFlag, IInv
<1>10. ASSUME NEW p \in Users, ClearKeyFlag(p) PROVE TypeOK' /\ CmdFits'
  BY <1>10 DEF ClearKeyFlag, IInv
<1>11. ASSUME NEW p \in Users, LedFree(p) PROVE TypeOK' /\ CmdFits'
  BY <1>11, LineStep DEF LedFree, IInv
<1>12. ASSUME NEW p \in Users, KeyFree(p) PROVE TypeOK' /\ CmdFits'
  BY <1>12, LineStep DEF KeyFree, IInv
<1>13. ASSUME NEW p \in Users, Close(p) PROVE TypeOK' /\ CmdFits'
  BY <1>13 DEF Close, IInv
<1>14. ASSUME NEW p \in Users, TestLedFlag(p) PROVE TypeOK' /\ CmdFits'
  BY <1>14 DEF TestLedFlag, IInv
<1>15. ASSUME NEW p \in Users, TestKeyFlag(p) PROVE TypeOK' /\ CmdFits'
  BY <1>15 DEF TestKeyFlag, IInv
<1>16. CASE UNCHANGED vars
  BY <1>16 DEF vars, IInv
<1>17. QED
  BY <1>1, <1>2, <1>3, <1>4, <1>5, <1>6, <1>7, <1>8, <1>9, <1>10, <1>11, <1>12,
     <1>13, <1>14, <1>15, <1>16 DEF Next, ledkey_ioctl, ledkey_release

-----------------------------------------------------------------------------
(* TrackedKeys: a process that is about to set the flag or to free the line *)
(* does not stop being so by a step of its own unless it has done it.       *)

LEMMA TrackedStep ==
  ASSUME IInv, [Next]_vars
  PROVE  TrackedKeys'
<1> USE DEF IInv, TypeOK, CmdFits, TrackedKeys, WillSetKeyFlag, WillFreeKey,
            Goto, NextLine, LeaveLoop, flags, Lines, Labels, Commands
<1> USE GpioAssumption
<1>1. ASSUME NEW p \in Users, Open(p) PROVE TrackedKeys'
  BY <1>1 DEF Open
<1>2. ASSUME NEW p \in Users, NEW c \in Commands, Ioctl(p, c) PROVE TrackedKeys'
  BY <1>2 DEF Ioctl, FirstLabel
<1>3. ASSUME NEW p \in Users, LedRequest(p) PROVE TrackedKeys'
  BY <1>3 DEF LedRequest, AfterLedInit
<1>4. ASSUME NEW p \in Users, LedRequestFails(p) PROVE TrackedKeys'
  BY <1>4 DEF LedRequestFails, AfterLedInit
<1>5. ASSUME NEW p \in Users, KeyRequest(p) PROVE TrackedKeys'
  BY <1>5 DEF KeyRequest, AfterKeyInit
<1>6. ASSUME NEW p \in Users, KeyRequestFails(p) PROVE TrackedKeys'
  BY <1>6 DEF KeyRequestFails, AfterKeyInit
<1>7. ASSUME NEW p \in Users, SetLedFlag(p) PROVE TrackedKeys'
  BY <1>7 DEF SetLedFlag
<1>8. ASSUME NEW p \in Users, SetKeyFlag(p) PROVE TrackedKeys'
  BY <1>8 DEF SetKeyFlag
<1>9. ASSUME NEW p \in Users, ClearLedFlag(p) PROVE TrackedKeys'
  BY <1>9 DEF ClearLedFlag
<1>10. ASSUME NEW p \in Users, ClearKeyFlag(p) PROVE TrackedKeys'
  BY <1>10 DEF ClearKeyFlag
<1>11. ASSUME NEW p \in Users, LedFree(p) PROVE TrackedKeys'
  BY <1>11 DEF LedFree
<1>12. ASSUME NEW p \in Users, KeyFree(p) PROVE TrackedKeys'
  BY <1>12 DEF KeyFree
<1>13. ASSUME NEW p \in Users, Close(p) PROVE TrackedKeys'
  BY <1>13 DEF Close
<1>14. ASSUME NEW p \in Users, TestLedFlag(p) PROVE TrackedKeys'
  BY <1>14 DEF TestLedFlag
<1>15. ASSUME NEW p \in Users, TestKeyFlag(p) PROVE TrackedKeys'
  BY <1>15 DEF TestKeyFlag
<1>16. CASE UNCHANGED vars
  BY <1>16 DEF vars
<1>17. QED
  BY <1>1, <1>2, <1>3, <1>4, <1>5, <1>6, <1>7, <1>8, <1>9, <1>10, <1>11, <1>12,
     <1>13, <1>14, <1>15, <1>16 DEF Next, ledkey_ioctl, ledkey_release

-----------------------------------------------------------------------------
(* KeysKept: only release() lets a process leave the driver.  It leaves     *)
(* after the loop over the key lines, which frees every line it passes, or  *)
(* when it finds the flag clear, and then TrackedKeys names another keeper. *)

LEMMA KeptStep ==
  ASSUME IInv, [Next]_vars
  PROVE  KeysKept'
<1> USE DEF IInv, TypeOK, CmdFits, KeysKept, Keeps,
            Goto, NextLine, LeaveLoop, flags, Lines, Labels, Commands
<1> USE GpioAssumption
<1>1. ASSUME NEW p \in Users, Open(p) PROVE KeysKept'
  BY <1>1 DEF Open
<1>2. ASSUME NEW p \in Users, NEW c \in Commands, Ioctl(p, c) PROVE KeysKept'
  BY <1>2 DEF Ioctl, FirstLabel
<1>3. ASSUME NEW p \in Users, LedRequest(p) PROVE KeysKept'
  BY <1>3 DEF LedRequest, AfterLedInit
<1>4. ASSUME NEW p \in Users, LedRequestFails(p) PROVE KeysKept'
  BY <1>4 DEF LedRequestFails, AfterLedInit
<1>5. ASSUME NEW p \in Users, KeyRequest(p) PROVE KeysKept'
  BY <1>5 DEF KeyRequest, AfterKeyInit
<1>6. ASSUME NEW p \in Users, KeyRequestFails(p) PROVE KeysKept'
  BY <1>6 DEF KeyRequestFails, AfterKeyInit
<1>7. ASSUME NEW p \in Users, SetLedFlag(p) PROVE KeysKept'
  BY <1>7 DEF SetLedFlag
<1>8. ASSUME NEW p \in Users, SetKeyFlag(p) PROVE KeysKept'
  BY <1>8 DEF SetKeyFlag
<1>9. ASSUME NEW p \in Users, ClearLedFlag(p) PROVE KeysKept'
  BY <1>9 DEF ClearLedFlag
<1>10. ASSUME NEW p \in Users, ClearKeyFlag(p) PROVE KeysKept'
  BY <1>10 DEF ClearKeyFlag
<1>11. ASSUME NEW p \in Users, LedFree(p) PROVE KeysKept'
  BY <1>11 DEF LedFree
<1>12. ASSUME NEW p \in Users, KeyFree(p) PROVE KeysKept'
  BY <1>12 DEF KeyFree
<1>13. ASSUME NEW p \in Users, Close(p) PROVE KeysKept'
  BY <1>13 DEF Close
<1>14. ASSUME NEW p \in Users, TestLedFlag(p) PROVE KeysKept'
  BY <1>14 DEF TestLedFlag
<1>15. ASSUME NEW p \in Users, TestKeyFlag(p) PROVE KeysKept'
  <2>1. CASE gpioKeyInitFlag = 1
    BY <1>15, <2>1 DEF TestKeyFlag
  <2>2. CASE gpioKeyInitFlag = 0
    <3>1. SUFFICES ASSUME NEW k \in keys PROVE \E q \in Users : Keeps(q, k)'
      BY <1>15 DEF TestKeyFlag
    <3>2. PICK q \in Users : WillSetKeyFlag(q) \/ WillFreeKey(q, k)
      BY <2>2, <3>1 DEF TrackedKeys
    <3>3. q # p /\ Keeps(q, k)
      BY <1>15, <3>2 DEF TestKeyFlag, WillSetKeyFlag, WillFreeKey
    <3>4. QED
      BY <1>15, <3>3 DEF TestKeyFlag
  <2>3. QED
    BY <2>1, <2>2
<1>16. CASE UNCHANGED vars
  BY <1>16 DEF vars
<1>17. QED
  BY <1>1, <1>2, <1>3, <1>4, <1>5, <1>6, <1>7, <1>8, <1>9, <1>10, <1>11, <1>12,
     <1>13, <1>14, <1>15, <1>16 DEF Next, ledkey_ioctl, ledkey_release

-----------------------------------------------------------------------------
(* The theorems.                                                           *)

\* The inductive invariant holds in every reachable state.
THEOREM Invariance == Spec => []IInv
<1>1. IInv /\ [Next]_vars => IInv'
  <2>1. SUFFICES ASSUME IInv, [Next]_vars PROVE IInv'
    OBVIOUS
  <2>2. TypeOK' /\ CmdFits'
    BY <2>1, TypeStep
  <2>3. TrackedKeys'
    BY <2>1, TrackedStep
  <2>4. KeysKept'
    BY <2>1, KeptStep
  <2>5. QED
    BY <2>2, <2>3, <2>4 DEF IInv
<1>2. QED
  BY <1>1, InitIInv, PTL DEF Spec

\* Flags, lines, statements and loop variables keep their types.
THEOREM Typing == Spec => []TypeOK
<1>1. IInv => TypeOK
  BY DEF IInv
<1>2. QED
  BY <1>1, Invariance, PTL

\* For any number of processes and lines: a key line that is requested is
\* flagged for release() or in the hands of a command that has not ended.
THEOREM KeysTracked == Spec => []TrackedKeys
<1>1. IInv => TrackedKeys
  BY DEF IInv
<1>2. QED
  BY <1>1, Invariance, PTL

\* For any number of processes and lines: when every file is closed, every key
\* line has been given back.
THEOREM KeysReturned == Spec => []ClosedReturnsKeys
<1>1. IInv => ClosedReturnsKeys
  BY DEF IInv, KeysKept, Keeps, ClosedReturnsKeys
<1>2. QED
  BY <1>1, Invariance, PTL
=============================================================================
