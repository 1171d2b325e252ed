----------------------------- MODULE KeyMailbox -----------------------------
(***************************************************************************)
(* What the key path of the LED/key drivers promises: a mailbox with room  *)
(* for one key.  A key interrupt puts a key into the mailbox and replaces  *)
(* the key nobody had read; a read takes the key out.  Locks, wait queue,  *)
(* interrupts and the order of the statements of the code do not appear.   *)
(*                                                                         *)
(* Keys put into the mailbox are numbered 1, 2, 3, ... in the order of the *)
(* puts, so that two presses of one key can be told apart.                 *)
(***************************************************************************)
EXTENDS Naturals

CONSTANT Tasks      \* the threads that read the device

VARIABLES
  puts,             \* how many keys have been put so far
  mail,             \* number of the key in the mailbox, 0 when it is empty
  taken,            \* taken[t]: the keys thread t took
  lost              \* keys replaced by a newer one before anyone took them

mailVars == <<puts, mail, taken, lost>>

MailInit ==
  /\ puts = 0
  /\ mail = 0
  /\ taken = [t \in Tasks |-> {}]
  /\ lost = {}

Put ==
  /\ puts' = puts + 1
  /\ mail' = puts'
  /\ lost' = IF mail = 0 THEN lost ELSE lost \cup {mail}
  /\ UNCHANGED taken

Take(t) ==
  /\ mail # 0
  /\ taken' = [taken EXCEPT ![t] = @ \cup {mail}]
  /\ mail' = 0
  /\ UNCHANGED <<puts, lost>>

MailNext == Put \/ \E t \in Tasks : Take(t)

MailSpec == MailInit /\ [][MailNext]_mailVars
=============================================================================
