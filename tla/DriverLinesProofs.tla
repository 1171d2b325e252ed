------------------------- MODULE DriverLinesProofs -------------------------
(***************************************************************************)
(* For any number of threads, files, LEDs and keys, and any bounds: a      *)
(* version that is loaded and unloaded leaves no line, no handler and no   *)
(* device number behind (23 versions), and no line is read or written that *)
(* the driver does not hold (11).                                          *)
(*                                                                         *)
(* A program is orderly if no statement disturbs what a later one needs:   *)
(* nothing is asked for twice or after it was given back, and nothing that *)
(* was given back is used.  What is had and what is left to do then say    *)
(* together what will be had in the end.                                   *)
(***************************************************************************)
EXTENDS DriverMachineProofs

-----------------------------------------------------------------------------
(* What the statements of a program are made for; orderly programs.        *)

\* What a statement takes or gives back: the lines it is made for, or the one
\* device number or entry there is.
Single == NodeCalls \cup {"timer_pending"}
Reach(s) == IF s.call \in Single THEN {0} ELSE s.lines
Of(p, call) == UNION {Reach(p[n]) : n \in {m \in DOMAIN p : p[m].call = call}}

\* The calls that take something, each with the one that gives it back.
Undo == [gpio_request |-> "gpio_free", request_irq |-> "free_irq",
         register_chrdev |-> "unregister_chrdev", provide_call |-> "remove_call"]
Taking == {"gpio_request", "request_irq", "register_chrdev", "provide_call"}
Giving == {"gpio_free", "free_irq", "unregister_chrdev", "remove_call"}

\* What call c has been made for, call d is not made for later.
Never(c, d) ==
  \/ d \in Taking /\ c \in {d, Undo[d]}
  \/ c = "touch" /\ d = "gpio_request"
  \/ c = "gpio_free" /\ d \in {"touch", "gpio_free"}
  \/ c = "request_irq" /\ d = "gpio_to_irq"

\* Statement b may come after a; what is done instead when no timer is pending
\* gives back what would have been given back.
InTurn(a, b) ==
  /\ Never(a.call, b.call) => Reach(a) \cap Reach(b) = {}
  /\ a.call = "timer_pending" /\ b.call \in Taking \cup Giving =>
       Reach(b) \subseteq Of(a.fail, b.call)
Sorted(p) == \A m, n \in DOMAIN p : m < n => InTurn(p[m], p[n])
Orderly(p) ==
  /\ Sorted(p)
  /\ \A n \in DOMAIN p : p[n].call = "timer_pending" =>
       /\ Sorted(p[n].fail) /\ Of(p[n].fail, "timer_pending") = {}
       /\ \A t \in Taking : Of(p[n].fail, t) = {}
       /\ Of(p[n].fail, "gpio_to_irq") = {}

LEMMA OfMember ==
  ASSUME NEW p, NEW c, NEW x
  PROVE  x \in Of(p, c) <=> \E n \in DOMAIN p : p[n].call = c /\ x \in Reach(p[n])
BY DEF Of

LEMMA Pairs ==
  /\ Undo["gpio_request"] = "gpio_free" /\ Undo["request_irq"] = "free_irq"
  /\ Undo["register_chrdev"] = "unregister_chrdev" /\ Undo["provide_call"] = "remove_call"
BY DEF Undo

LEMMA OfNothing ==
  /\ \A c : Of(<<>>, c) = {}
  /\ Orderly(<<>>)
BY DEF Of, Orderly, Sorted

LEMMA OfConcat ==
  ASSUME NEW S, NEW p \in Seq(S), NEW q \in Seq(S), NEW c
  PROVE  Of(p \o q, c) = Of(p, c) \cup Of(q, c)
<1>1. ASSUME NEW x \in Of(p \o q, c)
      PROVE  x \in Of(p, c) \/ x \in Of(q, c)
  <2>1. PICK n \in DOMAIN (p \o q) : (p \o q)[n].call = c /\ x \in Reach((p \o q)[n])
    BY <1>1, OfMember
  <2>2. CASE n \in DOMAIN p
    <3>1. (p \o q)[n] = p[n]
      BY <2>2
    <3>2. QED
      BY <2>1, <2>2, <3>1, OfMember
  <2>3. CASE n \notin DOMAIN p
    <3>1. n - Len(p) \in DOMAIN q /\ (p \o q)[n] = q[n - Len(p)]
      BY <2>3
    <3>2. QED
      BY <2>1, <3>1, OfMember
  <2>4. QED
    BY <2>2, <2>3
<1>2. ASSUME NEW n \in DOMAIN p
      PROVE  n \in DOMAIN (p \o q) /\ (p \o q)[n] = p[n]
  OBVIOUS
<1>3. ASSUME NEW n \in DOMAIN q
      PROVE  Len(p) + n \in DOMAIN (p \o q) /\ (p \o q)[Len(p) + n] = q[n]
  OBVIOUS
<1>4. ASSUME NEW x \in Of(p, c) PROVE x \in Of(p \o q, c)
  <2>1. PICK n \in DOMAIN p : p[n].call = c /\ x \in Reach(p[n])
    BY <1>4, OfMember
  <2>2. QED
    BY <2>1, <1>2, OfMember
<1>5. ASSUME NEW x \in Of(q, c) PROVE x \in Of(p \o q, c)
  <2>1. PICK n \in DOMAIN q : q[n].call = c /\ x \in Reach(q[n])
    BY <1>5, OfMember
  <2>2. QED
    BY <2>1, <1>3, OfMember
<1>6. QED
  BY <1>1, <1>4, <1>5

\* The second of two programs may come after the first.
Follows(p, q) ==
  /\ Of(p, "timer_pending") = {}
  /\ \A c, d : Never(c, d) => Of(p, c) \cap Of(q, d) = {}

LEMMA OrderlyConcat ==
  ASSUME NEW S, NEW p \in Seq(S), NEW q \in Seq(S), Orderly(p), Orderly(q), Follows(p, q)
  PROVE  Orderly(p \o q)
<1> DEFINE r == p \o q
<1>1. \A n \in DOMAIN p : r[n] = p[n] /\ n \in DOMAIN r
  OBVIOUS
<1>2. \A n \in DOMAIN r : n \notin DOMAIN p =>
        n - Len(p) \in DOMAIN q /\ r[n] = q[n - Len(p)] /\ n > Len(p)
  OBVIOUS
<1>3. DOMAIN p = 1..Len(p) /\ DOMAIN q = 1..Len(q) /\ DOMAIN r \subseteq Nat
      /\ Len(p) \in Nat /\ Len(q) \in Nat
  OBVIOUS
<1> HIDE DEF r
<1>4. ASSUME NEW m \in DOMAIN r, NEW n \in DOMAIN r, m < n
      PROVE  InTurn(r[m], r[n])
  <2>1. CASE n \in DOMAIN p
    <3>1. m \in DOMAIN p
      BY <1>2, <1>3, <1>4, <2>1
    <3>2. QED
      BY <1>1, <1>4, <2>1, <3>1 DEF Orderly, Sorted
  <2>2. CASE m \in DOMAIN p /\ n \notin DOMAIN p
    <3> DEFINE a == r[m]
               b == r[n]
    <3>1. a.call # "timer_pending"
      <4>1. a.call = "timer_pending" => 0 \in Of(p, "timer_pending")
        BY <1>1, <2>2, OfMember DEF Reach, Single
      <4>2. QED
        BY <4>1 DEF Follows
    <3>2. Reach(a) \subseteq Of(p, a.call)
      BY <1>1, <2>2, OfMember
    <3>3. Reach(b) \subseteq Of(q, b.call)
      BY <1>2, <2>2, OfMember
    <3> HIDE DEF a, b
    <3>4. InTurn(a, b)
      BY <3>1, <3>2, <3>3 DEF InTurn, Follows
    <3>5. QED
      BY <3>4 DEF a, b
  <2>3. CASE m \notin DOMAIN p /\ n \notin DOMAIN p
    <3>1. m - Len(p) < n - Len(p)
      BY <1>3, <1>4
    <3>2. QED
      BY <1>2, <2>3, <3>1 DEF Orderly, Sorted
  <2>4. QED
    BY <2>1, <2>2, <2>3
<1>5. \A n \in DOMAIN r : \/ \E m \in DOMAIN p : r[n] = p[m]
                          \/ \E m \in DOMAIN q : r[n] = q[m]
  BY <1>1, <1>2
<1>6. QED
  BY <1>4, <1>5 DEF Orderly, Sorted, r

\* What is left after the first statement.
LEMMA OrderlyTail ==
  ASSUME NEW S, NEW p \in Seq(S), p # <<>>, Orderly(p)
  PROVE  /\ Orderly(Tail(p))
         /\ \A c : Of(p, c) = Of(Tail(p), c)
                              \cup (IF Head(p).call = c THEN Reach(Head(p)) ELSE {})
         /\ \A d : Never(Head(p).call, d) => Reach(Head(p)) \cap Of(Tail(p), d) = {}
         /\ Head(p).call = "timer_pending" =>
              /\ Orderly(Head(p).fail)
              /\ \A d \in Taking \cup Giving : Of(Tail(p), d) \subseteq Of(Head(p).fail, d)
              /\ \A d \in Taking : Of(Head(p).fail, d) = {}
              /\ Of(Head(p).fail, "gpio_to_irq") = {}
<1> DEFINE q == Tail(p)
<1>1. /\ DOMAIN p = 1..Len(p) /\ Len(p) \in Nat /\ 1 \in DOMAIN p /\ p[1] = Head(p)
      /\ DOMAIN q = 1..(Len(p) - 1)
      /\ \A n \in DOMAIN q : q[n] = p[n + 1] /\ n + 1 \in DOMAIN p /\ 1 < n + 1
      /\ \A n \in DOMAIN p : n # 1 => n - 1 \in DOMAIN q /\ q[n - 1] = p[n]
  OBVIOUS
<1> HIDE DEF q
<1>2. Orderly(q)
  <2>1. ASSUME NEW m \in DOMAIN q, NEW n \in DOMAIN q, m < n
        PROVE  InTurn(q[m], q[n])
    <3>1. m + 1 < n + 1
      BY <1>1, <2>1
    <3>2. QED
      BY <1>1, <3>1 DEF Orderly, Sorted
  <2>2. QED
    BY <1>1, <2>1 DEF Orderly, Sorted
<1>3. ASSUME NEW c
      PROVE  Of(p, c) = Of(q, c) \cup (IF Head(p).call = c THEN Reach(Head(p)) ELSE {})
  <2>1. ASSUME NEW x
        PROVE  x \in Of(p, c) <=> x \in Of(q, c) \/ (Head(p).call = c /\ x \in Reach(Head(p)))
    <3>1. ASSUME x \in Of(p, c)
          PROVE  x \in Of(q, c) \/ (Head(p).call = c /\ x \in Reach(Head(p)))
      <4>1. PICK n \in DOMAIN p : p[n].call = c /\ x \in Reach(p[n])
        BY <3>1, OfMember
      <4>2. QED
        BY <1>1, <4>1, OfMember
    <3>2. ASSUME x \in Of(q, c)
          PROVE  x \in Of(p, c)
      <4>1. PICK n \in DOMAIN q : q[n].call = c /\ x \in Reach(q[n])
        BY <3>2, OfMember
      <4>2. QED
        BY <1>1, <4>1, OfMember
    <3>3. QED
      BY <1>1, <3>1, <3>2, OfMember
  <2>2. QED
    BY <2>1
<1>4. \A n \in DOMAIN q : InTurn(Head(p), q[n])
  BY <1>1 DEF Orderly, Sorted
<1>5. ASSUME NEW d, Never(Head(p).call, d)
      PROVE  Reach(Head(p)) \cap Of(q, d) = {}
  BY <1>4, <1>5, OfMember DEF InTurn
<1>6. ASSUME Head(p).call = "timer_pending"
      PROVE  /\ Orderly(Head(p).fail)
             /\ \A d \in Taking \cup Giving : Of(q, d) \subseteq Of(Head(p).fail, d)
             /\ \A d \in Taking : Of(Head(p).fail, d) = {}
             /\ Of(Head(p).fail, "gpio_to_irq") = {}
  <2> DEFINE f == Head(p).fail
  <2>1. Sorted(f) /\ Of(f, "timer_pending") = {} /\ (\A t \in Taking : Of(f, t) = {})
        /\ Of(f, "gpio_to_irq") = {}
    BY <1>1, <1>6 DEF Orderly
  <2> HIDE DEF f
  <2>2. \A n \in DOMAIN f : f[n].call # "timer_pending"
    <3>1. \A n \in DOMAIN f : f[n].call = "timer_pending" => 0 \in Of(f, "timer_pending")
      BY OfMember DEF Reach, Single
    <3>2. QED
      BY <2>1, <3>1
  <2>3. Orderly(f)
    BY <2>1, <2>2 DEF Orderly
  <2>4. ASSUME NEW d \in Taking \cup Giving, NEW x \in Of(q, d)
        PROVE  x \in Of(f, d)
    <3>1. PICK n \in DOMAIN q : q[n].call = d /\ x \in Reach(q[n])
      BY <2>4, OfMember
    <3>2. QED
      BY <1>4, <1>6, <3>1 DEF InTurn, f
  <2>5. QED
    BY <2>1, <2>3, <2>4 DEF f
<1>7. QED
  BY <1>2, <1>3, <1>5, <1>6 DEF q

-----------------------------------------------------------------------------
(* The loops are orderly.                                                  *)

LEMMA OnReach ==
  ASSUME NEW L, NEW c
  PROVE  /\ On(L, c).call = c /\ On(L, c).fail = <<>>
         /\ c \in Single => Reach(On(L, c)) = {0}
         /\ c \notin Single => Reach(On(L, c)) = L
BY DEF On, Reach

LEMMA EvenHalves ==
  ASSUME NEW m \in Nat, NEW n \in Nat, m < n, m % 2 = 0, n % 2 = 0
  PROVE  m \div 2 # n \div 2
OBVIOUS

\* Programs of one statement.
LEMMA OneTurn ==
  ASSUME NEW call, NEW L
  PROVE  /\ Touch(L) \in Seq({On(L, "touch")}) /\ Do(call) \in Seq({On({}, call)})
         /\ \A c : Of(Touch(L), c) = IF c = "touch" THEN L ELSE {}
         /\ \A c : Of(Do(call), c) = IF c = call /\ call \in Single THEN {0} ELSE {}
         /\ Orderly(Touch(L))
         /\ call # "timer_pending" => Orderly(Do(call))
<1>1. ASSUME NEW s, s.call = "timer_pending" => s.fail = <<>>
      PROVE  /\ \A c : Of(<<s>>, c) = IF s.call = c THEN Reach(s) ELSE {}
             /\ Orderly(<<s>>)
  <2>1. DOMAIN <<s>> = {1} /\ <<s>>[1] = s
    OBVIOUS
  <2>2. \A c : Of(<<s>>, c) = IF s.call = c THEN Reach(s) ELSE {}
    BY <2>1 DEF Of
  <2>3. Orderly(<<s>>)
    BY <1>1, <2>1, OfNothing DEF Orderly, Sorted
  <2>4. QED
    BY <2>2, <2>3
<1>2. \A s : <<s>> \in Seq({s})
  OBVIOUS
<1>3. "touch" \notin Single /\ "touch" # "timer_pending"
  BY DEF Single, NodeCalls
<1>4. Touch(L) = <<On(L, "touch")>> /\ Do(call) = <<On({}, call)>>
  BY DEF Touch, Do
<1>5. /\ \A c : Of(Touch(L), c) = IF c = "touch" THEN L ELSE {}
      /\ Orderly(Touch(L))
  <2>1. On(L, "touch").call = "touch" /\ Reach(On(L, "touch")) = L
    BY <1>3, OnReach
  <2>2. QED
    BY <1>1, <1>3, <1>4, <2>1
<1>6. /\ \A c : Of(Do(call), c) = IF c = call /\ call \in Single THEN {0} ELSE {}
      /\ call # "timer_pending" => Orderly(Do(call))
  <2> DEFINE s == On({}, call)
  <2>1. s.call = call /\ s.fail = <<>> /\ (call \in Single => Reach(s) = {0})
        /\ (call \notin Single => Reach(s) = {})
    BY OnReach
  <2> HIDE DEF s
  <2>2. /\ \A c : Of(<<s>>, c) = IF s.call = c THEN Reach(s) ELSE {}
        /\ call # "timer_pending" => Orderly(<<s>>)
    BY <1>1, <2>1
  <2>3. QED
    BY <1>4, <2>1, <2>2 DEF s
<1>7. QED
  BY <1>2, <1>4, <1>5, <1>6

LEMMA SameCalls ==
  ASSUME NEW S, NEW p \in Seq(S), NEW r, DOMAIN r = DOMAIN p,
         \A n \in DOMAIN p : r[n].call = p[n].call /\ r[n].lines = p[n].lines
  PROVE  /\ \A c : Of(r, c) = Of(p, c)
         /\ Orderly(p) /\ Of(p, "timer_pending") = {} => Orderly(r)
<1>1. \A n \in DOMAIN p : Reach(r[n]) = Reach(p[n])
  BY DEF Reach
<1>2. ASSUME NEW c
      PROVE  Of(r, c) = Of(p, c)
  <2>1. \A x : x \in Of(r, c) <=> x \in Of(p, c)
    BY <1>1, OfMember
  <2>2. QED
    BY <2>1
<1>3. ASSUME Orderly(p), Of(p, "timer_pending") = {}
      PROVE  Orderly(r)
  <2>1. \A n \in DOMAIN p : p[n].call = "timer_pending" => 0 \in Of(p, "timer_pending")
    BY OfMember DEF Reach, Single
  <2>2. \A n \in DOMAIN p : p[n].call # "timer_pending"
    BY <1>3, <2>1
  <2>3. QED
    BY <1>1, <1>3, <2>2 DEF Orderly, Sorted, InTurn
<1>4. QED
  BY <1>2, <1>3

LEMMA WrappedTurn ==
  ASSUME NEW C, NEW p \in Program(C)
  PROVE  /\ \A f, c : Of(OnFailure(p, f), c) = Of(p, c)
         /\ \A c : Of(Unchecked(p), c) = Of(p, c)
         /\ Orderly(p) /\ Of(p, "timer_pending") = {} =>
              (\A f : Orderly(OnFailure(p, f))) /\ Orderly(Unchecked(p))
<1>1. p \in Seq(Statements(C, Nested(C)))
  BY DEF Program
<1>2. \A n \in DOMAIN p : p[n] \in Statements(C, Nested(C))
  BY <1>1
<1>3. \A f : /\ DOMAIN OnFailure(p, f) = DOMAIN p
             /\ \A n \in DOMAIN p : /\ OnFailure(p, f)[n].call = p[n].call
                                    /\ OnFailure(p, f)[n].lines = p[n].lines
  BY <1>2 DEF OnFailure, Statements
<1>4. /\ DOMAIN Unchecked(p) = DOMAIN p
      /\ \A n \in DOMAIN p : /\ Unchecked(p)[n].call = p[n].call
                             /\ Unchecked(p)[n].lines = p[n].lines
  BY <1>2 DEF Unchecked, Statements
<1>5. ASSUME NEW f
      PROVE  /\ \A c : Of(OnFailure(p, f), c) = Of(p, c)
             /\ Orderly(p) /\ Of(p, "timer_pending") = {} => Orderly(OnFailure(p, f))
  BY <1>1, <1>3, SameCalls
<1>6. /\ \A c : Of(Unchecked(p), c) = Of(p, c)
      /\ Orderly(p) /\ Of(p, "timer_pending") = {} => Orderly(Unchecked(p))
  BY <1>1, <1>4, SameCalls
<1>7. QED
  BY <1>5, <1>6

\* The loops over a table without a line twice.
Distinct(table) == \A m, n \in 1..Len(table) : table[m] = table[n] => m = n

LEMMA LoopTurn ==
  ASSUME NEW table \in Seq(Lines), Distinct(table), NEW c \in AllCalls \ Single
  PROVE  /\ Orderly(ForEach(table, <<c>>))
         /\ \A d : Of(ForEach(table, <<c>>), d)
                     = IF d = c THEN {table[n] : n \in 1..Len(table)} ELSE {}
<1> DEFINE p == ForEach(table, <<c>>)
<1>1. DOMAIN p = 1..Len(table) /\ \A n \in DOMAIN p : p[n] = On({table[n]}, c)
  BY ForEachOne
<1>2. \A n \in DOMAIN p : p[n].call = c /\ Reach(p[n]) = {table[n]}
  <2>1. \A n \in DOMAIN p : /\ On({table[n]}, c).call = c
                            /\ Reach(On({table[n]}, c)) = {table[n]}
    BY OnReach
  <2> HIDE DEF p
  <2>2. QED
    BY <1>1, <2>1
<1> HIDE DEF p
<1>3. Orderly(p)
  BY <1>1, <1>2 DEF Orderly, Sorted, InTurn, Distinct, Single
<1>4. \A d : Of(p, d) = IF d = c THEN {table[n] : n \in 1..Len(table)} ELSE {}
  <2>1. \A d, x : x \in Of(p, d) <=> d = c /\ x \in {table[n] : n \in 1..Len(table)}
    BY <1>1, <1>2, OfMember
  <2>2. QED
    BY <2>1
<1>5. QED
  BY <1>3, <1>4 DEF p

Directions == {"gpio_direction_output", "gpio_direction_input"}

LEMMA DirectionTurns ==
  ASSUME NEW c \in Directions, NEW d
  PROVE  ~Never(c, d) /\ ~Never(d, c) /\ c \notin Single
BY Pairs DEF Directions, Never, Taking, Single, NodeCalls

LEMMA DoubleLoopTurn ==
  ASSUME NEW table \in Seq(Lines), Distinct(table), NEW c \in Directions
  PROVE  /\ Orderly(ForEach(table, <<"gpio_request", c>>))
         /\ \A d : Of(ForEach(table, <<"gpio_request", c>>), d)
                     = IF d \in {"gpio_request", c}
                       THEN {table[n] : n \in 1..Len(table)} ELSE {}
<1> DEFINE p == ForEach(table, <<"gpio_request", c>>)
           a == <<"gpio_request", c>>
<1>1. Len(a) = 2 /\ a[1] = "gpio_request" /\ a[2] = c
  OBVIOUS
<1>2. /\ DOMAIN p = 1..(Len(table) * 2)
      /\ \A n \in DOMAIN p : p[n] = On({table[1 + ((n - 1) \div 2)]}, a[1 + ((n - 1) % 2)])
  BY <1>1 DEF ForEach
<1> HIDE DEF a, p
<1>3. Len(table) \in Nat
  OBVIOUS
<1>4. \A n \in DOMAIN p : 1 + ((n - 1) \div 2) \in 1..Len(table)
                          /\ 1 + ((n - 1) % 2) \in {1, 2}
  BY <1>2, <1>3
<1>5. \A n \in DOMAIN p :
        /\ p[n].call = a[1 + ((n - 1) % 2)] /\ p[n].call \in {"gpio_request", c}
        /\ Reach(p[n]) = {table[1 + ((n - 1) \div 2)]}
  <2>1. "gpio_request" \notin Single /\ c \notin Single
    BY DirectionTurns DEF Single, NodeCalls
  <2>2. \A L : \A d \in {"gpio_request", c} : On(L, d).call = d /\ Reach(On(L, d)) = L
    BY <2>1, OnReach
  <2>3. \A n \in DOMAIN p : a[1 + ((n - 1) % 2)] \in {"gpio_request", c}
    BY <1>1, <1>4
  <2>4. QED
    BY <1>2, <2>2, <2>3
<1>6. "gpio_request" # c
  BY DEF Directions
<1>7. ASSUME NEW m \in DOMAIN p, NEW n \in DOMAIN p, m < n
      PROVE  InTurn(p[m], p[n])
  <2>1. CASE p[m].call = "gpio_request" /\ p[n].call = "gpio_request"
    <3>1. 1 + ((m - 1) % 2) = 1 /\ 1 + ((n - 1) % 2) = 1
      BY <1>1, <1>4, <1>5, <1>6, <2>1
    <3>2. 1 + ((m - 1) \div 2) # 1 + ((n - 1) \div 2)
      <4>1. m - 1 \in Nat /\ n - 1 \in Nat /\ m - 1 < n - 1
        BY <1>2, <1>3, <1>7
      <4>2. (m - 1) % 2 = 0 /\ (n - 1) % 2 = 0
        BY <3>1, <4>1
      <4>3. (m - 1) \div 2 # (n - 1) \div 2
        BY <4>1, <4>2, EvenHalves
      <4>4. QED
        BY <4>1, <4>3
    <3>3. Reach(p[m]) \cap Reach(p[n]) = {}
      BY <1>4, <1>5, <3>2 DEF Distinct
    <3>4. QED
      BY <2>1, <3>3 DEF InTurn
  <2>2. CASE p[m].call = c \/ p[n].call = c
    BY <1>5, <2>2, DirectionTurns DEF InTurn, Directions
  <2>3. QED
    BY <1>5, <2>1, <2>2
<1>8. Orderly(p)
  BY <1>5, <1>7 DEF Orderly, Sorted, Directions
<1>9. \A d : Of(p, d) = IF d \in {"gpio_request",
        c} THEN {table[n] : n \in 1..Len(table)} ELSE {}
  <2>1. ASSUME NEW n \in 1..Len(table)
        PROVE  /\ n * 2 - 1 \in DOMAIN p /\ n * 2 \in DOMAIN p
               /\ 1 + (((n * 2 - 1) - 1) \div 2) = n /\ 1 + (((n * 2 - 1) - 1) % 2) = 1
               /\ 1 + ((n * 2 - 1) \div 2) = n /\ 1 + ((n * 2 - 1) % 2) = 2
    BY <1>2, <1>3
  <2>2. ASSUME NEW n \in 1..Len(table)
        PROVE  table[n] \in Of(p, "gpio_request") /\ table[n] \in Of(p, c)
    <3>1. /\ p[n * 2 - 1].call = "gpio_request" /\ Reach(p[n * 2 - 1]) = {table[n]}
          /\ p[n * 2].call = c /\ Reach(p[n * 2]) = {table[n]}
      BY <1>1, <1>5, <2>1
    <3>2. QED
      BY <2>1, <3>1, OfMember
  <2>3. ASSUME NEW d, NEW x \in Of(p, d)
        PROVE  d \in {"gpio_request", c} /\ x \in {table[n] : n \in 1..Len(table)}
    <3>1. PICK n \in DOMAIN p : p[n].call = d /\ x \in Reach(p[n])
      BY <2>3, OfMember
    <3>2. QED
      BY <1>4, <1>5, <3>1
  <2>4. \A d, x : x \in Of(p, d) <=>
          d \in {"gpio_request", c} /\ x \in {table[n] : n \in 1..Len(table)}
    BY <2>2, <2>3
  <2>5. QED
    BY <2>4
<1>10. QED
  BY <1>8, <1>9 DEF p

LEMMA Tables ==
  /\ Distinct(gpioLed) /\ Distinct(gpioKey)
  /\ {gpioLed[n] : n \in 1..Len(gpioLed)} = Leds
  /\ {gpioKey[n] : n \in 1..Len(gpioKey)} = Keys
  /\ Leds \cap Keys = {}
<1>1. Len(gpioLed) = GPIOLEDCNT /\ Len(gpioKey) = GPIOKEYCNT
  BY TablesIn
<1>2. QED
  BY <1>1, CountAssumption DEF gpioLed, gpioKey, Leds, Keys, Distinct

-----------------------------------------------------------------------------
(* Putting programs together.                                              *)

\* The calls whose order and lines matter here.
Telling == AllCalls \ Directions

\* A program that only asks for directions besides making this call for L.
Block(p, call, L) ==
  /\ p \in Program(AllCalls) /\ Orderly(p) /\ call # "timer_pending"
  /\ \A c \in Telling : Of(p, c) = IF c = call THEN L ELSE {}

\* A program that does not depend on the timer.
Turn(p) == p \in Program(AllCalls) /\ Orderly(p) /\ Of(p, "timer_pending") = {}

LEMMA AllTelling ==
  /\ Taking \cup Giving \cup {"touch", "gpio_to_irq", "timer_pending"} \subseteq Telling
  /\ \A c, d : Never(c, d) => c \in Telling /\ d \in Telling
BY Pairs DEF Taking, Giving, Telling, AllCalls, LineCalls, IrqCalls, NodeCalls,
             TimerCalls, Directions, Never

LEMMA BlockTurn ==
  ASSUME NEW p, NEW call, NEW L, Block(p, call, L)
  PROVE  Turn(p) /\ \A c \in Telling : Of(p, c) = IF c = call THEN L ELSE {}
BY Notation, AllTelling DEF Block, Turn

\* Program q makes this call for L, besides what p does.
Plus(p, q, call, L) ==
  Turn(q) /\ \A c \in Telling : Of(q, c) = Of(p, c) \cup (IF c = call THEN L ELSE {})

LEMMA TurnAppend ==
  ASSUME NEW p, NEW q, NEW call, NEW L, Turn(p), Block(q, call, L),
         \A c : Never(c, call) => Of(p, c) \cap L = {}
  PROVE  Plus(p, p \o q, call, L)
<1>1. p \in Program(AllCalls) /\ q \in Program(AllCalls) /\ p \o q \in Program(AllCalls)
  BY Notation DEF Turn, Block
<1>2. \A c : Of(p \o q, c) = Of(p, c) \cup Of(q, c)
  BY <1>1, OfConcat DEF Program
<1>3. Follows(p, q)
  BY AllTelling DEF Follows, Turn, Block
<1>4. Orderly(p \o q)
  BY <1>1, <1>3, OrderlyConcat DEF Turn, Block, Program
<1>5. QED
  BY <1>1, <1>2, <1>4, AllTelling DEF Plus, Turn, Block

Gone(p, call, L) == Of(p, call) \cap L = {}

\* Program q, which makes this call for L, may come after p.
Fits(p, q, call, L) ==
  /\ Block(q, call, L)
  /\ call = "gpio_request" =>
       Gone(p, "gpio_request", L) /\ Gone(p, "gpio_free", L) /\ Gone(p, "touch", L)
  /\ call \in {"touch", "gpio_free"} => Gone(p, "gpio_free", L)
  /\ call = "gpio_to_irq" => Gone(p, "request_irq", L)
  /\ call \in Taking => Gone(p, call, L) /\ Gone(p, Undo[call], L)

LEMMA Appends ==
  ASSUME NEW p, NEW q, NEW call, NEW L, Turn(p), Fits(p, q, call, L)
  PROVE  Plus(p, p \o q, call, L)
<1>1. ASSUME NEW c, Never(c, call)
      PROVE  Of(p, c) \cap L = {}
  BY <1>1, Pairs DEF Never, Taking, Fits, Gone
<1>2. QED
  BY <1>1, TurnAppend DEF Fits

LedInits == {TwoLoopLines.ledInit, OneLoopLines.ledInit, TimerDevGpio.ledInit,
             TimerHjyGpio.ledInit, Timer0625Gpio.ledInit}
KeyInits == {TwoLoopLines.keyInit, OneLoopLines.keyInit, TimerDevGpio.keyInit,
             TimerHjyGpio.keyInit, Timer0625Gpio.keyInit}
LedFrees == {TwoLoopLines.ledFree, OneLoopLines.ledFree, TimerDevGpio.ledFree,
             TimerHjyGpio.ledFree, Timer0625Gpio.ledFree}
KeyFrees == {TwoLoopLines.keyFree, OneLoopLines.keyFree, TimerDevGpio.keyFree,
             TimerHjyGpio.keyFree, Timer0625Gpio.keyFree}
Irqs == ForEach(gpioKey, <<"request_irq">>)

LEMMA Loops ==
  /\ \A c \in AllCalls \ Single :
       /\ Block(ForEach(gpioLed, <<c>>), c, Leds)
       /\ Block(ForEach(gpioKey, <<c>>), c, Keys)
  /\ \A c \in Directions :
       /\ Block(ForEach(gpioLed, <<"gpio_request", c>>), "gpio_request", Leds)
       /\ Block(ForEach(gpioKey, <<"gpio_request", c>>), "gpio_request", Keys)
<1>1. "timer_pending" \in Single /\ Directions \subseteq AllCalls
        /\ "gpio_request" \in AllCalls
  BY DEF Single, Directions, AllCalls, LineCalls
<1>2. ASSUME NEW c \in AllCalls \ Single
      PROVE  /\ Block(ForEach(gpioLed, <<c>>), c, Leds)
             /\ Block(ForEach(gpioKey, <<c>>), c, Keys)
  BY <1>1, LoopTurn, TablesIn, Tables, Notation DEF Block
<1>3. ASSUME NEW c \in Directions
      PROVE  /\ Block(ForEach(gpioLed, <<"gpio_request", c>>), "gpio_request", Leds)
             /\ Block(ForEach(gpioKey, <<"gpio_request", c>>), "gpio_request", Keys)
  BY <1>1, DoubleLoopTurn, TablesIn, Tables, Notation DEF Block, Telling
<1>4. QED
  BY <1>2, <1>3

LEMMA LoopThenDirect ==
  ASSUME NEW p, NEW q, NEW c, NEW L, Block(p, "gpio_request", L), c \in Directions,
    Block(q, c, L)
  PROVE  Block(p \o q, "gpio_request", L)
<1>1. c \notin Telling /\ \A d : ~Never(d, c)
  BY DirectionTurns DEF Telling
<1>2. Turn(p)
  BY BlockTurn
<1>3. Turn(p \o q) /\ \A d \in Telling : Of(p \o q, d) = Of(p, d)
  BY <1>1, <1>2, TurnAppend DEF Plus
<1>4. QED
  BY <1>3, Notation DEF Block, Turn

LEMMA Blocks ==
  /\ \A p \in LedInits : Block(p, "gpio_request", Leds)
  /\ \A p \in KeyInits : Block(p, "gpio_request", Keys)
  /\ \A p \in LedFrees : Block(p, "gpio_free", Leds)
  /\ \A p \in KeyFrees : Block(p, "gpio_free", Keys)
  /\ Block(IrqLines.toIrq, "gpio_to_irq", Keys)
  /\ Block(IrqLines.freeIrq, "free_irq", Keys)
  /\ Block(Irqs, "request_irq", Keys)
  /\ Block(Touch(Leds), "touch", Leds) /\ Block(Touch(Keys), "touch", Keys)
  /\ \A c \in NodeCalls : Block(Do(c), c, {0})
  /\ \A c \in {"mutex_init", "mutex_destroy", "add_timer", "del_timer"} : Block(Do(c), c, {})
<1>1. {"gpio_request", "gpio_free", "gpio_to_irq", "free_irq", "request_irq"} \cup Directions
        \subseteq AllCalls \ Single
  BY DEF AllCalls, Single, LineCalls, IrqCalls, NodeCalls, Directions
<1>2. "gpio_direction_output" \in Directions /\ "gpio_direction_input" \in Directions
  BY DEF Directions
<1>3. Block(TwoLoopLines.ledInit, "gpio_request", Leds)
  BY <1>1, <1>2, Loops, LoopThenDirect DEF TwoLoopLines, RequestThenDirect
<1>4. Block(TwoLoopLines.keyInit, "gpio_request", Keys)
  BY <1>1, <1>2, Loops, LoopThenDirect DEF TwoLoopLines, RequestThenDirect
<1>5. Block(OneLoopLines.ledInit, "gpio_request", Leds)
      /\ Block(OneLoopLines.keyInit, "gpio_request", Keys)
  BY <1>2, Loops DEF OneLoopLines, RequestAndDirect
<1>6. /\ TimerDevGpio.ledInit = ForEach(gpioLed, <<"gpio_request">>)
      /\ TimerHjyGpio.ledInit = TwoLoopLines.ledInit
      /\ Timer0625Gpio.ledInit = TwoLoopLines.ledInit
      /\ \A g \in {TimerDevGpio, TimerHjyGpio, Timer0625Gpio} :
           g.keyInit = OneLoopLines.keyInit
      /\ \A g \in {TwoLoopLines, OneLoopLines, TimerDevGpio, TimerHjyGpio, Timer0625Gpio} :
           g.ledFree = FreeAll(gpioLed) /\ g.keyFree = FreeAll(gpioKey)
  BY DEF TimerDevGpio, TimerHjyGpio, Timer0625Gpio, TwoLoopLines, OneLoopLines
<1>7. Block(FreeAll(gpioLed), "gpio_free", Leds) /\ Block(FreeAll(gpioKey), "gpio_free", Keys)
  BY <1>1, Loops DEF FreeAll
<1>8. /\ Block(IrqLines.toIrq, "gpio_to_irq", Keys)
      /\ Block(IrqLines.freeIrq, "free_irq", Keys)
      /\ Block(Irqs, "request_irq", Keys)
  BY <1>1, Loops DEF IrqLines, Irqs
<1>9. \A L \in {Leds, Keys} : Block(Touch(L), "touch", L)
  <2>1. "touch" \in AllCalls
    BY DEF AllCalls, LineCalls
  <2>2. QED
    BY <2>1, OneTurn, Notation DEF Block
<1>10. \A c \in NodeCalls : Block(Do(c), c, {0})
  <2>1. NodeCalls \subseteq AllCalls /\ NodeCalls \subseteq Single
          /\ "timer_pending" \notin NodeCalls
    BY DEF AllCalls, Single, NodeCalls
  <2>2. QED
    BY <2>1, OneTurn, Notation DEF Block
<1>11. \A c \in {"mutex_init", "mutex_destroy", "add_timer", "del_timer"} : Block(Do(c), c,
         {})
  <2>1. ASSUME NEW c \in {"mutex_init", "mutex_destroy", "add_timer", "del_timer"}
        PROVE  c \in AllCalls /\ c \notin Single /\ c # "timer_pending"
    BY <2>1 DEF AllCalls, Single, NodeCalls, MutexCalls, TimerCalls
  <2>2. QED
    BY <2>1, OneTurn, Notation DEF Block
<1>12. Block(TimerDevGpio.ledInit, "gpio_request", Leds)
  BY <1>1, <1>6, Loops
<1>13. QED
  BY <1>3, <1>4, <1>5, <1>6, <1>7, <1>8, <1>9, <1>10, <1>11, <1>12
     DEF LedInits, KeyInits, LedFrees, KeyFrees

-----------------------------------------------------------------------------
(* The helpers of the versions, put together.                              *)

LEMMA ConcatParts ==
  ASSUME NEW S, NEW p \in Seq(S), NEW q \in Seq(S), NEW n \in DOMAIN (p \o q)
  PROVE  /\ \/ n \in DOMAIN p /\ (p \o q)[n] = p[n]
            \/ n > Len(p) /\ n - Len(p) \in DOMAIN q /\ (p \o q)[n] = q[n - Len(p)]
         /\ n \in Nat
<1>1. n \in Nat /\ Len(p) \in Nat
  OBVIOUS
<1>2. CASE n \in DOMAIN p
  <2>1. (p \o q)[n] = p[n]
    BY <1>2
  <2>2. QED
    BY <1>1, <1>2, <2>1
<1>3. CASE n \notin DOMAIN p
  <2>1. n > Len(p) /\ n - Len(p) \in DOMAIN q /\ (p \o q)[n] = q[n - Len(p)]
    BY <1>3
  <2>2. QED
    BY <1>1, <2>1
<1>4. QED
  BY <1>2, <1>3

LEMMA OfJoined ==
  \A p, q \in Program(AllCalls) : \A c : Of(p \o q, c) = Of(p, c) \cup Of(q, c)
BY OfConcat DEF Program

LEMMA LinesTurn ==
  ASSUME NEW p, Turn(p), NEW l \in LedInits, NEW k \in KeyInits,
         \A c \in {"gpio_request", "gpio_free", "touch"} : Of(p, c) = {}
  PROVE  Plus(p, p \o l \o k, "gpio_request", Lines)
<1>1. Plus(p, p \o l, "gpio_request", Leds)
  BY Blocks, Pairs, Appends DEF Fits, Gone
<1>2. Fits(p \o l, k, "gpio_request", Keys)
  BY <1>1, Blocks, Pairs, Tables, AllTelling DEF Plus, Fits, Gone, Taking, Giving
<1>3. Plus(p \o l, p \o l \o k, "gpio_request", Keys)
  BY <1>1, <1>2, Appends DEF Plus
<1>4. QED
  BY <1>1, <1>3 DEF Lines, Plus

LEMMA FreesTurn ==
  ASSUME NEW p, Turn(p), NEW l \in LedFrees, NEW k \in KeyFrees, Of(p, "gpio_free") = {}
  PROVE  Plus(p, p \o l \o k, "gpio_free", Lines)
<1>1. Plus(p, p \o l, "gpio_free", Leds)
  BY Blocks, Pairs, Appends DEF Fits, Gone, Taking
<1>2. Fits(p \o l, k, "gpio_free", Keys)
  BY <1>1, Blocks, Pairs, Tables, AllTelling DEF Plus, Fits, Gone, Taking, Giving
<1>3. Plus(p \o l, p \o l \o k, "gpio_free", Keys)
  BY <1>1, <1>2, Appends DEF Plus
<1>4. QED
  BY <1>1, <1>3 DEF Lines, Plus

\* Nothing, to begin with.
LEMMA NothingTurn ==
  /\ Turn(<<>>)
  /\ \A S : \A p \in Seq(S) : <<>> \o p = p
BY OfNothing, Notation DEF Turn

LEMMA LinesAlone ==
  ASSUME NEW l \in LedInits, NEW k \in KeyInits
  PROVE  Block(l \o k, "gpio_request", Lines)
<1> DEFINE n == <<>>
<1>1. Turn(n) /\ (\A c : Of(n, c) = {}) /\ n \o l = l
  BY Blocks, NothingTurn, OfNothing DEF Block, Program
<1> HIDE DEF n
<1>2. Plus(n, n \o l \o k, "gpio_request", Lines)
  BY <1>1, LinesTurn
<1>3. QED
  BY <1>1, <1>2 DEF Block, Turn, Plus

LEMMA FreesAlone ==
  ASSUME NEW l \in LedFrees, NEW k \in KeyFrees
  PROVE  Block(l \o k, "gpio_free", Lines)
<1> DEFINE n == <<>>
<1>1. Turn(n) /\ (\A c : Of(n, c) = {}) /\ n \o l = l
  BY Blocks, NothingTurn, OfNothing DEF Block, Program
<1> HIDE DEF n
<1>2. Plus(n, n \o l \o k, "gpio_free", Lines)
  BY <1>1, FreesTurn
<1>3. QED
  BY <1>1, <1>2 DEF Block, Turn, Plus

\* What the inits of the versions with interrupts begin with.
LEMMA IrqsTurn ==
  ASSUME NEW l \in LedInits, NEW k \in KeyInits,
         NEW p, p = Do("mutex_init") \o l \o k \o IrqLines.toIrq \o Irqs
  PROVE  /\ Turn(p)
         /\ \A c \in Telling : Of(p, c) = IF c = "gpio_request" THEN Lines
              ELSE IF c \in {"gpio_to_irq", "request_irq"} THEN Keys ELSE {}
<1> DEFINE a == Do("mutex_init")
           b == a \o l \o k
           d == b \o IrqLines.toIrq
<1>1. Turn(a) /\ \A c \in Telling : Of(a, c) = {}
  BY Blocks, BlockTurn
<1> HIDE DEF a
<1>2. Plus(a, b, "gpio_request", Lines)
  BY <1>1, LinesTurn, AllTelling DEF Taking, Giving
<1> HIDE DEF b
<1>3. Plus(b, d, "gpio_to_irq", Keys)
  BY <1>1, <1>2, Blocks, AllTelling, Appends DEF Plus, Fits, Gone, Taking
<1> HIDE DEF d
<1>4. Fits(d, Irqs, "request_irq", Keys)
  BY <1>1, <1>2, <1>3, Blocks, Pairs, AllTelling DEF Plus, Fits, Gone, Taking, Giving
<1>5. Plus(d, d \o Irqs, "request_irq", Keys) /\ p = d \o Irqs
  BY <1>3, <1>4, Appends DEF a, b, d, Plus
<1>6. ASSUME NEW c \in Telling
      PROVE  Of(p, c) = (IF c = "gpio_request" THEN Lines ELSE {})
                        \cup (IF c = "gpio_to_irq" THEN Keys ELSE {})
                        \cup (IF c = "request_irq" THEN Keys ELSE {})
  BY <1>1, <1>2, <1>3, <1>5 DEF Plus
<1>7. QED
  BY <1>5, <1>6 DEF Plus

\* A call without lines, at the end.
LEMMA OneMore ==
  ASSUME NEW p, Turn(p), NEW q, NEW c, c \in NodeCalls \cup {"mutex_destroy", "add_timer"},
         q = Do(c) \/ (c = "register_chrdev" /\ q = Unchecked(Do(c))),
         c \in Taking => Of(p, c) = {} /\ Of(p, Undo[c]) = {}
  PROVE  Plus(p, p \o q, c, IF c \in NodeCalls THEN {0} ELSE {})
<1> DEFINE L == IF c \in NodeCalls THEN {0} ELSE {}
<1>1. Block(Do(c), c, L) /\ c \in AllCalls
  BY Blocks DEF AllCalls, NodeCalls, MutexCalls, TimerCalls
<1> HIDE DEF L
<1>2. Do(c) \in Program(AllCalls) /\ Of(Do(c), "timer_pending") = {}
  BY <1>1, BlockTurn DEF Turn
<1>3. Unchecked(Do(c)) \in Program(AllCalls)
  BY <1>1, Notation
<1>4. Block(Unchecked(Do(c)), c, L)
  BY <1>1, <1>2, <1>3, WrappedTurn DEF Block
<1>5. c \notin {"gpio_request", "touch", "gpio_free", "gpio_to_irq"}
  BY DEF NodeCalls
<1>6. Fits(p, q, c, L)
  BY <1>1, <1>4, <1>5 DEF Fits, Gone
<1>7. QED
  BY <1>6, Appends DEF L

\* del_timer() if it is pending, and what comes after.
LEMMA DelPendingTurn ==
  ASSUME NEW q \in Simple(AllCalls), Turn(q),
         \A t \in Taking \cup {"gpio_to_irq"} : Of(q, t) = {}
  PROVE  /\ DelPendingThen(q) \in Program(AllCalls)
         /\ Orderly(DelPendingThen(q))
         /\ \A c : c # "timer_pending" => Of(DelPendingThen(q), c) = Of(q, c)
<1> DEFINE s == [On({}, "timer_pending") EXCEPT !.fail = q]
           a == <<s>>
           r == Do("del_timer") \o q
<1>1. s.call = "timer_pending" /\ s.fail = q /\ Reach(s) = {0}
  BY DEF On, Reach, Single
<1>2. OnFailure(Do("timer_pending"), q) = a
  BY DEF OnFailure, Do
<1>3. /\ Do("del_timer") \in Simple(AllCalls) /\ Orderly(Do("del_timer"))
      /\ \A c : Of(Do("del_timer"), c) = {}
  <2>1. "del_timer" \in AllCalls /\ "del_timer" \notin Single /\ "del_timer" # "timer_pending"
    BY DEF AllCalls, TimerCalls, Single, NodeCalls
  <2>2. QED
    BY <2>1, OneTurn, Notation
<1>4. a \in Program(AllCalls)
  <2>1. "timer_pending" \in AllCalls
    BY DEF AllCalls, TimerCalls
  <2>2. QED
    BY <1>2, <2>1, Notation
<1> HIDE DEF s
<1>5. r \in Program(AllCalls) /\ Orderly(r) /\ \A c : Of(r, c) = Of(q, c)
  <2>1. r \in Program(AllCalls)
    BY <1>3, Notation
  <2>2. \A c : Of(r, c) = Of(q, c)
    <3>1. Do("del_timer") \in Program(AllCalls) /\ q \in Program(AllCalls)
      BY <1>3, Notation
    <3>2. \A c : Of(Do("del_timer") \o q, c) = Of(Do("del_timer"), c) \cup Of(q, c)
      BY <3>1, OfJoined
    <3>3. QED
      BY <1>3, <3>2
  <2>3. Follows(Do("del_timer"), q)
    BY <1>3 DEF Follows
  <2>4. Orderly(r)
    BY <1>3, <2>3, OrderlyConcat DEF Simple, Turn
  <2>5. QED
    BY <2>1, <2>2, <2>4
<1>6. DelPendingThen(q) = a \o Do("del_timer") \o q
  BY <1>2 DEF DelPendingThen, IfThen
<1>7. a \o Do("del_timer") \o q = a \o r
  BY <1>3, <1>4 DEF Simple, Program
<1>8. DOMAIN a = {1} /\ a[1] = s /\ Len(a) = 1
  OBVIOUS
<1>9. \A c : Of(a, c) = IF c = "timer_pending" THEN {0} ELSE {}
  BY <1>1, <1>8 DEF Of
<1> HIDE DEF a
<1>10. \A c : Of(a \o r, c) = Of(a, c) \cup Of(r, c)
  BY <1>4, <1>5, OfJoined
<1> HIDE DEF r
<1>11. Orderly(a \o r)
  <2> DEFINE w == a \o r
  <2>1. /\ \A n \in DOMAIN w : \/ n = 1 /\ w[n] = s
                               \/ n > 1 /\ n - 1 \in DOMAIN r /\ w[n] = r[n - 1]
        /\ DOMAIN w \subseteq Nat
    <3>1. \A n \in DOMAIN w :
            /\ \/ n \in DOMAIN a /\ w[n] = a[n]
               \/ n > Len(a) /\ n - Len(a) \in DOMAIN r /\ w[n] = r[n - Len(a)]
            /\ n \in Nat
      BY <1>4, <1>5, ConcatParts DEF Program
    <3> HIDE DEF w
    <3>2. QED
      BY <1>8, <3>1
  <2> HIDE DEF w
  <2>2. \A n \in DOMAIN r : r[n].call # "timer_pending"
    <3>1. \A n \in DOMAIN r : r[n].call = "timer_pending" => 0 \in Of(r, "timer_pending")
      BY OfMember DEF Reach, Single
    <3>2. QED
      BY <1>5, <3>1 DEF Turn
  <2>3. \A n \in DOMAIN r : InTurn(s, r[n])
    <3>1. \A n \in DOMAIN r : Reach(r[n]) \subseteq Of(q, r[n].call)
      BY <1>5, OfMember
    <3>2. \A d : ~Never("timer_pending", d)
      BY Pairs DEF Never, Taking
    <3>3. QED
      BY <1>1, <3>1, <3>2 DEF InTurn
  <2>4. ASSUME NEW m \in DOMAIN w, NEW n \in DOMAIN w, m < n
        PROVE  InTurn(w[m], w[n])
    <3>1. n > 1 /\ n - 1 \in DOMAIN r /\ w[n] = r[n - 1]
      BY <2>1, <2>4
    <3>2. CASE m = 1
      BY <2>1, <2>3, <3>1, <3>2
    <3>3. CASE m # 1
      <4>1. m - 1 \in DOMAIN r /\ w[m] = r[m - 1] /\ m - 1 < n - 1
        BY <2>1, <2>4, <3>3
      <4>2. QED
        BY <1>5, <3>1, <4>1 DEF Orderly, Sorted
    <3>4. QED
      BY <3>2, <3>3
  <2>5. Sorted(q) /\ Of(q, "timer_pending") = {}
    BY DEF Turn, Orderly
  <2>6. \A n \in DOMAIN w : w[n].call = "timer_pending" => w[n].fail = q
    BY <1>1, <2>1, <2>2
  <2>7. QED
    BY <2>4, <2>5, <2>6 DEF Orderly, Sorted, w
<1>12. a \o r \in Program(AllCalls)
  BY <1>4, <1>5, Notation
<1>13. QED
  BY <1>5, <1>6, <1>7, <1>9, <1>10, <1>11, <1>12

-----------------------------------------------------------------------------
(* What is asked for and given back twice, once or never.                  *)

\* After p and then q everything p has taken is given back, and neither asks for
\* what is there.
Undoes(p, q) ==
  /\ Orderly(p) /\ Orderly(q)
  /\ \A t \in Taking :
       /\ Of(p, t) \ Of(p, Undo[t]) \subseteq Of(q, Undo[t])
       /\ Of(q, t) \cap (Of(p, t) \ Of(p, Undo[t])) = {}
       /\ Of(q, t) \subseteq Of(q, Undo[t])
  /\ Of(p, "request_irq") \subseteq Of(p, "gpio_to_irq") \cap Keys
  /\ Of(q, "request_irq") = {}

\* The lines, the handlers, the device number and the entry p asks for, q gives back.
Asking(p, lines, keys, dev, call) ==
  /\ Orderly(p)
  /\ Of(p, "gpio_request") = lines
  /\ Of(p, "request_irq") = keys
  /\ keys \subseteq Of(p, "gpio_to_irq") \cap Keys
  /\ Of(p, "register_chrdev") = dev
  /\ Of(p, "provide_call") = call
Returning(q, lines, keys, dev, call) ==
  /\ Orderly(q)
  /\ Of(q, "gpio_free") = lines
  /\ Of(q, "free_irq") = keys
  /\ Of(q, "unregister_chrdev") = dev
  /\ Of(q, "remove_call") = call
  /\ \A t \in Taking : Of(q, t) = {}

LEMMA AskedReturned ==
  ASSUME NEW p, NEW q, NEW lines, NEW keys, NEW dev, NEW call,
         Asking(p, lines, keys, dev, call), Returning(q, lines, keys, dev, call)
  PROVE  Undoes(p, q)
BY Pairs DEF Asking, Returning, Undoes, Taking

LEMMA NamesTelling ==
  /\ {"gpio_request", "gpio_free", "request_irq", "free_irq", "register_chrdev",
      "unregister_chrdev", "provide_call", "remove_call", "touch", "gpio_to_irq",
      "timer_pending"} \subseteq Telling
  /\ Undo["request_irq"] = "free_irq" /\ Undo["register_chrdev"] = "unregister_chrdev"
  /\ Undo["provide_call"] = "remove_call" /\ Undo["gpio_request"] = "gpio_free"
BY AllTelling, Pairs DEF Taking, Giving

\* init and exit of the versions that register first or last.
TwoCalls(p, c, K, d, L) ==
  Turn(p) /\ \A x \in Telling : Of(p, x) = IF x = c THEN K ELSE IF x = d THEN L ELSE {}

LEMMA TwoCallsMade ==
  ASSUME NEW p, NEW q, NEW c \in Telling, NEW d \in Telling \ {c}, NEW K, NEW L,
         Block(p, c, K), Plus(p, q, d, L)
  PROVE  TwoCalls(q, c, K, d, L) /\ TwoCalls(q, d, L, c, K)
BY DEF Block, Plus, TwoCalls

LEMMA CharacterDevices ==
  ASSUME NEW l \in LedInits, NEW k \in KeyInits, NEW lf \in LedFrees, NEW kf \in KeyFrees
  PROVE  /\ Undoes(Do("register_chrdev") \o l \o k, Do("unregister_chrdev") \o lf \o kf)
         /\ Undoes(Do("register_chrdev") \o l \o k, lf \o kf \o Do("unregister_chrdev"))
         /\ Undoes(l \o k \o Do("register_chrdev"), Do("unregister_chrdev") \o lf \o kf)
         /\ Undoes(Do("register_chrdev") \o l \o k,
                   Do("unregister_chrdev") \o Touch(Leds) \o lf \o kf)
<1> DEFINE r == Do("register_chrdev")
           u == Do("unregister_chrdev")
           v == l \o k
           w == lf \o kf
           a == r \o l \o k
           b == u \o lf \o kf
           c == w \o u
           d == v \o r
           e == u \o Touch(Leds)
           f == e \o lf \o kf
<1> USE NamesTelling
<1>1. /\ Block(r, "register_chrdev", {0}) /\ Block(u, "unregister_chrdev", {0})
      /\ Block(v, "gpio_request", Lines) /\ Block(w, "gpio_free", Lines)
  BY Blocks, LinesAlone, FreesAlone DEF NodeCalls
<1> HIDE DEF r, u, v, w
<1>2. \A x \in {r, u, v, w} : Turn(x)
  BY <1>1, BlockTurn
<1>3. Plus(r, a, "gpio_request", Lines)
  BY <1>1, <1>2, LinesTurn DEF Block
<1>4. Plus(v, d, "register_chrdev", {0}) /\ Plus(w, c, "unregister_chrdev", {0})
  BY <1>1, <1>2, Appends DEF Block, Fits, Gone, Taking
<1>5. Plus(u, b, "gpio_free", Lines)
  BY <1>1, <1>2, FreesTurn DEF Block
<1>6. Plus(u, e, "touch", Leds)
  BY <1>1, <1>2, Blocks, Appends DEF Block, Fits, Gone, Taking
<1> HIDE DEF e
<1>7. Plus(e, f, "gpio_free", Lines)
  BY <1>1, <1>6, FreesTurn DEF Block, Plus
<1> HIDE DEF a, b, c, d, f
<1>8. /\ \A x \in {a, d} : TwoCalls(x, "gpio_request", Lines, "register_chrdev", {0})
      /\ \A x \in {b, c} : TwoCalls(x, "gpio_free", Lines, "unregister_chrdev", {0})
  BY <1>1, <1>3, <1>4, <1>5, TwoCallsMade
<1>9. \A x \in {a, d} : Asking(x, Lines, {}, {0}, {})
  BY <1>8 DEF TwoCalls, Asking, Turn
<1>10. \A x \in {b, c} : Returning(x, Lines, {}, {0}, {})
  BY <1>8 DEF TwoCalls, Returning, Turn, Taking
<1>11. Returning(f, Lines, {}, {0}, {})
  <2>1. TwoCalls(e, "unregister_chrdev", {0}, "touch", Leds)
    BY <1>1, <1>6, TwoCallsMade
  <2>2. QED
    BY <2>1, <1>7 DEF TwoCalls, Plus, Returning, Turn, Taking
<1>12. QED
  BY <1>9, <1>10, <1>11, AskedReturned DEF a, b, c, d, e, f, r, u, v, w

\* Program q gives back lines and handlers, besides what p does.
Frees(p, q) ==
  Turn(q) /\ \A c \in Telling : Of(q, c) = Of(p, c)
               \cup (IF c = "gpio_free" THEN Lines ELSE IF c = "free_irq" THEN Keys ELSE {})

LEMMA FreeIrqsTurn ==
  ASSUME NEW p, Turn(p), NEW l \in LedFrees, NEW k \in KeyFrees, Of(p, "gpio_free") = {}
  PROVE  /\ Frees(p, p \o IrqLines.freeIrq \o l \o k)
         /\ Frees(p, p \o l \o IrqLines.freeIrq \o k)
<1> DEFINE a == p \o IrqLines.freeIrq
           b == p \o l
           c == b \o IrqLines.freeIrq
<1> USE NamesTelling, Blocks
<1>1. Plus(p, a, "free_irq", Keys) /\ Plus(p, b, "gpio_free", Leds)
  BY Appends DEF Fits, Gone, Taking
<1> HIDE DEF a, b
<1>2. Plus(b, c, "free_irq", Keys)
  <2>1. Turn(b) /\ Fits(b, IrqLines.freeIrq, "free_irq", Keys)
    BY <1>1 DEF Plus, Fits, Taking
  <2>2. QED
    BY <2>1, Appends
<1> HIDE DEF c
<1>3. Plus(a, a \o l \o k, "gpio_free", Lines)
  BY <1>1, FreesTurn DEF Plus
<1>4. Plus(c, c \o k, "gpio_free", Keys)
  BY <1>1, <1>2, Tables, Appends DEF Plus, Fits, Gone, Taking
<1>5. Frees(p, a \o l \o k) /\ Frees(p, c \o k)
  BY <1>1, <1>2, <1>3, <1>4 DEF Lines, Plus, Frees
<1>6. /\ a \o l \o k = p \o IrqLines.freeIrq \o l \o k
      /\ c \o k = p \o l \o IrqLines.freeIrq \o k
  BY DEF a, b, c
<1>7. QED
  BY <1>5, <1>6

LEMMA NoneMore ==
  ASSUME NEW p, Turn(p), NEW c \in {"mutex_destroy", "add_timer"}
  PROVE  Turn(p \o Do(c)) /\ \A d \in Telling : Of(p \o Do(c), d) = Of(p, d)
<1>1. c \notin NodeCalls \cup Taking
  BY DEF NodeCalls, Taking
<1>2. Plus(p, p \o Do(c), c, IF c \in NodeCalls THEN {0} ELSE {})
  BY <1>1, OneMore
<1>3. QED
  BY <1>1, <1>2 DEF Plus

LEMMA InterruptDevices ==
  ASSUME NEW l \in LedInits, NEW k \in KeyInits, NEW lf \in LedFrees, NEW kf \in KeyFrees,
         NEW m, m = Do("mutex_init") \o l \o k \o IrqLines.toIrq \o Irqs
  PROVE  LET free == Do("unregister_chrdev") \o IrqLines.freeIrq \o lf \o kf \o Do("mutex_destroy")
             late == Do("unregister_chrdev")
                     \o DelPendingThen(lf \o IrqLines.freeIrq \o kf \o Do("mutex_destroy"))
             reg  == Do("register_chrdev")
         IN  /\ Undoes(m \o reg, free)
             /\ Undoes(m \o reg, late)
             /\ Undoes(m \o Do("add_timer") \o reg, late)
             /\ Undoes(m \o Do("add_timer") \o Unchecked(reg), late)
<1> DEFINE u == Do("unregister_chrdev")
           f == u \o IrqLines.freeIrq \o lf \o kf
           g == f \o Do("mutex_destroy")
           e == <<>>
           h == e \o lf \o IrqLines.freeIrq \o kf
           i == h \o Do("mutex_destroy")
           d == DelPendingThen(i)
           v == u \o d
           n == m \o Do("add_timer")
           r == Do("register_chrdev")
<1> USE NamesTelling
<1>1. /\ Turn(m)
      /\ \A c \in Telling : Of(m, c) = IF c = "gpio_request" THEN Lines
           ELSE IF c \in {"gpio_to_irq", "request_irq"} THEN Keys ELSE {}
  BY IrqsTurn
<1>2. /\ Of(m, "gpio_request") = Lines /\ Of(m, "request_irq") = Keys
      /\ Of(m, "gpio_to_irq") = Keys
      /\ \A c \in {"register_chrdev", "unregister_chrdev", "provide_call"} : Of(m, c) = {}
  BY <1>1
<1>3. Turn(n) /\ \A c \in Telling : Of(n, c) = Of(m, c)
  BY <1>1, NoneMore
<1> HIDE DEF n
<1>4. ASSUME NEW p \in {m, n}, NEW q \in {r, Unchecked(r)}
      PROVE  Asking(p \o q, Lines, Keys, {0}, {})
  <2>1. Turn(p) /\ \A c \in Telling : Of(p, c) = Of(m, c)
    BY <1>1, <1>3
  <2>2. Of(p, "register_chrdev") = {} /\ Of(p, "unregister_chrdev") = {}
    BY <1>2, <2>1
  <2>3. Plus(p, p \o q, "register_chrdev", {0})
    BY <2>1, <2>2, OneMore DEF NodeCalls
  <2> DEFINE w == p \o q
  <2> HIDE DEF w
  <2>4. /\ Of(w, "gpio_request") = Lines /\ Of(w, "request_irq") = Keys
        /\ Of(w, "gpio_to_irq") = Keys /\ Of(w, "register_chrdev") = {0}
        /\ Of(w, "provide_call") = {}
    <3>1. Of(w, "register_chrdev") = Of(m, "register_chrdev") \cup {0}
          /\ \A c \in Telling \ {"register_chrdev"} : Of(w, c) = Of(m, c)
      BY <2>1, <2>3 DEF Plus, w
    <3>2. QED
      BY <1>2, <3>1
  <2>5. QED
    BY <2>3, <2>4 DEF Asking, Plus, Turn, w
<1>5. Block(u, "unregister_chrdev", {0})
  BY Blocks DEF NodeCalls
<1>6. Turn(u) /\ \A c \in Telling : Of(u, c) = IF c = "unregister_chrdev" THEN {0} ELSE {}
  BY <1>5, BlockTurn
<1> HIDE DEF u
<1>7. Frees(u, f)
  BY <1>6, FreeIrqsTurn
<1> HIDE DEF f
<1>8. Turn(g) /\ \A c \in Telling : Of(g, c) = Of(f, c)
  BY <1>7, NoneMore DEF Frees
<1> HIDE DEF g
<1>9. Turn(e) /\ (\A c : Of(e, c) = {}) /\ e \o lf = lf
  BY OfNothing, Blocks, NothingTurn DEF Block, Program
<1> HIDE DEF e
<1>10. Frees(e, h)
  BY <1>9, FreeIrqsTurn
<1> HIDE DEF h
<1>11. Turn(i) /\ \A c \in Telling : Of(i, c) = Of(h, c)
  BY <1>10, NoneMore DEF Frees
<1>12. i \in Simple(AllCalls)
  <2>1. {lf, kf, IrqLines.freeIrq} \subseteq Simple(AllCalls) /\ "mutex_destroy" \in AllCalls
    BY SharedPrograms, TimerLines DEF LedFrees, KeyFrees, AllCalls, LineCalls, IrqCalls,
                                      MutexCalls
  <2>2. QED
    BY <1>9, <2>1, Notation DEF h
<1> HIDE DEF i
<1>13. /\ \A t \in Taking \cup {"gpio_to_irq", "unregister_chrdev", "remove_call"} : Of(i,
            t) = {}
       /\ Of(i, "gpio_free") = Lines /\ Of(i, "free_irq") = Keys
  BY <1>9, <1>10, <1>11 DEF Frees, Taking
<1>14. /\ d \in Program(AllCalls) /\ Orderly(d)
       /\ \A c : c # "timer_pending" => Of(d, c) = Of(i, c)
  BY <1>11, <1>12, <1>13, DelPendingTurn
<1> HIDE DEF d
<1>15. Orderly(v) /\ \A c \in Telling \ {"timer_pending"} : Of(v, c) = Of(u, c) \cup Of(i, c)
  <2>1. u \in Program(AllCalls) /\ Of(u, "timer_pending") = {}
    BY <1>6 DEF Turn
  <2>2. \A c : Of(v, c) = Of(u, c) \cup Of(d, c)
    BY <1>14, <2>1, OfJoined
  <2>3. ASSUME NEW c, NEW x, Never(c, x), Of(u, c) \cap Of(d, x) # {}
        PROVE  FALSE
    <3>1. c = "unregister_chrdev"
      BY <1>6, <2>3, AllTelling
    <3>2. x = "register_chrdev"
      BY <2>3, <3>1 DEF Never, Taking
    <3>3. QED
      BY <1>13, <1>14, <2>3, <3>2 DEF Taking
  <2>4. Follows(u, d)
    BY <2>1, <2>3 DEF Follows
  <2>5. QED
    BY <1>6, <1>14, <2>1, <2>2, <2>4, OrderlyConcat DEF Turn, Program
<1> HIDE DEF v, r
<1>16. Returning(g, Lines, Keys, {0}, {})
  <2>1. /\ Of(g, "gpio_free") = Lines /\ Of(g, "free_irq") = Keys
        /\ Of(g, "unregister_chrdev") = {0} /\ Of(g, "remove_call") = {}
        /\ \A t \in Taking : Of(g, t) = {}
    BY <1>6, <1>7, <1>8 DEF Frees, Taking
  <2>2. QED
    BY <1>8, <2>1 DEF Returning, Turn
<1>17. Returning(v, Lines, Keys, {0}, {})
  <2>1. /\ Of(v, "gpio_free") = Lines /\ Of(v, "free_irq") = Keys
        /\ Of(v, "unregister_chrdev") = {0} /\ Of(v, "remove_call") = {}
        /\ \A t \in Taking : Of(v, t) = {}
    <3>1. /\ \A t \in Taking \cup {"remove_call"} : Of(u, t) = {}
          /\ Of(u, "gpio_free") = {} /\ Of(u, "free_irq") = {}
          /\ Of(u, "unregister_chrdev") = {0}
      BY <1>6 DEF Taking
    <3>2. Taking \subseteq Telling \ {"timer_pending"}
      BY DEF Taking
    <3>3. QED
      BY <1>13, <1>15, <3>1, <3>2
  <2>2. QED
    BY <1>15, <2>1 DEF Returning
<1>18. QED
  BY <1>4, <1>9, <1>16, <1>17, AskedReturned DEF u, f, g, h, i, d, v, n, r

-----------------------------------------------------------------------------
(* What exit gives back of what init has asked for.                        *)

\* A loop whose failures are handled is the same block.
LEMMA HandledBlock ==
  ASSUME NEW p, NEW call, NEW L, Block(p, call, L), NEW f \in Simple(AllCalls)
  PROVE  Block(OnFailure(p, f), call, L)
<1>1. OnFailure(p, f) \in Program(AllCalls)
  BY Notation DEF Block
<1>2. QED
  BY <1>1, BlockTurn, WrappedTurn DEF Block, Turn

LEMMA P122Undoes ==
  ASSUME NEW l \in LedInits, NEW k \in KeyInits, NEW lf \in LedFrees, NEW kf \in KeyFrees
  PROVE  LET p == l \o k \o Touch(Keys) \o Touch(Leds)
             q == Touch(Keys) \o Touch(Leds) \o lf \o kf
         IN  Turn(p) /\ Undoes(p, q)
<1> DEFINE a == l \o k
           b == a \o Touch(Keys)
           p == b \o Touch(Leds)
           t == Touch(Keys)
           d == t \o Touch(Leds)
           q == d \o lf \o kf
<1> USE NamesTelling
<1>1. Block(a, "gpio_request", Lines) /\ Block(t, "touch", Keys) /\ Block(Touch(Leds),
        "touch", Leds)
  BY LinesAlone, Blocks
<1> HIDE DEF a, t
<1>2. /\ Turn(a) /\ \A c \in Telling : Of(a, c) = IF c = "gpio_request" THEN Lines ELSE {}
      /\ Turn(t) /\ \A c \in Telling : Of(t, c) = IF c = "touch" THEN Keys ELSE {}
  BY <1>1, BlockTurn
<1>3. Plus(a, b, "touch", Keys)
  BY <1>1, <1>2, Appends DEF Fits, Gone, Taking, t
<1> HIDE DEF b
<1>4. Plus(b, p, "touch", Leds)
  BY <1>1, <1>2, <1>3, Appends DEF Plus, Fits, Gone, Taking
<1> HIDE DEF p
<1>5. Plus(t, d, "touch", Leds)
  BY <1>1, <1>2, Appends DEF Fits, Gone, Taking
<1> HIDE DEF d
<1>6. Plus(d, q, "gpio_free", Lines)
  BY <1>2, <1>5, FreesTurn DEF Plus
<1> HIDE DEF q
<1>7. Asking(p, Lines, {}, {}, {})
  <2>1. /\ Of(p, "gpio_request") = Lines
        /\ \A c \in {"request_irq", "register_chrdev", "provide_call"} : Of(p, c) = {}
    BY <1>2, <1>3, <1>4 DEF Plus
  <2>2. QED
    BY <1>4, <2>1 DEF Asking, Plus, Turn
<1>8. Returning(q, Lines, {}, {}, {})
  <2>1. /\ Of(q, "gpio_free") = Lines
        /\ \A c \in Taking \cup {"free_irq", "unregister_chrdev", "remove_call"} :
             Of(q, c) = {}
    BY <1>2, <1>5, <1>6 DEF Plus, Taking
  <2>2. QED
    BY <1>6, <2>1 DEF Returning, Plus, Turn
<1>9. QED
  BY <1>4, <1>7, <1>8, AskedReturned DEF a, b, p, d, q, t, Plus

LEMMA P106Undoes ==
  ASSUME NEW l \in LedInits, NEW k \in KeyInits, NEW lf \in LedFrees, NEW kf \in KeyFrees,
         NEW f \in Simple(AllCalls), NEW g \in Simple(AllCalls)
  PROVE  LET p == l \o OnFailure(k, f) \o Touch(Keys) \o Touch(Leds) \o kf
             q == OnFailure(k, g) \o Touch(Keys) \o kf \o Touch(Leds) \o lf
         IN  Turn(p) /\ Turn(q) /\ Undoes(p, q)
<1> DEFINE o == OnFailure(k, f)
           a == l \o o
           b == a \o Touch(Keys)
           d == b \o Touch(Leds)
           p == d \o kf
           v == OnFailure(k, g)
           w == v \o Touch(Keys)
           x == w \o kf
           y == x \o Touch(Leds)
           q == y \o lf
<1> USE NamesTelling, Tables
<1>1. /\ Block(l, "gpio_request", Leds) /\ Block(o, "gpio_request", Keys)
      /\ Block(v, "gpio_request", Keys)
      /\ Block(lf, "gpio_free", Leds) /\ Block(kf, "gpio_free", Keys)
      /\ Block(Touch(Leds), "touch", Leds) /\ Block(Touch(Keys), "touch", Keys)
  BY Blocks, HandledBlock
<1>2. /\ Turn(l) /\ \A c \in Telling : Of(l, c) = IF c = "gpio_request" THEN Leds ELSE {}
      /\ Turn(v) /\ \A c \in Telling : Of(v, c) = IF c = "gpio_request" THEN Keys ELSE {}
  BY <1>1, BlockTurn
<1> HIDE DEF v, o
<1>3. Plus(l, a, "gpio_request", Keys)
  BY <1>1, <1>2, Appends DEF Fits, Gone, Taking
<1> HIDE DEF a
<1>4. Plus(a, b, "touch", Keys)
  BY <1>1, <1>2, <1>3, Appends DEF Fits, Gone, Taking, Plus
<1> HIDE DEF b
<1>5. Plus(b, d, "touch", Leds)
  BY <1>1, <1>2, <1>3, <1>4, Appends DEF Fits, Gone, Taking, Plus
<1> HIDE DEF d
<1>6. Plus(d, p, "gpio_free", Keys)
  BY <1>1, <1>2, <1>3, <1>4, <1>5, Appends DEF Fits, Gone, Taking, Plus
<1> HIDE DEF p
<1>7. Plus(v, w, "touch", Keys)
  BY <1>1, <1>2, Appends DEF Fits, Gone, Taking, Plus
<1> HIDE DEF w
<1>8. Plus(w, x, "gpio_free", Keys)
  BY <1>1, <1>2, <1>7, Appends DEF Fits, Gone, Taking, Plus
<1> HIDE DEF x
<1>9. Plus(x, y, "touch", Leds)
  BY <1>1, <1>2, <1>7, <1>8, Appends DEF Fits, Gone, Taking, Plus
<1> HIDE DEF y
<1>10. Plus(y, q, "gpio_free", Leds)
  BY <1>1, <1>2, <1>7, <1>8, <1>9, Appends DEF Fits, Gone, Taking, Plus
<1> HIDE DEF q
<1>11. \A c \in {"request_irq", "register_chrdev", "provide_call"} : Of(p, c) = {} /\ Of(q,
         c) = {}
  BY <1>2, <1>3, <1>4, <1>5, <1>6, <1>7, <1>8, <1>9, <1>10 DEF Plus
<1>12. Of(b, "gpio_request") = Lines /\ Of(b, "gpio_free") = {}
  BY <1>2, <1>3, <1>4 DEF Lines, Plus
<1>13. Of(x, "gpio_request") = Keys /\ Of(x, "gpio_free") = Keys
  BY <1>2, <1>7, <1>8 DEF Plus
<1>14. /\ Of(p, "gpio_request") = Lines /\ Of(p, "gpio_free") = Keys
       /\ Of(q, "gpio_request") = Keys /\ Of(q, "gpio_free") = Lines
  BY <1>5, <1>6, <1>9, <1>10, <1>12, <1>13 DEF Lines, Plus
<1>15. Undoes(p, q)
  BY <1>6, <1>10, <1>11, <1>14 DEF Undoes, Turn, Taking, Lines, Plus
<1>16. QED
  BY <1>6, <1>10, <1>15 DEF a, b, d, p, v, w, x, y, q, o, Plus

LEMMA P527Undoes ==
  ASSUME NEW l \in LedInits, NEW k \in KeyInits, NEW lf \in LedFrees, NEW kf \in KeyFrees
  PROVE  Undoes(Do("register_chrdev") \o l \o k \o Unchecked(IrqLines.toIrq)
                  \o CallThen(Irqs, Do("provide_call")),
                Do("unregister_chrdev") \o Do("remove_call") \o lf \o IrqLines.freeIrq \o kf)
<1> DEFINE r == Do("register_chrdev")
           a == r \o l \o k
           b == a \o Unchecked(IrqLines.toIrq)
           i == OnFailure(Irqs, Do("provide_call"))
           d == b \o i
           p == d \o Do("provide_call")
           u == Do("unregister_chrdev")
           v == u \o Do("remove_call")
           q == v \o lf \o IrqLines.freeIrq \o kf
<1> USE NamesTelling
<1>1. /\ Block(Unchecked(IrqLines.toIrq), "gpio_to_irq", Keys) /\ Block(i, "request_irq",
           Keys)
      /\ Block(Do("provide_call"), "provide_call", {0})
      /\ Block(Do("remove_call"), "remove_call", {0})
  <2>1. "provide_call" \in AllCalls /\ "gpio_to_irq" \in AllCalls
    BY DEF AllCalls, NodeCalls, IrqCalls
  <2>2. Unchecked(IrqLines.toIrq) \in Program(AllCalls)
          /\ Do("provide_call") \in Simple(AllCalls)
    BY <2>1, SharedPrograms, Notation
  <2>3. Block(Unchecked(IrqLines.toIrq), "gpio_to_irq", Keys)
    BY <2>2, Blocks, BlockTurn, WrappedTurn DEF Block, Turn
  <2>4. QED
    BY <2>2, <2>3, Blocks, HandledBlock DEF NodeCalls
<1> HIDE DEF i
<1>2. /\ Block(r, "register_chrdev", {0}) /\ Block(u, "unregister_chrdev", {0})
      /\ Turn(r) /\ \A c \in Telling : Of(r, c) = IF c = "register_chrdev" THEN {0} ELSE {}
      /\ Turn(u) /\ \A c \in Telling : Of(u, c) = IF c = "unregister_chrdev" THEN {0} ELSE {}
  BY Blocks, BlockTurn DEF NodeCalls
<1> HIDE DEF r, u
<1>3. Plus(r, a, "gpio_request", Lines)
  BY <1>2, LinesTurn
<1> HIDE DEF a
<1>4. Plus(a, b, "gpio_to_irq", Keys)
  BY <1>1, <1>2, <1>3, Appends DEF Plus, Fits, Gone, Taking
<1> HIDE DEF b
<1>5. Plus(b, d, "request_irq", Keys)
  BY <1>1, <1>2, <1>3, <1>4, Appends DEF Plus, Fits, Gone, Taking
<1> HIDE DEF d
<1>6. Plus(d, p, "provide_call", {0})
  BY <1>1, <1>2, <1>3, <1>4, <1>5, Appends DEF Plus, Fits, Gone, Taking
<1> HIDE DEF p
<1>7. Plus(u, v, "remove_call", {0})
  BY <1>1, <1>2, Appends DEF Fits, Gone, Taking
<1> HIDE DEF v
<1>8. Frees(v, q)
  BY <1>2, <1>7, FreeIrqsTurn DEF Plus
<1> HIDE DEF q
<1>9. Asking(p, Lines, Keys, {0}, {0})
  <2>1. /\ Of(b, "gpio_request") = Lines /\ Of(b, "request_irq") = {}
        /\ Of(b, "gpio_to_irq") = Keys /\ Of(b, "register_chrdev") = {0}
        /\ Of(b, "provide_call") = {}
    <3>1. TwoCalls(a, "register_chrdev", {0}, "gpio_request", Lines)
      BY <1>2, <1>3, TwoCallsMade
    <3>2. QED
      BY <1>4, <3>1 DEF Plus, TwoCalls
  <2>2. /\ Of(p, "gpio_request") = Lines /\ Of(p, "request_irq") = Keys
        /\ Of(p, "gpio_to_irq") = Keys /\ Of(p, "register_chrdev") = {0}
        /\ Of(p, "provide_call") = {0}
    <3>1. /\ Of(d, "gpio_request") = Lines /\ Of(d, "request_irq") = Keys
          /\ Of(d, "gpio_to_irq") = Keys /\ Of(d, "register_chrdev") = {0}
          /\ Of(d, "provide_call") = {}
      BY <1>5, <2>1 DEF Plus
    <3>2. Of(p, "provide_call") = Of(d, "provide_call") \cup {0}
          /\ \A c \in Telling \ {"provide_call"} : Of(p, c) = Of(d, c)
      BY <1>6 DEF Plus
    <3>3. QED
      BY <3>1, <3>2
  <2>3. QED
    BY <1>6, <2>2 DEF Asking, Plus, Turn
<1>10. Returning(q, Lines, Keys, {0}, {0})
  <2>1. /\ Of(q, "gpio_free") = Lines /\ Of(q, "free_irq") = Keys
        /\ Of(q, "unregister_chrdev") = {0} /\ Of(q, "remove_call") = {0}
        /\ \A t \in Taking : Of(q, t) = {}
    <3>1. TwoCalls(v, "unregister_chrdev", {0}, "remove_call", {0})
      BY <1>2, <1>7, TwoCallsMade
    <3>2. QED
      BY <1>8, <3>1 DEF Frees, TwoCalls, Taking
  <2>2. QED
    BY <1>8, <2>1 DEF Returning, Frees, Turn
<1>11. Undoes(p, q)
  BY <1>9, <1>10, AskedReturned
<1>12. p = b \o CallThen(Irqs, Do("provide_call"))
  <2>1. {b, i, Do("provide_call")} \subseteq Program(AllCalls)
    BY <1>1, <1>4 DEF Plus, Turn, Block
  <2>2. QED
    BY <2>1, ConcatAssociates DEF p, d, i, CallThen
<1>13. QED
  BY <1>11, <1>12 DEF a, b, r, u, v, q

LEMMA SmallUndoes ==
  ASSUME NEW l \in LedInits, NEW lf \in LedFrees
  PROVE  /\ Undoes(Do("register_chrdev"), Do("unregister_chrdev"))
         /\ Undoes(Do("add_timer"), DelPendingThen(<<>>))
         /\ Undoes(l \o Do("add_timer"), lf \o DelPendingThen(<<>>))
<1> DEFINE a == Do("register_chrdev")
           b == Do("unregister_chrdev")
           t == Do("add_timer")
           n == <<>>
           d == DelPendingThen(n)
           e == lf \o d
           p == l \o t
<1> USE NamesTelling
<1>1. /\ Block(a, "register_chrdev", {0}) /\ Block(b, "unregister_chrdev", {0})
      /\ Block(t, "add_timer", {}) /\ Block(l, "gpio_request", Leds)
      /\ Block(lf, "gpio_free", Leds)
  BY Blocks DEF NodeCalls
<1>2. n \in Simple(AllCalls) /\ Turn(n) /\ \A c : Of(n, c) = {}
  BY NothingTurn, OfNothing, Notation
<1> HIDE DEF n
<1>3. d \in Program(AllCalls) /\ Orderly(d) /\ \A c : c # "timer_pending" => Of(d, c) = {}
  BY <1>2, DelPendingTurn
<1> HIDE DEF a, b, t, d
<1>4. Turn(p) /\ \A c \in Telling : Of(p, c) = Of(l, c)
  BY <1>1, BlockTurn, NoneMore DEF t
<1>5. Orderly(e) /\ \A c : c # "timer_pending" => Of(e, c) = Of(lf, c)
  <2>1. Turn(lf)
    BY <1>1, BlockTurn
  <2>2. ASSUME NEW c, NEW x, Never(c, x)
        PROVE  x # "timer_pending"
    BY <2>2, Pairs DEF Never, Taking
  <2>3. Follows(lf, d)
    BY <1>3, <2>1, <2>2 DEF Follows, Turn
  <2>4. \A c : Of(e, c) = Of(lf, c) \cup Of(d, c)
    BY <1>3, <2>1, OfJoined DEF Turn
  <2>5. QED
    BY <1>3, <2>1, <2>3, <2>4, OrderlyConcat DEF Turn, Program
<1> HIDE DEF e, p
<1>6. Asking(a, {}, {}, {0}, {}) /\ Returning(b, {}, {}, {0}, {})
  BY <1>1 DEF Asking, Returning, Block, Taking
<1>7. Asking(t, {}, {}, {}, {}) /\ Returning(d, {}, {}, {}, {})
  BY <1>1, <1>3 DEF Asking, Returning, Block, Taking
<1>8. Asking(p, Leds, {}, {}, {})
  BY <1>1, <1>4 DEF Asking, Block, Turn
<1>9. Returning(e, Leds, {}, {}, {})
  BY <1>1, <1>5 DEF Returning, Block, Taking
<1>10. QED
  BY <1>6, <1>7, <1>8, <1>9, AskedReturned DEF a, b, t, d, e, n, p

-----------------------------------------------------------------------------
(* The versions whose exit undoes their init.                              *)

\* The calls init and exit do not make, and those that only init and exit make.
Tests     == {"try_module_get", "mutex_trylock", "test_open", "test_init", "test_key",
              "test_blocking", "wait_event", "copy_key", "kmalloc"}
InitCalls == AllCalls \ (Tests \cup {"timer_pending"})
ExitCalls == AllCalls \ Tests
UserCalls == AllCalls \ (Taking \cup Giving \cup {"gpio_to_irq"})

\* Only init and exit take and give back, and exit gives back what init has taken.
Tidy(d) ==
  /\ Users(d, UserCalls)
  /\ d.init \in Program(InitCalls) /\ d.exit \in Program(ExitCalls)
  /\ Undoes(d.init, d.exit)
TidyVersions == DOMAIN Driver \ {"P306", "P306Ledkey", "Kmalloc", "Mysyscall"}

LEMMA TidyMore ==
  ASSUME NEW d, NEW C \in SUBSET UserCalls, NEW E \in SUBSET InitCalls,
    NEW F \in SUBSET ExitCalls,
         Users(d, C), d.init \in Program(E), d.exit \in Program(F), Undoes(d.init, d.exit)
  PROVE  Tidy(d)
<1>1. Program(C) \subseteq Program(UserCalls) /\ Program(E) \subseteq Program(InitCalls)
      /\ Program(F) \subseteq Program(ExitCalls)
  BY MonotoneIn
<1>2. QED
  BY <1>1 DEF Tidy, Users

LEMMA VersionsTidy ==
  ASSUME NEW d \in TidyVersions
  PROVE  Tidy(Driver[d])
<1>1. \A g \in {TwoLoopLines, OneLoopLines, TimerDevGpio, TimerHjyGpio, Timer0625Gpio} :
        g.ledInit \in LedInits /\ g.keyInit \in KeyInits
        /\ g.ledFree \in LedFrees /\ g.keyFree \in KeyFrees
  BY DEF LedInits, KeyInits, LedFrees, KeyFrees
<1>2. ASSUME NEW g \in {OneLoopLines, TimerDevGpio, TimerHjyGpio, Timer0625Gpio}
      PROVE  LET m    == Do("mutex_init") \o g.ledInit \o g.keyInit \o IrqLines.toIrq
                         \o ForEach(gpioKey, <<"request_irq">>)
                 free == Do("unregister_chrdev") \o IrqLines.freeIrq \o g.ledFree \o g.keyFree
                         \o Do("mutex_destroy")
                 late == Do("unregister_chrdev")
                         \o DelPendingThen(g.ledFree \o IrqLines.freeIrq \o g.keyFree
                                           \o Do("mutex_destroy"))
                 reg  == Do("register_chrdev")
             IN  /\ Undoes(m \o reg, free)
                 /\ Undoes(m \o reg, late)
                 /\ Undoes(m \o Do("add_timer") \o reg, late)
                 /\ Undoes(m \o Do("add_timer") \o Unchecked(reg), late)
  <2>1. g.ledInit \in LedInits /\ g.keyInit \in KeyInits
        /\ g.ledFree \in LedFrees /\ g.keyFree \in KeyFrees
    BY <1>1
  <2>2. QED
    BY <2>1, InterruptDevices DEF Irqs
<1>3. Undoes(P122.init, P122.exit) /\ Undoes(P122Param.init, P122Param.exit)
  BY <1>1, P122Undoes
     DEF Version, P122, P122Load, P122Gpio, P122Param, P122ParamLoad, P122ParamGpio
<1>4. Undoes(P106.init, P106.exit)
  <2>1. {"touch", "gpio_free"} \subseteq AllCalls
    BY DEF AllCalls, LineCalls
  <2>2. P106Gpio.ledFree \in Simple(AllCalls)
          /\ Touch(Leds) \o P106Gpio.ledFree \in Simple(AllCalls)
    BY <2>1, Notation, SharedPrograms DEF P106Gpio
  <2>3. QED
    BY <1>1, <2>2, P106Undoes DEF Version, P106, P106Load, P106Gpio
<1>5. /\ Undoes(Backup.init, Backup.exit) /\ Undoes(P184.init, P184.exit)
      /\ Undoes(P184b0620.init, P184b0620.exit) /\ Undoes(P184Ksh.init, P184Ksh.exit)
      /\ Undoes(CalldevLedkey.init, CalldevLedkey.exit) /\ Undoes(P238.init, P238.exit)
      /\ Undoes(P270.init, P270.exit)
  BY <1>1, CharacterDevices
     DEF Version, Backup, BackupLoad, BackupGpio, P184, P184Load, P184Gpio, P184b0620,
         P184b0620Load, P184b0620Gpio, P184Ksh, P184KshLoad, P184KshGpio, CalldevLedkey,
         CalldevLedkeyLoad, CalldevLedkeyGpio, P238, P238Load, P238Gpio, P270, P270Load,
         P270Gpio
<1>6. /\ Undoes(P369.init, P369.exit) /\ Undoes(P369Ksh.init, P369Ksh.exit)
      /\ Undoes(P399.init, P399.exit) /\ Undoes(P399Ksh.init, P399Ksh.exit)
      /\ Undoes(P432.init, P432.exit)
  BY <1>2 DEF Version, P369, P369Load, P369Gpio, P369Ksh, P369KshLoad, P369KshGpio, P399,
              P399Load, P399Gpio, P399Ksh, P399KshLoad, P399KshGpio, P432, P432Load,
              P432Gpio
<1>7. Undoes(P527.init, P527.exit)
  BY <1>1, P527Undoes DEF Version, P527, P527Load, P527Gpio, Irqs
<1>8. /\ Undoes(Calldev.init, Calldev.exit) /\ Undoes(TimerOnly.init, TimerOnly.exit)
      /\ Undoes(TimerLed.init, TimerLed.exit)
  BY <1>1, SmallUndoes DEF Version, Calldev, CalldevLoad, TimerOnly, TimerLed,
                           TimerLedLoad, TimerLedGpio
<1>9. /\ Undoes(TimerDev.init, TimerDev.exit) /\ Undoes(TimerHjy.init, TimerHjy.exit)
      /\ Undoes(Timer0625.init, Timer0625.exit)
  BY <1>2 DEF Version, TimerDev, TimerDevLoad, TimerHjy, TimerHjyLoad, Timer0625,
              Timer0625Load
<1> USE DEF AllCalls, LineCalls, IrqCalls, NodeCalls, TimerCalls, FileCalls, MutexCalls,
            KeyCalls, RequestCalls, OnceCalls, TakeCalls, WaitCalls, BoxCalls, Taking,
            Giving, Tests, InitCalls, ExitCalls, UserCalls
<1>10. Tidy(P122) /\ Tidy(P122Param) /\ Tidy(P106)
  BY <1>3, <1>4, P122ParamIs, P122In, P106In, TidyMore
<1>11. Tidy(Backup) /\ Tidy(P184) /\ Tidy(P184b0620)
  BY <1>5, BackupIn, P184In, P184b0620In, TidyMore
<1>12. Tidy(P184Ksh) /\ Tidy(CalldevLedkey) /\ Tidy(P238) /\ Tidy(P270)
  BY <1>5, P184KshIn, CalldevLedkeyIn, P238In, P270In, TidyMore
<1>13. Tidy(P369) /\ Tidy(P369Ksh) /\ Tidy(P399)
  BY <1>6, P369KshIs, P369In, P399In, TidyMore
<1>14. Tidy(P399Ksh) /\ Tidy(P432)
  BY <1>6, P399KshIn, P432In, TidyMore
<1>15. Tidy(P527)
  BY <1>7, P527In, TidyMore
<1>16. Tidy(Calldev) /\ Tidy(TimerOnly) /\ Tidy(TimerLed)
  BY <1>8, CalldevIn, TimerOnlyIn, TimerLedIn, TidyMore
<1>17. Tidy(TimerDev) /\ Tidy(TimerHjy) /\ Tidy(Timer0625)
  BY <1>9, TimerDevIn, TimerHjyIn, Timer0625In, TidyMore
<1>18. QED
  BY <1>10, <1>11, <1>12, <1>13, <1>14, <1>15, <1>16, <1>17, DriverIs DEF TidyVersions

-----------------------------------------------------------------------------
(* What is had, and what is still due.                                     *)

\* What is had of each kind.
HasOf(lines, handlers, entries) ==
  [gpio_request |-> lines, request_irq |-> {k \in Keys : handlers[k] # none},
   register_chrdev |-> {n \in {0} : "chrdev" \in entries},
   provide_call |-> {n \in {0} : "call" \in entries}]
Has == HasOf(held, handler, nodes)

\* Program p asks for nothing that is there and for the handlers of lines whose
\* interrupt is known, and leaves no more than what is in K.
Due(h, q, p, K) ==
  /\ Orderly(p)
  /\ \A t \in Taking : /\ Of(p, t) \cap h[t] = {}
                       /\ (h[t] \cup Of(p, t)) \ Of(p, Undo[t]) \subseteq K[t]
  /\ Of(p, "request_irq") \subseteq Keys \cap (q \cup Of(p, "gpio_to_irq"))
Kept(p) == [t \in Taking |-> Of(p, t) \ Of(p, Undo[t])]
Nothing == [t \in Taking |-> {}]

\* What a statement that is carried out changes.
After(h, s) ==
  [t \in Taking |-> IF s.call = t THEN h[t] \cup Reach(s)
                    ELSE IF s.call = Undo[t] THEN h[t] \ Reach(s) ELSE h[t]]

LEMMA DueNow ==
  ASSUME NEW h, NEW q, NEW K, NEW S, NEW p \in Seq(S), p # <<>>, Due(h, q, p, K)
  PROVE  /\ Head(p).call \in Taking => Reach(Head(p)) \cap h[Head(p).call] = {}
         /\ Head(p).call = "request_irq" => Reach(Head(p)) \subseteq q \cap Keys
<1>1. \A c : Of(p, c) = Of(Tail(p), c) \cup (IF Head(p).call = c THEN Reach(Head(p)) ELSE {})
  BY OrderlyTail DEF Due
<1>2. ASSUME Head(p).call = "request_irq" PROVE Reach(Head(p)) \subseteq q \cap Keys
  <2>1. Never("request_irq", "gpio_to_irq")
    BY DEF Never
  <2>2. Reach(Head(p)) \cap Of(Tail(p), "gpio_to_irq") = {}
    BY <1>2, <2>1, OrderlyTail DEF Due
  <2>3. Of(p, "gpio_to_irq") = Of(Tail(p), "gpio_to_irq")
    BY <1>1, <1>2
  <2>4. Reach(Head(p)) \subseteq Of(p, "request_irq")
    BY <1>1, <1>2
  <2>5. QED
    BY <2>2, <2>3, <2>4 DEF Due
<1>3. ASSUME Head(p).call \in Taking PROVE Reach(Head(p)) \cap h[Head(p).call] = {}
  <2>1. Reach(Head(p)) \subseteq Of(p, Head(p).call)
    BY <1>1
  <2>2. QED
    BY <1>3, <2>1 DEF Due
<1>4. QED
  BY <1>2, <1>3

LEMMA DueTail ==
  ASSUME NEW h, NEW q, NEW K, NEW S, NEW p \in Seq(S), p # <<>>, Due(h, q, p, K),
         NEW r,
         q \cup (IF Head(p).call = "gpio_to_irq" THEN Reach(Head(p)) ELSE {}) \subseteq r
  PROVE  Due(After(h, Head(p)), r, Tail(p), K)
<1> DEFINE s == Head(p)
           w == Tail(p)
           g == After(h, s)
<1>1. /\ Orderly(w)
      /\ \A c : Of(p, c) = Of(w, c) \cup (IF s.call = c THEN Reach(s) ELSE {})
      /\ \A d : Never(s.call, d) => Reach(s) \cap Of(w, d) = {}
  BY OrderlyTail DEF Due
<1> HIDE DEF s, w
<1>2. ASSUME NEW t \in Taking
      PROVE  Of(w, t) \cap g[t] = {} /\ (g[t] \cup Of(w, t)) \ Of(w, Undo[t]) \subseteq K[t]
  <2>1. t # Undo[t] /\ (s.call \in {t, Undo[t]} => Never(s.call, t))
    BY Pairs DEF Taking, Never
  <2>2. /\ Of(p, t) \cap h[t] = {} /\ (h[t] \cup Of(p, t)) \ Of(p, Undo[t]) \subseteq K[t]
    BY DEF Due
  <2>3. g[t] = IF s.call = t THEN h[t] \cup Reach(s)
                    ELSE IF s.call = Undo[t] THEN h[t] \ Reach(s) ELSE h[t]
    BY DEF After
  <2>4. /\ Of(p, t) = Of(w, t) \cup (IF s.call = t THEN Reach(s) ELSE {})
        /\ Of(p, Undo[t]) = Of(w, Undo[t]) \cup (IF s.call = Undo[t] THEN Reach(s) ELSE {})
        /\ s.call \in {t, Undo[t]} => Reach(s) \cap Of(w, t) = {}
    BY <1>1, <2>1
  <2> HIDE DEF g
  <2>5. QED
    BY <2>1, <2>2, <2>3, <2>4
<1>3. Of(w, "request_irq") \subseteq Keys \cap (r \cup Of(w, "gpio_to_irq"))
  <2>1. Of(w, "request_irq") \subseteq Of(p, "request_irq")
    BY <1>1
  <2>2. Of(p, "gpio_to_irq") \subseteq Of(w, "gpio_to_irq") \cup r
    BY <1>1 DEF s
  <2>3. q \subseteq r
    OBVIOUS
  <2>4. QED
    BY <2>1, <2>2, <2>3 DEF Due
<1>4. QED
  BY <1>1, <1>2, <1>3 DEF Due, s, w

\* No timer is pending: what is done instead.
LEMMA DueInstead ==
  ASSUME NEW h, NEW q, NEW K, NEW S, NEW p \in Seq(S), p # <<>>, Due(h, q, p, K),
         Head(p).call = "timer_pending"
  PROVE  Due(h, q, Head(p).fail, K)
<1> DEFINE f == Head(p).fail
           w == Tail(p)
<1>1. /\ Orderly(f)
      /\ \A d \in Taking \cup Giving : Of(w, d) \subseteq Of(f, d)
      /\ \A d \in Taking : Of(f, d) = {}
      /\ \A c : Of(p, c) = Of(w, c) \cup (IF Head(p).call = c THEN Reach(Head(p)) ELSE {})
  BY OrderlyTail DEF Due
<1> HIDE DEF f, w
<1>2. ASSUME NEW t \in Taking
      PROVE  Of(f, t) \cap h[t] = {} /\ (h[t] \cup Of(f, t)) \ Of(f, Undo[t]) \subseteq K[t]
  <2>1. Undo[t] \in Giving /\ Undo[t] # "timer_pending"
    BY Pairs DEF Taking, Giving
  <2>2. (h[t] \cup Of(p, t)) \ Of(p, Undo[t]) \subseteq K[t]
    BY DEF Due
  <2>3. Of(p, Undo[t]) = Of(w, Undo[t])
    BY <1>1, <2>1
  <2>4. QED
    BY <1>1, <2>1, <2>2, <2>3
<1>3. Of(f, "request_irq") = {}
  BY <1>1 DEF Taking
<1>4. QED
  BY <1>1, <1>2, <1>3 DEF Due, f

LEMMA DueBegins ==
  ASSUME NEW p, NEW e, Undoes(p, e), NEW h, NEW q
  PROVE  /\ (\A t \in Taking : h[t] = {}) => Due(h, q, p, Kept(p))
         /\ (\A t \in Taking : h[t] \subseteq Kept(p)[t]) => Due(h, q, e, Nothing)
<1>1. ASSUME \A t \in Taking : h[t] = {} PROVE Due(h, q, p, Kept(p))
  <2>1. Of(p, "request_irq") \subseteq Keys \cap (q \cup Of(p, "gpio_to_irq"))
    BY DEF Undoes
  <2>2. Orderly(p)
    BY DEF Undoes
  <2>3. QED
    BY <1>1, <2>1, <2>2 DEF Due, Kept
<1>2. ASSUME \A t \in Taking : h[t] \subseteq Kept(p)[t] PROVE Due(h, q, e, Nothing)
  <2>1. Orderly(e) /\ Of(e, "request_irq") = {}
    BY DEF Undoes
  <2>2. ASSUME NEW t \in Taking
        PROVE  /\ Of(e, t) \cap h[t] = {}
               /\ (h[t] \cup Of(e, t)) \ Of(e, Undo[t]) \subseteq Nothing[t]
    <3>1. h[t] \subseteq Of(p, t) \ Of(p, Undo[t])
      BY <1>2 DEF Kept
    <3>2. QED
      BY <3>1 DEF Undoes, Nothing
  <2>3. QED
    BY <2>1, <2>2 DEF Due
<1>3. QED
  BY <1>1, <1>2

LEMMA DueEnds ==
  ASSUME NEW h, NEW q, NEW K, Due(h, q, <<>>, K)
  PROVE  \A t \in Taking : h[t] \subseteq K[t]
BY OfNothing DEF Due

-----------------------------------------------------------------------------
(* A statement that is carried out.                                        *)

LEMMA DueAlike ==
  ASSUME NEW h, NEW g, NEW q, NEW r, NEW p, NEW K, Due(h, q, p, K), q \subseteq r,
         \A t \in Taking : g[t] = h[t]
  PROVE  Due(g, r, p, K)
BY DEF Due

LEMMA HasIs ==
  ASSUME NEW lines, NEW handlers, NEW entries
  PROVE  /\ HasOf(lines, handlers, entries)["gpio_request"] = lines
         /\ HasOf(lines, handlers, entries)["request_irq"] = {k \in Keys : handlers[k] # none}
         /\ HasOf(lines, handlers, entries)["register_chrdev"]
              = {n \in {0} : "chrdev" \in entries}
         /\ HasOf(lines, handlers, entries)["provide_call"] = {n \in {0} : "call" \in entries}
BY DEF HasOf

Owns == \A k \in Keys : handler[k] \in {kernel, none}

LEMMA OwnHandlers ==
  ASSUME drv \in TidyVersions
  PROVE  \A a : Box(a) = kernel
<1>1. ~P122.perOpen /\ ~P122Param.perOpen /\ ~P106.perOpen /\ ~Calldev.perOpen
        /\ ~Backup.perOpen
  BY DEF P122, P122Param, P106, Calldev, CalldevCalls, Backup, BackupCalls, Version, Plain
<1>2. ~P184.perOpen /\ ~P184b0620.perOpen /\ ~P184Ksh.perOpen /\ ~CalldevLedkey.perOpen
  BY DEF P184, P184Calls, P184b0620, P184b0620Calls, P184Ksh, P184KshCalls, CalldevLedkey,
         CalldevLedkeyCalls, Version, Plain
<1>3. ~P238.perOpen /\ ~P270.perOpen /\ ~P369.perOpen /\ ~P369Ksh.perOpen
  BY DEF P238, P238Calls, P270, P270Calls, P369, P369Calls, P369Ksh, P369KshCalls,
         Version, Plain
<1>4. ~TimerOnly.perOpen /\ ~TimerLed.perOpen /\ ~TimerHjy.perOpen
  BY DEF TimerOnly, TimerLed, TimerHjy, TimerHjyCalls, Version, Plain
<1>5. ~Driver[drv].perOpen
  BY <1>1, <1>2, <1>3, <1>4, SleepersShare, DriverIs DEF TidyVersions, Sleepless
<1>6. QED
  BY <1>5 DEF Box

\* What an actor does that is where it may take and give back.
Carried(a) == /\ Succeed(a) /\ clean' = clean /\ Owns'
              /\ \A t \in Taking : Has'[t] = After(Has, Now(a))[t]
              /\ irqKey \cup (IF Now(a).call = "gpio_to_irq" THEN Now(a).lines ELSE {})
                   \subseteq irqKey'
Instead(a) == /\ Fail(a) /\ clean' = clean /\ Now(a).call = "timer_pending"
              /\ UNCHANGED <<held, handler, nodes, irqKey>>

LEMMA TakeStatement ==
  ASSUME NEW a \in Actors, Statement(a), a \notin asleep, drv \in TidyVersions, Owns,
         Now(a).call \in ExitCalls, clean',
         Now(a).call \in Taking => Reach(Now(a)) \cap Has[Now(a).call] = {},
         Now(a).call = "request_irq" => Reach(Now(a)) \subseteq irqKey \cap Keys
  PROVE  Carried(a) \/ Instead(a)
<1> DEFINE s == Now(a)
           lines == s.lines
           Went == /\ Has'["gpio_request"] = After(Has, s)["gpio_request"]
                   /\ Has'["request_irq"] = After(Has, s)["request_irq"]
                   /\ Has'["register_chrdev"] = After(Has, s)["register_chrdev"]
                   /\ Has'["provide_call"] = After(Has, s)["provide_call"]
<1>0. Went => \A t \in Taking : Has'[t] = After(Has, s)[t]
  BY DEF Taking
<1>1. /\ Has["gpio_request"] = held
      /\ Has["request_irq"] = {k \in Keys : handler[k] # none}
      /\ Has["register_chrdev"] = {n \in {0} : "chrdev" \in nodes}
      /\ Has["provide_call"] = {n \in {0} : "call" \in nodes}
      /\ Has'["gpio_request"] = held'
      /\ Has'["request_irq"] = {k \in Keys : handler'[k] # none}
      /\ Has'["register_chrdev"] = {n \in {0} : "chrdev" \in nodes'}
      /\ Has'["provide_call"] = {n \in {0} : "call" \in nodes'}
  BY HasIs DEF Has
<1>2. \A t \in {"gpio_request", "request_irq", "register_chrdev", "provide_call"} :
        /\ s.call = t => After(Has, s)[t] = Has[t] \cup Reach(s)
        /\ s.call = Undo[t] => After(Has, s)[t] = Has[t] \ Reach(s)
        /\ s.call \notin {t, Undo[t]} => After(Has, s)[t] = Has[t]
  BY Pairs DEF After, Taking
<1>3. /\ s.call \in {"gpio_request", "gpio_free", "request_irq", "free_irq", "gpio_to_irq"} =>
           Reach(s) = lines
      /\ s.call \in {"register_chrdev", "unregister_chrdev", "provide_call", "remove_call"} =>
           Reach(s) = {0}
  BY DEF Reach, Single, NodeCalls
<1>4. /\ \A k \in Keys : handler[k] \in {kernel, none} /\ kernel # none /\ Box(a) = kernel
  BY OwnHandlers, ActorAssumption DEF Owns
<1>5. CASE GpioRequest(a)
  <2>1. s.call = "gpio_request" /\ lines \cap held = {} /\ UNCHANGED <<handler, nodes,
          irqKey>>
    BY <1>1, <1>3, <1>5 DEF GpioRequest, At, irqVars, Taking
  <2>2. held' = held \cup lines /\ Accepted(a)
    BY <1>5, <2>1 DEF GpioRequest, Refused
  <2> HIDE DEF lines, s
  <2>3. Went
    BY <1>1, <1>2, <1>3, <2>1, <2>2, Pairs
  <2>4. QED
    BY <1>4, <1>0, <2>1, <2>2, <2>3 DEF Carried, Accepted, Owns, s
<1>6. CASE GpioFree(a)
  <2>1. s.call = "gpio_free" /\ UNCHANGED <<handler, nodes, irqKey>> /\ held' = held \ lines
        /\ Succeed(a) /\ clean' = clean
    BY <1>6 DEF GpioFree, At, irqVars, modVars
  <2> HIDE DEF lines, s
  <2>2. Went
    BY <1>1, <1>2, <1>3, <2>1, Pairs
  <2>3. QED
    BY <1>4, <1>0, <2>1, <2>2 DEF Carried, Owns, s
<1>7. CASE RequestIrq(a)
  <2>1. s.call = "request_irq" /\ UNCHANGED <<held, nodes, irqKey>>
    BY <1>7 DEF RequestIrq, At, lineVars
  <2>2. lines \subseteq Keys /\ ~\E k \in lines : k \notin irqKey \/ handler[k] # none
    BY <1>1, <1>3, <2>1 DEF Taking
  <2>3. handler' = [k \in Keys |-> IF k \in lines THEN kernel ELSE handler[k]] /\ Accepted(a)
    BY <1>4, <1>7, <2>2 DEF RequestIrq, Refused
  <2> HIDE DEF lines, s
  <2>4. Went
    BY <1>1, <1>2, <1>3, <1>4, <2>1, <2>2, <2>3, Pairs
  <2>5. QED
    BY <1>4, <1>0, <2>1, <2>3, <2>4 DEF Carried, Accepted, Owns, s
<1>8. CASE FreeIrq(a)
  <2>1. /\ s.call = "free_irq" /\ UNCHANGED <<held, nodes, irqKey>>
        /\ Succeed(a) /\ clean' = clean
        /\ handler' = [k \in Keys |-> IF k \in lines /\ handler[k] = kernel
                                     THEN none ELSE handler[k]]
    BY <1>4, <1>8 DEF FreeIrq, At, lineVars, modVars
  <2> HIDE DEF lines, s
  <2>2. {k \in Keys : handler'[k] # none} = {k \in Keys : handler[k] # none} \ lines
    BY <1>4, <2>1
  <2>3. Went
    BY <1>1, <1>2, <1>3, <2>1, <2>2, Pairs
  <2>4. QED
    BY <1>4, <1>0, <2>1, <2>3 DEF Carried, Owns, s
<1>9. CASE RegisterChrdev(a)
  <2>1. s.call = "register_chrdev" /\ UNCHANGED <<held, handler, irqKey>>
          /\ s.call \in NodeCalls
    BY <1>9 DEF RegisterChrdev, At, lineVars, irqVars, NodeCalls
  <2>2. "chrdev" \notin nodes
    BY <1>1, <1>3, <2>1 DEF Taking
  <2>3. nodes' = nodes \cup {"chrdev"} /\ Accepted(a)
    BY <1>9, <2>2 DEF RegisterChrdev, Refused
  <2> HIDE DEF lines, s
  <2>4. Went
    BY <1>1, <1>2, <1>3, <2>1, <2>2, <2>3, Pairs
  <2>5. QED
    BY <1>4, <1>0, <2>1, <2>3, <2>4 DEF Carried, Accepted, Owns, s
<1>10. CASE UnregisterChrdev(a) \/ ProvideCall(a) \/ RemoveCall(a)
  <2>1. /\ s.call \in NodeCalls /\ UNCHANGED <<held, handler, irqKey>> /\ Succeed(a)
             /\ clean' = clean
        /\ \/ s.call = "unregister_chrdev" /\ nodes' = nodes \ {"chrdev"}
           \/ s.call = "provide_call" /\ nodes' = nodes \cup {"call"}
           \/ s.call = "remove_call" /\ nodes' = nodes \ {"call"}
    BY <1>10 DEF UnregisterChrdev, ProvideCall, RemoveCall, At, lineVars, irqVars,
                 modVars, NodeCalls
  <2> HIDE DEF lines, s
  <2>2. Went
    BY <1>1, <1>2, <1>3, <2>1, Pairs
  <2>3. QED
    BY <1>4, <1>0, <2>1, <2>2 DEF Carried, Owns, s
<1>11. CASE GpioToIrq(a)
  <2>1. s.call = "gpio_to_irq" /\ UNCHANGED <<held, handler, nodes>> /\ irqKey' = irqKey
          \cup lines
        /\ Accepted(a)
    BY <1>11 DEF GpioToIrq, Refused, At, lineVars
  <2> HIDE DEF lines, s
  <2>2. Went
    BY <1>1, <1>2, <2>1, Pairs
  <2>3. QED
    BY <1>4, <1>0, <2>1, <2>2 DEF Carried, Accepted, Owns, s, lines
<1>12. CASE \/ GpioDirection(a) \/ TouchLines(a) \/ SetTimer(a) \/ ModulePut(a) \/ Kfree(a)
            \/ SetFlag(a) \/ Mutex(a) \/ StoreKey(a) \/ ClearKey(a) \/ WakeUp(a) \/ Test(a)
  <2>1. UNCHANGED <<held, handler, nodes, irqKey>>
    BY <1>12 DEF GpioDirection, TouchLines, SetTimer, ModulePut, Kfree, SetFlag, Mutex,
                 StoreKey, ClearKey, WakeUp, Test, lineVars, irqVars
  <2>2. s.call \notin Taking \cup Giving \cup {"gpio_to_irq"}
    BY <1>12 DEF GpioDirection, TouchLines, SetTimer, ModulePut, Kfree, SetFlag, Mutex,
                 StoreKey, ClearKey, WakeUp, Test, At, Taking, Giving
  <2>3. clean' = clean /\ (Succeed(a) \/ (Fail(a) /\ s.call = "timer_pending"))
    BY <1>12 DEF GpioDirection, TouchLines, SetTimer, ModulePut, Kfree, SetFlag, Mutex,
                 StoreKey, ClearKey, WakeUp, Test, At, modVars, Accepted, Refused,
                 ExitCalls, Tests
  <2>4. Has' = Has
    BY <2>1 DEF Has
  <2> HIDE DEF lines, s
  <2>5. \A t \in Taking : Has'[t] = After(Has, s)[t]
    BY <1>2, <2>2, <2>4, Pairs DEF Taking, Giving
  <2>6. QED
    BY <1>4, <2>1, <2>2, <2>3, <2>5 DEF Carried, Instead, Owns, s
<1>13. ~(\/ TryModuleGet(a) \/ Kmalloc_(a) \/ CopyKey(a) \/ WaitEvent(a) \/ Signal(a))
  BY DEF TryModuleGet, Kmalloc_, CopyKey, WaitEvent, Signal, At, ExitCalls, Tests
<1>14. QED
  BY <1>5, <1>6, <1>7, <1>8, <1>9, <1>10, <1>11, <1>12, <1>13 DEF Statement

-----------------------------------------------------------------------------
(* What a load or an unload has still to do.                               *)

\* Loading and unloading with nothing left behind.
TidyInv ==
  /\ Base /\ drv \in TidyVersions /\ Owns
  /\ \A a \in Actors \ {admin} : run[a].todo \in Program(UserCalls)
  /\ run[admin].op = "init" => run[admin].todo \in Program(InitCalls)
  /\ run[admin].op = "exit" => run[admin].todo \in Program(ExitCalls)
  /\ clean =>
       /\ mod = "out" => \A t \in Taking : Has[t] = {}
       /\ mod = "loading" => /\ run[admin].ok
                             /\ Due(Has, irqKey, run[admin].todo, Kept(Driver[drv].init))
       /\ mod = "live" => \A t \in Taking : Has[t] \subseteq Kept(Driver[drv].init)[t]
       /\ mod = "unloading" => Due(Has, irqKey, run[admin].todo, Nothing)

LEMMA CleanBefore ==
  ASSUME NEW a \in Actors, Statement(a), clean'
  PROVE  clean
BY DEF Statement, Accepted, Refused, modVars, GpioRequest, GpioDirection, GpioFree,
       TouchLines, GpioToIrq, RequestIrq, FreeIrq, RegisterChrdev, UnregisterChrdev,
       ProvideCall, RemoveCall, SetTimer, TryModuleGet, ModulePut, Kmalloc_, Kfree, Test,
       SetFlag, Mutex, StoreKey, CopyKey, ClearKey, WaitEvent, Signal, WakeUp

LEMMA UserStatement ==
  ASSUME NEW a \in Actors, Statement(a), Now(a).call \in UserCalls
  PROVE  UNCHANGED <<drv, mod, held, handler, nodes, irqKey>>
<1>1. Now(a).call \notin {"gpio_request", "gpio_free", "request_irq", "free_irq",
                          "gpio_to_irq", "register_chrdev", "unregister_chrdev",
                          "provide_call", "remove_call"}
  BY DEF UserCalls, Taking, Giving
<1>2. ~GpioRequest(a) /\ ~GpioFree(a) /\ ~RequestIrq(a) /\ ~FreeIrq(a) /\ ~GpioToIrq(a)
      /\ ~RegisterChrdev(a) /\ ~UnregisterChrdev(a) /\ ~ProvideCall(a) /\ ~RemoveCall(a)
  BY <1>1 DEF At, GpioRequest, GpioFree, RequestIrq, FreeIrq, GpioToIrq, RegisterChrdev,
              UnregisterChrdev, ProvideCall, RemoveCall
<1>3. GpioDirection(a) => held' = held
  BY DEF GpioDirection
<1>4. QED
  BY <1>2, <1>3, StatementFrame

LEMMA UsersBegin ==
  ASSUME drv \in TidyVersions
  PROVE  /\ \A op, p : Begins(drv, op, p) /\ op \notin {"init", "exit"}
                      => p \in Program(UserCalls)
         /\ \A p : Begins(drv, "init", p) => p \in Program(InitCalls)
         /\ \A p : Begins(drv, "exit", p) => p \in Program(ExitCalls)
<1>1. Tidy(Driver[drv]) /\ drv \in DOMAIN Driver
  BY VersionsTidy DEF TidyVersions
<1>2. Driver[drv].isr \in Program(UserCalls)
  <2>1. StoreCalls \subseteq UserCalls
    BY DEF StoreCalls, UserCalls, Taking, Giving, AllCalls, MutexCalls, KeyCalls
  <2>2. Driver[drv].isr \in {<<>>, StoreUnderMutex(<<>>), StoreUnderMutex(Do("wake_up")),
                             Do("store_key") \o Do("wake_up")}
    BY <1>1, Handlers DEF Sleepless
  <2>3. {<<>>, StoreUnderMutex(<<>>), StoreUnderMutex(Do("wake_up")),
         Do("store_key") \o Do("wake_up")} \subseteq Program(UserCalls)
    BY <2>1, FilePrograms, Notation DEF StoreCalls
  <2>4. QED
    BY <2>2, <2>3
<1>3. QED
  BY <1>1, <1>2 DEF Tidy, Users, Begins

LEMMA InitTidyInv ==
  ASSUME Init, drv \in TidyVersions
  PROVE  TidyInv
<1>1. Base
  BY InitBase
<1>2. \A a \in Actors : run[a] = Idle
  BY DEF Init
<1>3. admin \in Actors
  BY DEF Actors
<1>4. \A a \in Actors : run[a].todo = <<>> /\ run[a].op = "idle"
  BY <1>2 DEF Idle
<1>5. \A t \in Taking : Has[t] = {}
  BY HasIs DEF Init, Has, Taking
<1>6. Owns /\ mod = "out"
  BY DEF Init, Owns
<1>7. QED
  BY <1>1, <1>3, <1>4, <1>5, <1>6, Notation DEF TidyInv

LEMMA AdminTidy ==
  ASSUME TidyInv, Statement(admin), clean'
  PROVE  /\ Owns'
         /\ mod = "loading" => /\ run'[admin].ok
                               /\ Due(Has', irqKey', run'[admin].todo, Kept(Driver[drv].init))
         /\ mod = "unloading" => Due(Has', irqKey', run'[admin].todo, Nothing)
         /\ mod \in {"loading", "unloading"}
<1> DEFINE p == run[admin].todo
           S == Statements(AllCalls, Nested(AllCalls))
<1>1. admin \in Actors /\ Base /\ clean
  BY CleanBefore DEF Actors, TidyInv
<1>2. p # <<>> /\ run[admin].op \in {"init", "exit"} /\ mod \in {"loading", "unloading"}
  <2>1. run[admin].todo # <<>>
    BY <1>1, NamedCalls DEF Base
  <2>2. QED
    BY <1>1, <2>1, ActorOps DEF Base, Idle
<1>3. /\ p \in Program(ExitCalls)
      /\ mod = "loading" => Now(admin).call \in InitCalls
      /\ Now(admin).call \in ExitCalls /\ Now(admin).checked \in BOOLEAN
  <2>1. ASSUME NEW C, p \in Program(C)
        PROVE  Now(admin).call \in C /\ Now(admin).checked \in BOOLEAN
    <3>1. Head(p) \in Statements(C, Nested(C))
      BY <1>2, <2>1 DEF Program
    <3>2. QED
      BY <3>1 DEF Statements, Now
  <2>2. InitCalls \subseteq ExitCalls
    BY DEF InitCalls, ExitCalls
  <2>3. Program(InitCalls) \subseteq Program(ExitCalls)
    BY <2>2, MonotoneIn
  <2>4. mod = "loading" => p \in Program(InitCalls)
    BY <1>1 DEF TidyInv, Base
  <2>5. mod = "unloading" => p \in Program(ExitCalls)
    BY <1>1 DEF TidyInv, Base
  <2>6. QED
    BY <1>2, <2>1, <2>2, <2>3, <2>4, <2>5
<1>4. admin \notin asleep
  BY <1>1, <1>3 DEF Base, ExitCalls, Tests
<1>5. p \in Seq(S)
  BY <1>1 DEF Base, Program
<1>6. PICK K : /\ Due(Has, irqKey, p, K)
               /\ mod = "loading" => K = Kept(Driver[drv].init) /\ run[admin].ok
               /\ mod = "unloading" => K = Nothing
  BY <1>1, <1>2 DEF TidyInv
<1>7. Carried(admin) \/ Instead(admin)
  <2>1. /\ Now(admin).call \in Taking => Reach(Now(admin)) \cap Has[Now(admin).call] = {}
        /\ Now(admin).call = "request_irq" => Reach(Now(admin)) \subseteq irqKey \cap Keys
    BY <1>2, <1>5, <1>6, DueNow DEF Now
  <2>2. QED
    BY <1>1, <1>3, <1>4, <2>1, TakeStatement DEF TidyInv
<1>8. Formed(run[admin]) /\ DOMAIN run = Actors
  BY <1>1 DEF Base
<1>9. CASE Carried(admin)
  <2>1. run'[admin].todo = Tail(p) /\ run'[admin].ok = run[admin].ok
    BY <1>1, <1>8, <1>9 DEF Carried, Succeed, Formed
  <2>2. "gpio_to_irq" \notin Single
    BY DEF Single, NodeCalls
  <2>3. irqKey \cup (IF Head(p).call = "gpio_to_irq" THEN Reach(Head(p)) ELSE {})
          \subseteq irqKey'
    BY <1>9, <2>2 DEF Carried, Now, Reach
  <2>4. Due(After(Has, Head(p)), irqKey', Tail(p), K)
    BY <1>2, <1>5, <1>6, <2>3, DueTail
  <2>5. Due(Has', irqKey', Tail(p), K)
    BY <1>9, <2>4, DueAlike DEF Carried, Now
  <2>6. QED
    BY <1>2, <1>6, <1>9, <2>1, <2>5 DEF Carried
<1>10. CASE Instead(admin)
  <2>1. mod = "unloading"
    BY <1>2, <1>3, <1>10 DEF Instead, InitCalls
  <2>2. Due(Has, irqKey, Head(p).fail, K)
    BY <1>2, <1>5, <1>6, <1>10, DueInstead DEF Instead, Now
  <2>3. Has' = Has /\ irqKey' = irqKey /\ Owns'
    BY <1>10 DEF Instead, Has, Owns, TidyInv
  <2>4. CASE Now(admin).checked
    <3>1. run'[admin].todo = Head(p).fail
      BY <1>1, <1>8, <1>10, <2>4 DEF Instead, Fail, Formed, Now
    <3>2. QED
      BY <1>6, <2>1, <2>2, <2>3, <3>1
  <2>5. CASE ~Now(admin).checked
    <3>1. run'[admin].todo = Tail(p)
      BY <1>1, <1>8, <1>10, <2>5 DEF Instead, Fail, Formed, Now
    <3>2. Due(After(Has, Head(p)), irqKey, Tail(p), K)
      BY <1>2, <1>5, <1>6, <1>10, DueTail DEF Instead, Now
    <3>3. \A t \in Taking : Has[t] = After(Has, Head(p))[t]
      BY <1>10, Pairs DEF Instead, After, Now, Taking
    <3>4. Due(Has, irqKey, Tail(p), K)
      BY <3>2, <3>3, DueAlike
    <3>5. QED
      BY <1>6, <2>1, <2>3, <3>1, <3>4
  <2>6. QED
    BY <2>4, <2>5
<1>11. QED
  BY <1>7, <1>9, <1>10

LEMMA NextTidyInv ==
  ASSUME TidyInv, [Next]_vars
  PROVE  TidyInv'
<1> DEFINE K == Kept(Driver[drv].init)
<1>1. Base /\ drv' = drv /\ drv \in TidyVersions /\ drv \in DOMAIN Driver /\ admin \in Actors
  BY StatementFrame, OtherFrame DEF vars, modVars, TidyInv, TidyVersions, Actors
<1>2. Base'
  BY <1>1, BeginsKnown, NextBase
<1>3. ASSUME NEW a \in Actors \ {admin} PROVE run'[a].todo \in Program(UserCalls)
  <2>1. \A op \in OpsOf(a) \ {"idle"} : op \notin {"init", "exit"}
    BY <1>3, ActorOps DEF Actors
  <2>2. QED
    BY <1>1, <1>3, <2>1, UsersBegin, StaysIn, ProgramClosed DEF TidyInv
<1>4. /\ run'[admin].op = "init" => run'[admin].todo \in Program(InitCalls)
      /\ run'[admin].op = "exit" => run'[admin].todo \in Program(ExitCalls)
  BY <1>1, UsersBegin, StaysInOp, ProgramClosed DEF TidyInv, Ops
<1> DEFINE Clean == clean =>
       /\ mod = "out" => \A t \in Taking : Has[t] = {}
       /\ mod = "loading" => run[admin].ok /\ Due(Has, irqKey, run[admin].todo, K)
       /\ mod = "live" => \A t \in Taking : Has[t] \subseteq K[t]
       /\ mod = "unloading" => Due(Has, irqKey, run[admin].todo, Nothing)
<1>5. Owns'
  <2>1. CASE UNCHANGED vars
    BY <2>1 DEF vars, irqVars, Owns, TidyInv
  <2>2. ASSUME NEW a \in Actors, Statement(a) PROVE Owns'
    <3>1. handler' = handler \/ RequestIrq(a) \/ FreeIrq(a)
      BY <2>2, StatementFrame DEF GpioToIrq
    <3>2. Box(a) = kernel
      BY <1>1, OwnHandlers
    <3>3. QED
      BY <3>1, <3>2 DEF Owns, TidyInv, RequestIrq, FreeIrq
  <2>3. CASE Next /\ \A a \in Actors : ~Statement(a)
    BY <2>3, OtherFrame DEF Owns, TidyInv
  <2>4. QED
    BY <2>1, <2>2, <2>3
<1>6. Clean'
  <2> SUFFICES ASSUME clean' PROVE Clean'
    OBVIOUS
  <2>1. CASE UNCHANGED vars
    BY <2>1 DEF vars, modVars, lineVars, irqVars, Has, TidyInv
  <2>2. CASE Statement(admin)
    BY <1>1, <2>2, AdminTidy, StatementFrame
  <2>3. ASSUME NEW a \in Actors \ {admin}, Statement(a) PROVE Clean'
    <3>1. run'[admin] = run[admin] /\ clean
      BY <1>1, <2>3, StatementRun, CleanBefore DEF Alone, Same
    <3>2. run[a].todo # <<>>
      BY <1>1, <2>3, NamedCalls DEF Base
    <3>3. Now(a).call \in UserCalls
      BY <2>3, <3>2, ProgramSteps DEF TidyInv, Now
    <3>4. UNCHANGED <<drv, mod, held, handler, nodes, irqKey>>
      BY <2>3, <3>3, UserStatement
    <3>5. Has' = Has
      BY <3>4 DEF Has
    <3>6. QED
      BY <3>1, <3>4, <3>5 DEF TidyInv
  <2>4. CASE Next /\ \A a \in Actors : ~Statement(a)
    <3>1. clean /\ Has' = Has /\ (irqKey' = irqKey \/ Insmod)
      BY <2>4, OtherFrame DEF Has
    <3>2. CASE mod' = mod /\ run'[admin].op = run[admin].op
      <4>1. ~Insmod
        BY <1>1, <3>2 DEF Insmod
      <4>2. mod \in {"loading", "unloading"} => run'[admin] = run[admin]
        <5>1. PICK a \in Actors : Alone(a) /\ (Starts(a) \/ Ends(a))
          BY <1>1, <2>4, OtherRun
        <5>2. CASE a = admin
          BY <1>1, <3>2, <5>1, <5>2 DEF Starts, Ends, Idle, Base
        <5>3. QED
          BY <1>1, <5>1, <5>2 DEF Alone, Same
      <4>3. QED
        BY <1>1, <3>1, <3>2, <4>1, <4>2 DEF TidyInv
    <3>3. CASE Insmod /\ mod = "out" /\ mod' = "loading"
      <4>1. run'[admin].ok /\ run'[admin].todo = Driver[drv].init
        BY <1>1, <3>3 DEF Insmod, Start, Base
      <4>2. Undoes(Driver[drv].init, Driver[drv].exit)
        BY <1>1, VersionsTidy DEF Tidy
      <4>3. Due(Has, irqKey', Driver[drv].init, K)
        BY <3>1, <3>3, <4>2, DueBegins DEF TidyInv
      <4>4. QED
        BY <1>1, <3>1, <3>3, <4>1, <4>3
    <3>4. CASE Rmmod /\ mod = "live" /\ mod' = "unloading"
      <4>1. run'[admin].todo = Driver[drv].exit
        BY <1>1, <3>4 DEF Rmmod, Start, Base
      <4>2. Undoes(Driver[drv].init, Driver[drv].exit)
        BY <1>1, VersionsTidy DEF Tidy
      <4>3. Due(Has, irqKey', Driver[drv].exit, Nothing)
        BY <3>1, <3>4, <4>2, DueBegins DEF TidyInv
      <4>4. QED
        BY <1>1, <3>1, <3>4, <4>1, <4>3
    <3>5. CASE /\ InitReturns /\ mod = "loading"
               /\ mod' = IF run[admin].ok THEN "live" ELSE "out"
      <4>1. run[admin].ok /\ Due(Has, irqKey, run[admin].todo, K)
        BY <3>1, <3>5 DEF TidyInv
      <4>2. run[admin].todo = <<>>
        BY <3>5 DEF InitReturns, Done
      <4>3. \A t \in Taking : Has[t] \subseteq K[t]
        BY <4>1, <4>2, DueEnds
      <4>4. QED
        BY <1>1, <3>1, <3>5, <4>1, <4>3
    <3>6. CASE ExitReturns /\ mod = "unloading" /\ mod' = "out"
      <4>1. Due(Has, irqKey, run[admin].todo, Nothing) /\ run[admin].todo = <<>>
        BY <3>1, <3>6 DEF TidyInv, ExitReturns, Done
      <4>2. \A t \in Taking : Has[t] \subseteq Nothing[t]
        BY <4>1, DueEnds
      <4>3. QED
        BY <3>1, <3>6, <4>2 DEF Nothing
    <3>7. QED
      BY <1>1, <2>4, <3>2, <3>3, <3>4, <3>5, <3>6, ModStep
  <2>5. QED
    BY <2>1, <2>2, <2>3, <2>4
<1>7. QED
  BY <1>1, <1>2, <1>3, <1>4, <1>5, <1>6 DEF TidyInv

-----------------------------------------------------------------------------
(* An unload leaves nothing behind.                                        *)

\* The system call is never unloaded and its load cannot fail.
CallInv ==
  /\ Base /\ drv = "Mysyscall" /\ mod # "unloading"
  /\ mod = "loading" => run[admin].ok /\ run[admin].todo \in Program({"provide_call"})
  /\ mod = "out" => held = {} /\ nodes = {} /\ \A k \in Keys : handler[k] = none

LEMMA InitCallInv ==
  ASSUME Init, drv = "Mysyscall"
  PROVE  CallInv
BY InitBase DEF Init, CallInv

LEMMA NextCallInv ==
  ASSUME CallInv, [Next]_vars
  PROVE  CallInv'
<1>1. Base /\ drv = "Mysyscall" /\ drv' = drv /\ drv \in DOMAIN Driver /\ admin \in Actors
  BY StatementFrame, OtherFrame, DriverIs DEF vars, modVars, CallInv, Actors
<1>2. Base'
  BY <1>1, BeginsKnown, NextBase
<1>3. Driver[drv].exit = <<>> /\ Driver[drv].init \in Program({"provide_call"})
  BY <1>1, DriverIs, MysyscallIn DEF Mysyscall, Plain
<1>4. ~Rmmod
  BY <1>3 DEF Rmmod
<1>5. mod' # "unloading"
  <2>1. CASE UNCHANGED vars
    BY <2>1 DEF vars, modVars, CallInv
  <2>2. CASE Next
    BY <1>1, <1>4, <2>2, ModStep DEF CallInv
  <2>3. QED
    BY <2>1, <2>2
<1>6. ASSUME mod' = "loading"
      PROVE  run'[admin].ok /\ run'[admin].todo \in Program({"provide_call"})
  <2>1. run'[admin].op = "init"
    BY <1>2, <1>6 DEF Base
  <2>2. \A p : Begins(drv, "init", p) => p \in Program({"provide_call"})
    BY <1>3 DEF Begins
  <2>3. run[admin].op = "init" => run[admin].todo \in Program({"provide_call"})
          /\ run[admin].ok
    BY <1>1 DEF CallInv, Base
  <2>4. run'[admin].todo \in Program({"provide_call"})
    BY <1>1, <2>1, <2>2, <2>3, StaysInOp, ProgramClosed DEF Ops
  <2>5. Steps(admin) /\ Formed(run[admin])
    BY <1>1, NextRun DEF Base
  <2>6. ~Fails(admin)
    <3>1. ASSUME Fails(admin) PROVE FALSE
      <4>1. run'[admin].op = run[admin].op
        BY <2>5, <3>1 DEF Fails, Formed
      <4>2. run[admin].todo \in Program({"provide_call"}) /\ run[admin].todo # <<>>
        BY <2>1, <2>3, <3>1, <4>1 DEF Fails
      <4>3. Head(run[admin].todo).call \in {"provide_call"}
        BY <4>2, ProgramSteps
      <4>4. QED
        BY <3>1, <4>3 DEF Fails, MayFail, Now
    <3>2. QED
      BY <3>1
  <2>7. run'[admin].ok
    <3>1. CASE Same(admin) \/ Advances(admin) \/ Copies(admin)
      <4>1. run'[admin].op = run[admin].op /\ run'[admin].ok = run[admin].ok
        BY <2>5, <3>1 DEF Same, Advances, Copies, Formed
      <4>2. QED
        BY <2>1, <2>3, <4>1
    <3>2. CASE Starts(admin)
      BY <3>2 DEF Starts
    <3>3. CASE Ends(admin)
      BY <2>1, <3>3 DEF Ends, Idle
    <3>4. QED
      BY <2>5, <2>6, <3>1, <3>2, <3>3 DEF Steps
  <2>8. QED
    BY <2>4, <2>7
<1>7. ASSUME mod' = "out"
      PROVE  held' = {} /\ nodes' = {} /\ \A k \in Keys : handler'[k] = none
  <2>1. mod = "out"
    <3>1. CASE UNCHANGED vars
      BY <1>7, <3>1 DEF vars, modVars
    <3>2. CASE Next
      BY <1>1, <1>7, <3>2, ModStep DEF CallInv
    <3>3. QED
      BY <3>1, <3>2
  <2>2. UNCHANGED <<held, nodes, handler>>
    <3>1. CASE UNCHANGED vars
      BY <3>1 DEF vars, lineVars, irqVars
    <3>2. ASSUME NEW a \in Actors, Statement(a) PROVE UNCHANGED <<held, nodes, handler>>
      <4>1. Signal(a)
        BY <2>1, <3>2, StatementFrame
      <4>2. QED
        BY <4>1 DEF Signal, lineVars, irqVars
    <3>3. CASE Next /\ \A a \in Actors : ~Statement(a)
      BY <3>3, OtherFrame
    <3>4. QED
      BY <3>1, <3>2, <3>3
  <2>3. QED
    BY <2>1, <2>2 DEF CallInv
<1>8. QED
  BY <1>1, <1>2, <1>5, <1>6, <1>7 DEF CallInv

LEMMA NodesAre ==
  ASSUME nodes \subseteq {"chrdev", "call"}, [Next]_vars
  PROVE  nodes' \subseteq {"chrdev", "call"}
<1>1. CASE UNCHANGED vars
  BY <1>1 DEF vars
<1>2. ASSUME NEW a \in Actors, Statement(a) PROVE nodes' \subseteq {"chrdev", "call"}
  BY <1>2, StatementFrame DEF RegisterChrdev, UnregisterChrdev, ProvideCall, RemoveCall
<1>3. CASE Next /\ \A a \in Actors : ~Statement(a)
  BY <1>3, OtherFrame
<1>4. QED
  BY <1>1, <1>2, <1>3

\* No file is left to a module that has gone without a foreign failure.
LeftInv ==
  /\ drv \in TidyVersions => TidyInv
  /\ drv = "Mysyscall" => CallInv
  /\ HoldInv /\ nodes \subseteq {"chrdev", "call"}
  /\ drv \in CountsUsersOnceLive /\ clean /\ mod = "out" =>
       \A f \in Files : files[f] = "closed"

LEMMA NextLeftInv ==
  ASSUME LeftInv, [Next]_vars
  PROVE  LeftInv'
<1>1. drv' = drv
  BY StatementFrame, OtherFrame DEF vars, modVars
<1>2. /\ drv \in TidyVersions => TidyInv'
      /\ drv = "Mysyscall" => CallInv'
      /\ HoldInv' /\ nodes' \subseteq {"chrdev", "call"}
  BY NextTidyInv, NextCallInv, NextHoldInv, NodesAre DEF LeftInv
<1>3. ASSUME drv \in CountsUsersOnceLive, clean', mod' = "out", NEW f \in Files
      PROVE  files'[f] = "closed"
  <2>1. TidyInv /\ HoldShape /\ CountInv /\ Base /\ drv \in Owners /\ drv \notin Ioctl
    BY <1>3, DriverIs DEF LeftInv, TidyVersions, HoldInv, HoldVersions,
                          CountsUsersOnceLive, Owners, Boxed, TidyInv, Ioctl
  <2>2. clean
    BY <1>3, CleanBefore, OtherFrame DEF vars, modVars
  <2>3. CASE mod = "out"
    <3>1. \A g \in Files : files[g] = "closed"
      BY <1>3, <2>2, <2>3 DEF LeftInv
    <3>2. \A t \in Threads : run[t].op \notin {"open", "release"}
      BY <2>1, <3>1, NoFileNobody
    <3>3. files' = files
      <4>1. CASE UNCHANGED vars
        BY <4>1 DEF vars, fileVars
      <4>2. CASE \E a \in Actors : Statement(a)
        BY <4>2, StatementFrame
      <4>3. CASE Next /\ \A a \in Actors : ~Statement(a)
        BY <2>3, <3>2, <4>3, OtherFrame DEF OpenReturns, ReleaseReturns, Open, Close, Done
      <4>4. QED
        BY <4>1, <4>2, <4>3
    <3>4. QED
      BY <3>1, <3>3
  <2>4. CASE mod # "out"
    <3>1. mod # mod' /\ Next
      BY <1>3, <2>4 DEF vars, modVars
    <3>2. ExitReturns /\ mod = "unloading"
      BY <1>3, <2>1, <2>2, <2>4, <3>1, ModStep DEF TidyInv
    <3>3. Nobody
      BY <2>1, <3>2 DEF CountInv
    <3>4. files[f] = "closed"
      BY <2>1, <3>3 DEF Nobody, Owned
    <3>5. QED
      BY <3>2, <3>4 DEF ExitReturns, fileVars
  <2>5. QED
    BY <2>3, <2>4
<1>4. QED
  BY <1>1, <1>2, <1>3 DEF LeftInv

LEMMA LeavesNothing ==
  ASSUME LeftInv, drv \in DOMAIN Driver
  PROVE  UnloadGivesBack
<1> SUFFICES ASSUME clean, mod = "out", drv \notin {"P306", "P306Ledkey", "Kmalloc"}
             PROVE  /\ held = {} /\ nodes = {} /\ \A k \in Keys : handler[k] = none
                    /\ drv \in CountsUsers \cup CountsUsersOnceLive =>
                         \A f \in Files : files[f] # "open"
  BY DEF UnloadGivesBack
<1>1. CASE drv = "Mysyscall"
  BY <1>1 DEF LeftInv, CallInv, CountsUsers, CountsUsersOnceLive
<1>2. CASE drv # "Mysyscall"
  <2>1. drv \in TidyVersions /\ TidyInv
    BY <1>2 DEF LeftInv, TidyVersions
  <2>2. \A t \in Taking : Has[t] = {}
    BY <2>1 DEF TidyInv
  <2>3. Has["gpio_request"] = {} /\ Has["request_irq"] = {} /\ Has["register_chrdev"] = {}
        /\ Has["provide_call"] = {}
    BY <2>2 DEF Taking
  <2>4. held = {} /\ "chrdev" \notin nodes /\ "call" \notin nodes
          /\ \A k \in Keys : handler[k] = none
    BY <2>3, HasIs DEF Has
  <2>5. nodes = {}
    BY <2>4 DEF LeftInv
  <2>6. drv \in CountsUsers \cup CountsUsersOnceLive => \A f \in Files : files[f] # "open"
    BY HoldsModule DEF LeftInv, OpenFileHoldsModule
  <2>7. QED
    BY <2>4, <2>5, <2>6
<1>3. QED
  BY <1>1, <1>2

\* However often the driver is loaded, used and unloaded, as long as no request has
\* failed for a foreign reason nothing of it stays behind: every statement of init
\* that takes something is answered in exit, and a count keeps rmmod out while a file
\* is open.  The two ioctl drivers leave their lines to their callers, and the
\* allocating driver's open requests lines itself; the other 23 versions are meant.
THEOREM UnloadGivesEverythingBack == Spec => []UnloadGivesBack
<1> DEFINE I == drv \in DOMAIN Driver /\ LeftInv
<1>1. Init => I
  BY InitTidyInv, InitCallInv, InitHoldInv, VersionAssumption DEF Init, LeftInv
<1>2. I /\ [Next]_vars => I'
  <2>1. [Next]_vars => drv' = drv
    BY StatementFrame, OtherFrame DEF vars, modVars
  <2>2. QED
    BY <2>1, NextLeftInv
<1>3. I => UnloadGivesBack
  BY LeavesNothing
<1>4. QED
  BY <1>1, <1>2, <1>3, PTL DEF Spec

-----------------------------------------------------------------------------
(* Lines that are held only by whoever is using them.                      *)

\* The versions nothing but init and exit, or the system call, uses the lines of.
Borrowers == {"P122", "P122Param", "P106", "Mysyscall"}

\* The lines a program uses or gives back without asking for them itself.
Needs(p) == (Of(p, "touch") \cup Of(p, "gpio_free")) \ Of(p, "gpio_request")

\* Every result is looked at; what is done when a call fails needs no line the rest
\* of the program does not need.
Bare(p) == \A n \in DOMAIN p : p[n].checked /\ p[n].fail = <<>>
Backed(p) ==
  \A n \in DOMAIN p :
    /\ p[n].checked /\ Orderly(p[n].fail) /\ Bare(p[n].fail)
    /\ \A l \in Needs(p[n].fail) :
         /\ \E m \in DOMAIN p : /\ m >= n /\ p[m].call \in {"touch", "gpio_free"}
                                /\ l \in Reach(p[m])
         /\ \A m \in DOMAIN p : m >= n /\ p[m].call = "gpio_request" => l \notin Reach(p[m])
Sturdy(p) == Orderly(p) /\ Backed(p)

LEMMA BareBacked ==
  ASSUME NEW p, Bare(p)
  PROVE  Backed(p)
<1>1. Needs(<<>>) = {} /\ Orderly(<<>>) /\ Bare(<<>>)
  BY OfNothing DEF Needs, Bare
<1>2. QED
  BY <1>1 DEF Bare, Backed

LEMMA BareConcat ==
  ASSUME NEW S, NEW p \in Seq(S), NEW q \in Seq(S), Bare(p), Bare(q)
  PROVE  Bare(p \o q)
<1>1. \A n \in DOMAIN (p \o q) : \/ n \in DOMAIN p /\ (p \o q)[n] = p[n]
                                 \/ n - Len(p) \in DOMAIN q /\ (p \o q)[n] = q[n - Len(p)]
  BY ConcatParts
<1>2. QED
  BY <1>1 DEF Bare

LEMMA BackedConcat ==
  ASSUME NEW S, NEW p \in Seq(S), NEW q \in Seq(S), Backed(q),
         \A n \in DOMAIN p : /\ p[n].checked /\ Orderly(p[n].fail) /\ Bare(p[n].fail)
                             /\ Needs(p[n].fail) \subseteq Needs(q) \ Of(p, "gpio_request")
  PROVE  Backed(p \o q)
<1> DEFINE r == p \o q
<1>1. /\ \A n \in DOMAIN r : \/ n \in DOMAIN p /\ r[n] = p[n]
                             \/ n > Len(p) /\ n - Len(p) \in DOMAIN q /\ r[n] = q[n - Len(p)]
      /\ DOMAIN r \subseteq Nat
  BY ConcatParts
<1>2. /\ \A m \in DOMAIN q : Len(p) + m \in DOMAIN r /\ r[Len(p) + m] = q[m]
      /\ \A n \in DOMAIN p : n <= Len(p) /\ n \in Nat
      /\ DOMAIN q \subseteq Nat /\ Len(p) \in Nat
  OBVIOUS
<1> HIDE DEF r
<1>3. ASSUME NEW n \in DOMAIN r, n \in DOMAIN p, r[n] = p[n], NEW l \in Needs(r[n].fail)
      PROVE  /\ \E m \in DOMAIN r : /\ m >= n /\ r[m].call \in {"touch", "gpio_free"}
                                    /\ l \in Reach(r[m])
             /\ \A m \in DOMAIN r : m >= n /\ r[m].call = "gpio_request" => l \notin Reach(r[m])
  <2>1. l \in Needs(q) /\ l \notin Of(p, "gpio_request")
    BY <1>3
  <2>2. PICK m \in DOMAIN q : q[m].call \in {"touch", "gpio_free"} /\ l \in Reach(q[m])
    BY <2>1, OfMember DEF Needs
  <2>3. Len(p) + m >= n /\ Len(p) + m \in DOMAIN r /\ r[Len(p) + m] = q[m]
    BY <1>2, <1>3
  <2>4. \A k \in DOMAIN r : r[k].call = "gpio_request" => l \notin Reach(r[k])
    BY <1>1, <2>1, OfMember DEF Needs
  <2>5. QED
    BY <2>2, <2>3, <2>4
<1>4. ASSUME NEW n \in DOMAIN r, n > Len(p), n - Len(p) \in DOMAIN q, r[n] = q[n - Len(p)],
             NEW l \in Needs(r[n].fail)
      PROVE  /\ \E m \in DOMAIN r : /\ m >= n /\ r[m].call \in {"touch", "gpio_free"}
                                    /\ l \in Reach(r[m])
             /\ \A m \in DOMAIN r : m >= n /\ r[m].call = "gpio_request" => l \notin Reach(r[m])
  <2>1. /\ \E m \in DOMAIN q : /\ m >= n - Len(p) /\ q[m].call \in {"touch", "gpio_free"}
                               /\ l \in Reach(q[m])
        /\ \A m \in DOMAIN q : m >= n - Len(p) /\ q[m].call = "gpio_request" =>
                                 l \notin Reach(q[m])
    BY <1>4 DEF Backed
  <2>2. PICK m \in DOMAIN q : /\ m >= n - Len(p) /\ q[m].call \in {"touch", "gpio_free"}
                              /\ l \in Reach(q[m])
    BY <2>1
  <2>3. Len(p) + m >= n /\ Len(p) + m \in DOMAIN r /\ r[Len(p) + m] = q[m]
    BY <1>1, <1>2, <2>2
  <2>4. ASSUME NEW k \in DOMAIN r, k >= n, r[k].call = "gpio_request"
        PROVE  l \notin Reach(r[k])
    <3>1. k > Len(p)
      BY <1>1, <1>2, <1>4, <2>4
    <3>2. k \notin DOMAIN p
      BY <1>1, <1>2, <3>1
    <3>3. k - Len(p) \in DOMAIN q /\ r[k] = q[k - Len(p)] /\ k - Len(p) >= n - Len(p)
      BY <1>1, <1>2, <2>4, <3>2
    <3>4. QED
      BY <2>1, <2>4, <3>3
  <2>5. QED
    BY <2>2, <2>3, <2>4
<1>5. QED
  BY <1>1, <1>3, <1>4 DEF Backed, r

\* What the statements of a sturdy program do to the lines it needs.
LEMMA SturdySteps ==
  ASSUME NEW S, NEW p \in Seq(S), p # <<>>, Sturdy(p)
  PROVE  /\ Head(p).checked /\ Sturdy(Tail(p))
         /\ Sturdy(Head(p).fail) /\ Needs(Head(p).fail) \subseteq Needs(p)
         /\ Head(p).call \in {"touch", "gpio_free"} => Reach(Head(p)) \subseteq Needs(p)
         /\ Head(p).call = "gpio_request" => Needs(Tail(p)) \subseteq Needs(p) \cup Reach(Head(p))
         /\ Head(p).call # "gpio_request" => Needs(Tail(p)) \subseteq Needs(p)
         /\ Head(p).call = "gpio_free" => Needs(Tail(p)) \cap Reach(Head(p)) = {}
<1> DEFINE q == Tail(p)
           s == Head(p)
<1>1. /\ DOMAIN p = 1..Len(p) /\ Len(p) \in Nat /\ 1 \in DOMAIN p /\ p[1] = s
      /\ DOMAIN q = 1..(Len(p) - 1)
      /\ \A n \in DOMAIN q : q[n] = p[n + 1] /\ n + 1 \in DOMAIN p
      /\ \A n \in DOMAIN p : n # 1 => n - 1 \in DOMAIN q /\ q[n - 1] = p[n]
  OBVIOUS
<1>2. /\ Orderly(q)
      /\ \A c : Of(p, c) = Of(q, c) \cup (IF s.call = c THEN Reach(s) ELSE {})
      /\ \A d : Never(s.call, d) => Reach(s) \cap Of(q, d) = {}
  BY OrderlyTail DEF Sturdy
<1> HIDE DEF q, s
<1>3. s.checked /\ Orderly(s.fail) /\ Bare(s.fail)
  BY <1>1 DEF Sturdy, Backed
<1>4. Needs(s.fail) \subseteq Needs(p)
  <2>1. ASSUME NEW l \in Needs(s.fail) PROVE l \in Needs(p)
    <3>1. /\ \E m \in DOMAIN p : p[m].call \in {"touch", "gpio_free"} /\ l \in Reach(p[m])
          /\ \A m \in DOMAIN p : m >= 1 /\ p[m].call = "gpio_request" => l \notin Reach(p[m])
      BY <1>1, <2>1 DEF Sturdy, Backed
    <3>2. \A m \in DOMAIN p : m >= 1
      BY <1>1
    <3>3. l \in Of(p, "touch") \cup Of(p, "gpio_free")
      BY <3>1, OfMember
    <3>4. l \notin Of(p, "gpio_request")
      BY <3>1, <3>2, OfMember
    <3>5. QED
      BY <3>3, <3>4 DEF Needs
  <2>2. QED
    BY <2>1
<1>5. Backed(q)
  <2>1. ASSUME NEW n \in DOMAIN q, NEW l \in Needs(q[n].fail)
        PROVE  /\ \E m \in DOMAIN q : /\ m >= n /\ q[m].call \in {"touch", "gpio_free"}
                                      /\ l \in Reach(q[m])
               /\ \A m \in DOMAIN q : m >= n /\ q[m].call = "gpio_request" => l \notin Reach(q[m])
    <3>1. q[n] = p[n + 1] /\ n + 1 \in DOMAIN p /\ n \in Nat
      BY <1>1
    <3>2. PICK m \in DOMAIN p : /\ m >= n + 1 /\ p[m].call \in {"touch", "gpio_free"}
                                /\ l \in Reach(p[m])
      BY <2>1, <3>1 DEF Sturdy, Backed
    <3>3. m - 1 \in DOMAIN q /\ q[m - 1] = p[m] /\ m - 1 >= n
      BY <1>1, <3>1, <3>2
    <3>4. ASSUME NEW k \in DOMAIN q, k >= n, q[k].call = "gpio_request"
          PROVE  l \notin Reach(q[k])
      <4>1. k + 1 \in DOMAIN p /\ q[k] = p[k + 1] /\ k + 1 >= n + 1
        BY <1>1, <3>1, <3>4
      <4>2. QED
        BY <2>1, <3>1, <3>4, <4>1 DEF Sturdy, Backed
    <3>5. QED
      BY <3>2, <3>3, <3>4
  <2>2. \A n \in DOMAIN q : q[n].checked /\ Orderly(q[n].fail) /\ Bare(q[n].fail)
    BY <1>1 DEF Sturdy, Backed
  <2>3. QED
    BY <2>1, <2>2 DEF Backed
<1>6. Sturdy(s.fail)
  BY <1>3, BareBacked DEF Sturdy
<1>7. /\ s.call \in {"touch", "gpio_free"} => Reach(s) \subseteq Needs(p)
      /\ s.call = "gpio_request" => Needs(q) \subseteq Needs(p) \cup Reach(s)
      /\ s.call # "gpio_request" => Needs(q) \subseteq Needs(p)
      /\ s.call = "gpio_free" => Needs(q) \cap Reach(s) = {}
  <2>1. /\ Never("touch", "gpio_request") /\ Never("gpio_free", "gpio_request")
        /\ Never("gpio_free", "touch") /\ Never("gpio_free", "gpio_free")
    BY Pairs DEF Never, Taking
  <2>2. QED
    BY <1>2, <2>1 DEF Needs
<1>8. QED
  BY <1>2, <1>3, <1>4, <1>5, <1>6, <1>7 DEF Sturdy, q, s

LEMMA BareParts ==
  /\ Bare(TwoLoopLines.ledInit) /\ Bare(TwoLoopLines.keyInit)
  /\ Bare(TwoLoopLines.ledFree) /\ Bare(TwoLoopLines.keyFree)
  /\ \A L : Bare(Touch(L))
  /\ \A c : Bare(Do(c))
  /\ Bare(<<>>)
<1>1. \A table, calls : Bare(ForEach(table, calls))
  BY DEF Bare, ForEach, On
<1>2. \A table, c : \A d \in Directions :
        ForEach(table, <<c>>) \in Program(AllCalls) /\ ForEach(table, <<d>>) \in Program(AllCalls)
        => Bare(ForEach(table, <<c>>) \o ForEach(table, <<d>>))
  BY <1>1, BareConcat DEF Program
<1>3. \A table \in {gpioLed, gpioKey} :
        \A c \in {"gpio_request", "gpio_direction_output", "gpio_direction_input"} :
          ForEach(table, <<c>>) \in Program(AllCalls)
  BY Notation DEF AllCalls, LineCalls
<1>4. Bare(TwoLoopLines.ledInit) /\ Bare(TwoLoopLines.keyInit)
  BY <1>2, <1>3 DEF TwoLoopLines, RequestThenDirect, Directions
<1>5. Bare(TwoLoopLines.ledFree) /\ Bare(TwoLoopLines.keyFree)
  BY <1>1 DEF TwoLoopLines, FreeAll
<1>6. \A L, c : Bare(<<On(L, c)>>)
  BY DEF Bare, On
<1>7. QED
  BY <1>4, <1>5, <1>6 DEF Touch, Do, Bare

\* What the parts of the programs are made for.
LEMMA PartsOf ==
  LET l == TwoLoopLines.ledInit
      k == TwoLoopLines.keyInit
      lf == TwoLoopLines.ledFree
      kf == TwoLoopLines.keyFree
  IN  /\ {l, k, lf, kf, Touch(Leds), Touch(Keys)} \subseteq Simple(AllCalls)
      /\ Block(l, "gpio_request", Leds) /\ Block(k, "gpio_request", Keys)
      /\ Block(lf, "gpio_free", Leds) /\ Block(kf, "gpio_free", Keys)
      /\ Block(Touch(Leds), "touch", Leds) /\ Block(Touch(Keys), "touch", Keys)
      /\ l \in LedInits /\ k \in KeyInits /\ lf \in LedFrees /\ kf \in KeyFrees
<1>1. RequestCalls \cup {"gpio_free", "touch"} \subseteq AllCalls
  BY DEF RequestCalls, AllCalls, LineCalls
<1>2. QED
  BY <1>1, SharedPrograms, Notation, Blocks DEF LedInits, KeyInits, LedFrees, KeyFrees

\* The lines a program asks for, uses and gives back.
Uses(p, asked, used, freed) ==
  /\ p \in Program(AllCalls)
  /\ Of(p, "gpio_request") = asked /\ Of(p, "touch") = used /\ Of(p, "gpio_free") = freed

Made(p, asked, used, freed) == Uses(p, asked, used, freed) /\ Bare(p)

LEMMA UsesConcat ==
  ASSUME NEW p, NEW q, NEW A, NEW U, NEW F, NEW B, NEW V, NEW G, Uses(p, A, U, F), Uses(q, B, V, G),
         NEW C, NEW W, NEW H, C = A \cup B, W = U \cup V, H = F \cup G
  PROVE  Uses(p \o q, C, W, H) /\ (Bare(p) /\ Bare(q) => Made(p \o q, C, W, H))
<1>1. \A c : Of(p \o q, c) = Of(p, c) \cup Of(q, c)
  BY OfJoined DEF Uses
<1>2. p \o q \in Program(AllCalls)
  BY Notation DEF Uses
<1>3. Uses(p \o q, C, W, H)
  BY <1>1, <1>2 DEF Uses
<1>4. Bare(p) /\ Bare(q) => Bare(p \o q)
  BY BareConcat DEF Uses, Program
<1>5. QED
  BY <1>3, <1>4 DEF Made

LEMMA BlockUses ==
  ASSUME NEW p, NEW L
  PROVE  /\ Block(p, "gpio_request", L) => Uses(p, L, {}, {})
         /\ Block(p, "touch", L) => Uses(p, {}, L, {})
         /\ Block(p, "gpio_free", L) => Uses(p, {}, {}, L)
BY NamesTelling DEF Block, Uses

\* init and exit of p122 and p106, and the system call.
LEMMA P122Sturdy ==
  /\ Sturdy(P122.init) /\ Uses(P122.init, Lines, Lines, {})
  /\ Sturdy(P122.exit) /\ Uses(P122.exit, {}, Lines, Lines)
<1> DEFINE l == TwoLoopLines.ledInit
           k == TwoLoopLines.keyInit
           lf == TwoLoopLines.ledFree
           kf == TwoLoopLines.keyFree
           t == Touch(Keys)
           u == Touch(Leds)
           p == l \o k \o t \o u
           q == t \o u \o lf \o kf
<1>1. P122.init = p /\ P122.exit = q
  BY DEF P122, Version, Plain, P122Load, P122Gpio
<1>2. /\ Uses(l, Leds, {}, {}) /\ Uses(k, Keys, {}, {}) /\ Uses(lf, {}, {}, Leds)
      /\ Uses(kf, {}, {}, Keys) /\ Uses(t, {}, Keys, {}) /\ Uses(u, {}, Leds, {})
      /\ Bare(l) /\ Bare(k) /\ Bare(lf) /\ Bare(kf) /\ Bare(t) /\ Bare(u)
  BY PartsOf, BlockUses, BareParts
<1>3. Orderly(p) /\ Orderly(q)
  BY PartsOf, P122Undoes DEF Undoes
<1> HIDE DEF l, k, lf, kf, t, u
<1>4. Made(l \o k, Lines, {}, {}) /\ Made(t \o u, {}, Lines, {})
  BY <1>2, UsesConcat DEF Lines
<1>5. Made(l \o k \o t, Lines, Keys, {}) /\ Made(t \o u \o lf, {}, Lines, Leds)
  BY <1>2, <1>4, UsesConcat DEF Made
<1>6. Made(p, Lines, Lines, {}) /\ Made(q, {}, Lines, Lines)
  BY <1>2, <1>5, UsesConcat DEF Lines, Made
<1>7. QED
  BY <1>1, <1>3, <1>6, BareBacked DEF Sturdy, Made

LEMMA HandledBacked ==
  ASSUME NEW k \in Program(AllCalls), Bare(k), NEW f \in Simple(AllCalls), Orderly(f), Bare(f),
         NEW m \in Program(AllCalls), Backed(m), Needs(f) \subseteq Needs(m) \ Of(k, "gpio_request")
  PROVE  Backed(OnFailure(k, f) \o m)
<1> DEFINE o == OnFailure(k, f)
<1>1. o \in Program(AllCalls) /\ Of(o, "gpio_request") = Of(k, "gpio_request")
  BY Notation, WrappedTurn
<1>2. \A n \in DOMAIN o : o[n].checked /\ o[n].fail = f
  <2>1. \A n \in DOMAIN k : k[n] \in Statements(AllCalls, Nested(AllCalls)) /\ k[n].checked
    BY DEF Program, Bare
  <2>2. QED
    BY <2>1 DEF OnFailure, Statements
<1> HIDE DEF o
<1>3. QED
  BY <1>1, <1>2, BackedConcat DEF Program, o

LEMMA Regroup ==
  ASSUME NEW C, NEW a \in Seq(C), NEW b \in Seq(C), NEW c \in Seq(C),
         NEW d \in Seq(C), NEW e \in Seq(C)
  PROVE  /\ a \o b \o c \o d = a \o (b \o c \o d)
         /\ a \o b \o c \o d \o e = a \o (b \o c \o d \o e)
<1> DEFINE Then(x, y) == x \o y
<1>1. \A x, y, z \in Seq(C) : Then(Then(x, y), z) = Then(x, Then(y, z))
  OBVIOUS
<1>2. \A x, y \in Seq(C) : Then(x, y) \in Seq(C)
  OBVIOUS
<1> HIDE DEF Then
<1>3. /\ Then(a, b) \in Seq(C) /\ Then(b, c) \in Seq(C)
      /\ Then(Then(b, c), d) \in Seq(C)
  BY <1>2
<1>4. Then(Then(a, b), c) = Then(a, Then(b, c))
  BY <1>1
<1>5. Then(Then(a, Then(b, c)), d) = Then(a, Then(Then(b, c), d))
  BY <1>1, <1>3
<1>6. Then(Then(a, Then(Then(b, c), d)), e) = Then(a, Then(Then(Then(b, c), d), e))
  BY <1>1, <1>3
<1>7. QED
  BY <1>4, <1>5, <1>6 DEF Then

LEMMA P106Sturdy ==
  /\ Sturdy(P106.init) /\ Uses(P106.init, Lines, Lines, Keys)
  /\ Sturdy(P106.exit) /\ Uses(P106.exit, Keys, Lines, Lines)
<1> DEFINE l == TwoLoopLines.ledInit
           k == TwoLoopLines.keyInit
           lf == TwoLoopLines.ledFree
           kf == TwoLoopLines.keyFree
           t == Touch(Keys)
           u == Touch(Leds)
           f == u \o lf
           o == OnFailure(k, lf)
           v == OnFailure(k, f)
           p == l \o o \o t \o u \o kf
           q == v \o t \o kf \o u \o lf
           m == t \o u \o kf
           r == t \o kf \o u \o lf
<1>1. P106.init = p /\ P106.exit = q
  BY DEF P106, Version, Plain, P106Load, P106Gpio
<1>2. /\ Uses(l, Leds, {}, {}) /\ Uses(k, Keys, {}, {}) /\ Uses(lf, {}, {}, Leds)
      /\ Uses(kf, {}, {}, Keys) /\ Uses(t, {}, Keys, {}) /\ Uses(u, {}, Leds, {})
      /\ Bare(l) /\ Bare(k) /\ Bare(lf) /\ Bare(kf) /\ Bare(t) /\ Bare(u)
  BY PartsOf, BlockUses, BareParts
<1>3. lf \in Simple(AllCalls) /\ f \in Simple(AllCalls)
  BY PartsOf, Notation
<1>4. Orderly(p) /\ Orderly(q)
  BY <1>3, PartsOf, P106Undoes DEF Undoes
<1>5. Orderly(lf) /\ Orderly(f)
  <2>1. Turn(u) /\ \A c \in Telling : Of(u, c) = IF c = "touch" THEN Leds ELSE {}
    BY PartsOf, BlockTurn
  <2>2. Fits(u, lf, "gpio_free", Leds) /\ Orderly(lf)
    BY <2>1, PartsOf, NamesTelling DEF Fits, Gone, Taking, Block
  <2>3. QED
    BY <2>1, <2>2, Appends DEF Plus, Turn
<1>6. Uses(o, Keys, {}, {}) /\ Uses(v, Keys, {}, {})
  BY <1>3, PartsOf, HandledBlock, BlockUses
<1> HIDE DEF l, k, lf, kf, t, u, o, v
<1>7. /\ Made(f, {}, Leds, Leds) /\ Made(t \o u, {}, Lines, {}) /\ Made(t \o kf, {}, Keys, Keys)
      /\ Uses(l \o o, Lines, {}, {})
  BY <1>2, <1>6, UsesConcat DEF Lines
<1>8. /\ Made(m, {}, Lines, Keys) /\ Made(t \o kf \o u, {}, Lines, Keys)
      /\ Uses(l \o o \o t, Lines, Keys, {})
  BY <1>2, <1>7, UsesConcat DEF Lines, Made
<1>9. Made(r, {}, Lines, Lines) /\ Uses(l \o o \o t \o u, Lines, Lines, {})
  BY <1>2, <1>8, UsesConcat DEF Lines, Made
<1> HIDE DEF m, r, f
<1>10. Uses(p, Lines, Lines, Keys) /\ Uses(v \o r, Keys, Lines, Lines)
  BY <1>2, <1>6, <1>9, UsesConcat DEF Lines, Made
<1>11. p = l \o (o \o m) /\ q = v \o r
  <2>1. /\ l \in Program(AllCalls) /\ o \in Program(AllCalls) /\ t \in Program(AllCalls)
        /\ u \in Program(AllCalls) /\ kf \in Program(AllCalls) /\ v \in Program(AllCalls)
        /\ lf \in Program(AllCalls)
    BY <1>2, <1>6 DEF Uses
  <2>2. l \o o \o t \o u \o kf = l \o (o \o t \o u \o kf)
    BY <2>1, Regroup
  <2>3. o \o t \o u \o kf = o \o (t \o u \o kf)
    BY <2>1, Regroup
  <2>4. v \o t \o kf \o u \o lf = v \o (t \o kf \o u \o lf)
    BY <2>1, Regroup
  <2>5. QED
    BY <2>2, <2>3, <2>4 DEF m, r
<1>12. /\ Needs(lf) = Leds /\ Needs(f) = Leds /\ Needs(m) = Lines /\ Needs(r) = Lines
       /\ Leds \subseteq Lines \ Keys
  BY <1>2, <1>7, <1>8, <1>9, Tables DEF Needs, Uses, Made, Lines
<1>13. Backed(o \o m) /\ Backed(v \o r)
  <2>1. {k, m, r} \subseteq Program(AllCalls) /\ Of(k, "gpio_request") = Keys
    BY <1>2, <1>8, <1>9 DEF Uses, Made
  <2>2. Backed(m) /\ Backed(r) /\ Bare(f)
    BY <1>7, <1>8, <1>9, BareBacked DEF Made
  <2>3. QED
    BY <1>2, <1>3, <1>5, <1>12, <2>1, <2>2, HandledBacked DEF o, v
<1>14. Backed(l \o (o \o m))
  <2>1. l \in Program(AllCalls) /\ o \o m \in Program(AllCalls)
    BY <1>2, <1>6, <1>8, Notation DEF Uses, Made
  <2>2. \A n \in DOMAIN l : /\ l[n].checked /\ Orderly(l[n].fail) /\ Bare(l[n].fail)
                            /\ Needs(l[n].fail) = {}
    BY <1>2, OfNothing, BareParts DEF Bare, Needs
  <2>3. QED
    BY <1>13, <2>1, <2>2, BackedConcat DEF Program
<1>15. QED
  BY <1>1, <1>4, <1>10, <1>11, <1>13, <1>14 DEF Sturdy

LEMMA CallSturdy ==
  Sturdy(sys_mysyscall) /\ Uses(sys_mysyscall, Lines, Lines, Lines)
<1> DEFINE l == TwoLoopLines.ledInit
           k == TwoLoopLines.keyInit
           lf == TwoLoopLines.ledFree
           kf == TwoLoopLines.keyFree
           t == Touch(Keys)
           u == Touch(Leds)
           a == l \o u
           b == a \o lf
           c == b \o k
           d == c \o t
           e == d \o kf
<1>1. sys_mysyscall = e
  BY DEF sys_mysyscall, MysyscallGpio
<1>2. /\ Uses(l, Leds, {}, {}) /\ Uses(k, Keys, {}, {}) /\ Uses(lf, {}, {}, Leds)
      /\ Uses(kf, {}, {}, Keys) /\ Uses(t, {}, Keys, {}) /\ Uses(u, {}, Leds, {})
      /\ Bare(l) /\ Bare(k) /\ Bare(lf) /\ Bare(kf) /\ Bare(t) /\ Bare(u)
  BY PartsOf, BlockUses, BareParts
<1> USE NamesTelling, Tables
<1>3. /\ Block(l, "gpio_request", Leds) /\ Block(k, "gpio_request", Keys)
      /\ Block(lf, "gpio_free", Leds) /\ Block(kf, "gpio_free", Keys)
      /\ Block(t, "touch", Keys) /\ Block(u, "touch", Leds)
  BY PartsOf
<1> HIDE DEF l, k, lf, kf, t, u
<1>4. Turn(l) /\ Made(a, Leds, Leds, {})
  BY <1>2, <1>3, BlockTurn, UsesConcat
<1>5. Turn(a)
  BY <1>2, <1>3, <1>4, Appends DEF Fits, Gone, Taking, Plus, Uses
<1>6. Made(b, Leds, Leds, Leds)
  BY <1>2, <1>4, UsesConcat DEF Made
<1> HIDE DEF a
<1>7. Turn(b)
  BY <1>3, <1>4, <1>5, Appends DEF Fits, Gone, Taking, Plus, Uses, Made
<1>8. Made(c, Lines, Leds, Leds)
  BY <1>2, <1>6, UsesConcat DEF Made, Lines
<1> HIDE DEF b
<1>9. Turn(c)
  BY <1>3, <1>6, <1>7, Appends DEF Fits, Gone, Taking, Plus, Uses, Made
<1>10. Made(d, Lines, Lines, Leds)
  BY <1>2, <1>8, UsesConcat DEF Made, Lines
<1> HIDE DEF c
<1>11. Turn(d)
  BY <1>3, <1>8, <1>9, Appends DEF Fits, Gone, Taking, Plus, Uses, Made
<1>12. Made(e, Lines, Lines, Lines)
  BY <1>2, <1>10, UsesConcat DEF Made, Lines
<1> HIDE DEF d
<1>13. Turn(e)
  BY <1>3, <1>10, <1>11, Appends DEF Fits, Gone, Taking, Plus, Uses, Made
<1> HIDE DEF e
<1>14. QED
  BY <1>1, <1>12, <1>13, BareBacked DEF Sturdy, Made, Turn

Stays(d) == Needs(Driver[d].exit)

LEMMA NoCalls ==
  ASSUME NEW p \in Program({})
  PROVE  p = <<>>
<1>1. ASSUME NEW C, p \in Program(C), p # <<>> PROVE Head(p).call \in C
  BY <1>1, ProgramSteps
<1>2. QED
  BY <1>1

LEMMA EmptySturdy == Sturdy(<<>>) /\ Needs(<<>>) = {}
BY OfNothing, BareParts, BareBacked DEF Sturdy, Needs

LEMMA OwnBegins ==
  ASSUME NEW d \in Borrowers
  PROVE  /\ d \in DOMAIN Driver
         /\ \A op, p : Begins(d, op, p) =>
              /\ Sturdy(p)
              /\ op # "exit" \/ d = "Mysyscall" => Needs(p) = {}
              /\ d # "Mysyscall" /\ op \notin {"init", "exit"} => p \in Program({})
         /\ d = "Mysyscall" => Driver[d].exit = <<>> /\ Stays(d) = {}
         /\ Stays(d) \subseteq Of(Driver[d].init, "gpio_request")
         /\ Stays(d) \cap Of(Driver[d].init, "gpio_free") = {}
<1>1. d \in DOMAIN Driver
  BY DriverIs DEF Borrowers
<1>2. ASSUME NEW v, Driver[d] = v, Users(v, {}), v.isr = <<>>, Sturdy(v.init), Sturdy(v.exit),
             Needs(v.init) = {}, d # "Mysyscall"
      PROVE  \A op, p : Begins(d, op, p) =>
               /\ Sturdy(p)
               /\ op # "exit" \/ d = "Mysyscall" => Needs(p) = {}
               /\ d # "Mysyscall" /\ op \notin {"init", "exit"} => p \in Program({})
  <2>1. <<>> \in Program({})
    BY Notation
  <2>2. \A op, p : Begins(d, op, p) =>
           (op = "init" /\ p = v.init) \/ (op = "exit" /\ p = v.exit) \/ p \in Program({})
    BY <1>2, <2>1 DEF Begins, Users
  <2>3. \A p \in Program({}) : Sturdy(p) /\ Needs(p) = {}
    BY NoCalls, EmptySturdy
  <2>4. \A op, p : Begins(d, op, p) /\ op \notin {"init", "exit"} => p \in Program({})
    BY <2>2
  <2>5. ASSUME NEW op, NEW p, Begins(d, op, p)
        PROVE  Sturdy(p) /\ (op # "exit" => Needs(p) = {})
    <3>1. (op = "init" /\ p = v.init) \/ (op = "exit" /\ p = v.exit) \/ p \in Program({})
      BY <2>2, <2>5
    <3>2. QED
      BY <1>2, <2>3, <3>1
  <2>6. QED
    BY <1>2, <2>4, <2>5
<1>3. CASE d \in {"P122", "P122Param"}
  <2>1. Driver[d] = P122 /\ d # "Mysyscall"
    BY <1>3, DriverIs, P122ParamIs
  <2>2. /\ Sturdy(P122.init) /\ Uses(P122.init, Lines, Lines, {})
        /\ Sturdy(P122.exit) /\ Uses(P122.exit, {}, Lines, Lines)
    BY P122Sturdy
  <2>3. Needs(P122.init) = {} /\ Needs(P122.exit) = Lines
    BY <2>2 DEF Needs, Uses
  <2>4. Users(P122, {}) /\ P122.isr = <<>>
    BY P122In
  <2>5. QED
    BY <1>1, <1>2, <2>1, <2>2, <2>3, <2>4 DEF Stays, Uses
<1>4. CASE d = "P106"
  <2>1. Driver[d] = P106 /\ d # "Mysyscall"
    BY <1>4, DriverIs
  <2>2. /\ Sturdy(P106.init) /\ Uses(P106.init, Lines, Lines, Keys)
        /\ Sturdy(P106.exit) /\ Uses(P106.exit, Keys, Lines, Lines)
    BY P106Sturdy
  <2>3. Needs(P106.init) = {} /\ Needs(P106.exit) = Lines \ Keys
    BY <2>2 DEF Needs, Uses, Lines
  <2>4. Users(P106, {}) /\ P106.isr = <<>>
    BY P106In
  <2>5. QED
    BY <1>1, <1>2, <2>1, <2>2, <2>3, <2>4 DEF Stays, Uses
<1>5. CASE d = "Mysyscall"
  <2>1. Driver[d] = Mysyscall
    BY <1>5, DriverIs
  <2>2. Mysyscall.exit = <<>> /\ Mysyscall.isr = <<>> /\ Mysyscall.open = <<>>
        /\ Mysyscall.release = <<>> /\ Mysyscall.timer = <<>> /\ DOMAIN Mysyscall.calls = {}
        /\ Mysyscall.init = Do("provide_call")
        /\ \A c \in DOMAIN Mysyscall.direct : Mysyscall.direct[c] = sys_mysyscall
    BY DEF Mysyscall, Plain
  <2>3. \A op, p : Begins(d, op, p) => p \in {<<>>, Do("provide_call"), sys_mysyscall}
    BY <2>1, <2>2 DEF Begins
  <2>4. Sturdy(sys_mysyscall) /\ Needs(sys_mysyscall) = {}
    BY CallSturdy DEF Needs, Uses
  <2>5. Sturdy(Do("provide_call")) /\ Needs(Do("provide_call")) = {}
    BY OneTurn, BareParts, BareBacked DEF Sturdy, Needs
  <2>6. QED
    BY <1>1, <1>5, <2>1, <2>2, <2>3, <2>4, <2>5, EmptySturdy DEF Stays
<1>6. QED
  BY <1>3, <1>4, <1>5 DEF Borrowers

\* How a statement changes which lines are held.
LEMMA LinesStatement ==
  ASSUME Base, NEW a \in Actors, Statement(a), Now(a).checked
  PROVE  \/ /\ Now(a).call = "gpio_request" /\ Advances(a)
            /\ Now(a).lines \cap held = {} /\ held' = held \cup Now(a).lines
         \/ Now(a).call = "gpio_free" /\ Advances(a) /\ held' = held \ Now(a).lines
         \/ /\ Now(a).call \notin {"gpio_request", "gpio_free"} /\ held' = held
            /\ Advances(a) \/ Copies(a)
         \/ held' = held /\ (Same(a) \/ Fails(a))
<1>1. Formed(run[a]) /\ DOMAIN run = Actors
  BY DEF Base
<1>2. \A b \in {a} : Succeed(b) => run'[b] = [run[b] EXCEPT !.todo = Tail(@)]
  BY <1>1 DEF Succeed
<1>3. CASE GpioRequest(a)
  <2>1. Now(a).call = "gpio_request" /\ run[a].todo # <<>>
    BY <1>3 DEF GpioRequest, At
  <2>2. CASE Now(a).lines \cap held = {} /\ held' = held \cup Now(a).lines /\ Accepted(a)
    BY <1>2, <2>1, <2>2 DEF Accepted, Advances
  <2>3. CASE Fail(a) /\ held' = held
    <3>1. Fails(a)
      BY <1>1, <2>1, <2>3 DEF Fail, Fails, MayFail, Formed
    <3>2. QED
      BY <2>3, <3>1
  <2>4. QED
    BY <1>3, <2>2, <2>3 DEF GpioRequest, Refused
<1>4. CASE GpioFree(a)
  BY <1>2, <1>4 DEF GpioFree, At, Advances
<1>5. CASE ~GpioRequest(a) /\ ~GpioFree(a)
  <2>1. held' = held
    BY <1>5, StatementFrame DEF GpioDirection
  <2>2. Same(a) \/ Advances(a) \/ Copies(a) \/ Fails(a)
    BY StatementRun
  <2>3. Now(a).call \notin {"gpio_request", "gpio_free"}
    <3>1. a \in asleep => Now(a).call = "wait_event"
      BY DEF Base
    <3>2. CASE Signal(a)
      BY <3>1, <3>2 DEF Signal
    <3>3. CASE ~Signal(a)
      BY <1>5, <3>3 DEF Statement, At, GpioDirection, TouchLines, GpioToIrq, RequestIrq,
                        FreeIrq, RegisterChrdev, UnregisterChrdev, ProvideCall,
                        RemoveCall, SetTimer, TryModuleGet, ModulePut, Kmalloc_, Kfree,
                        Test, SetFlag, Mutex, CopyKey, ClearKey, StoreKey, WakeUp,
                        WaitEvent
    <3>4. QED
      BY <3>2, <3>3
  <2>4. QED
    BY <2>1, <2>2, <2>3
<1>6. QED
  BY <1>3, <1>4, <1>5

Staying(p) == /\ Stays(drv) \subseteq held \cup Of(p, "gpio_request")
              /\ Stays(drv) \cap Of(p, "gpio_free") = {}

\* Everybody holds what is needed for what is left to do, and nobody else needs it.
OwnInv ==
  /\ Base /\ drv \in Borrowers
  /\ \A a \in Actors : Sturdy(run[a].todo) /\ Needs(run[a].todo) \subseteq held
  /\ \A a, b \in Actors : a # b => Needs(run[a].todo) \cap Needs(run[b].todo) = {}
  /\ drv # "Mysyscall" => \A a \in Actors \ {admin} : run[a].todo \in Program({})
  /\ mod = "loading" /\ run[admin].ok => Staying(run[admin].todo)
  /\ mod = "live" => Staying(<<>>)

LEMMA InitOwnInv ==
  ASSUME Init, drv \in Borrowers
  PROVE  OwnInv
<1>1. Base
  BY InitBase
<1>2. \A a \in Actors : run[a].todo = <<>>
  BY DEF Init, Idle
<1>3. mod = "out"
  BY DEF Init
<1>4. QED
  BY <1>1, <1>2, <1>3, EmptySturdy, Notation DEF OwnInv

\* A statement of a program whose lines are held and needed by nobody else.
LEMMA OwnStatement ==
  ASSUME OwnInv, NEW a \in Actors, Statement(a)
  PROVE  /\ \A b \in Actors : Sturdy(run'[b].todo) /\ Needs(run'[b].todo) \subseteq held'
         /\ \A b, c \in Actors : b # c => Needs(run'[b].todo) \cap Needs(run'[c].todo) = {}
         /\ run'[a].ok /\ Staying(run[a].todo) =>
              /\ Stays(drv) \subseteq held' \cup Of(run'[a].todo, "gpio_request")
              /\ Stays(drv) \cap Of(run'[a].todo, "gpio_free") = {}
<1> DEFINE p == run[a].todo
           q == run'[a].todo
           S == Statements(AllCalls, Nested(AllCalls))
<1>1. Base /\ p \in Seq(S) /\ Formed(run[a])
  BY DEF OwnInv, Base, Program
<1>2. p # <<>>
  BY <1>1, StatementFrame DEF Signal, Base
<1>3. Sturdy(p) /\ Needs(p) \subseteq held
  BY DEF OwnInv
<1>4. /\ Now(a).checked /\ Sturdy(Tail(p))
      /\ Sturdy(Now(a).fail) /\ Needs(Now(a).fail) \subseteq Needs(p)
      /\ Now(a).call \in {"touch", "gpio_free"} => Reach(Now(a)) \subseteq Needs(p)
      /\ Now(a).call = "gpio_request" => Needs(Tail(p)) \subseteq Needs(p) \cup Reach(Now(a))
      /\ Now(a).call # "gpio_request" => Needs(Tail(p)) \subseteq Needs(p)
      /\ Now(a).call = "gpio_free" => Needs(Tail(p)) \cap Reach(Now(a)) = {}
  BY <1>1, <1>2, <1>3, SturdySteps DEF Now
<1>5. \A c : Of(p, c) = Of(Tail(p), c) \cup (IF Now(a).call = c THEN Reach(Now(a)) ELSE {})
  BY <1>1, <1>2, <1>3, OrderlyTail DEF Now, Sturdy
<1>6. Now(a).call \in {"touch", "gpio_free", "gpio_request"} => Reach(Now(a)) = Now(a).lines
  BY DEF Reach, Single, NodeCalls
<1>7. \A b \in Actors \ {a} : /\ run'[b] = run[b] /\ Sturdy(run[b].todo)
                              /\ Needs(run[b].todo) \subseteq held
                              /\ Needs(run[b].todo) \cap Needs(p) = {}
  BY <1>1, StatementRun DEF Alone, Same, OwnInv
<1>8. Advances(a) \/ Copies(a) => q = Tail(p) /\ run'[a].ok = run[a].ok
  BY <1>1 DEF Advances, Copies, Formed
<1> HIDE DEF p, q
<1>9. ASSUME /\ Sturdy(q) /\ Needs(q) \subseteq held'
             /\ \A b \in Actors \ {a} : /\ Needs(run[b].todo) \subseteq held'
                                        /\ Needs(run[b].todo) \cap Needs(q) = {}
      PROVE  /\ \A b \in Actors : Sturdy(run'[b].todo) /\ Needs(run'[b].todo) \subseteq held'
             /\ \A b, c \in Actors : b # c => Needs(run'[b].todo) \cap Needs(run'[c].todo) = {}
  <2>1. \A b \in Actors : Sturdy(run'[b].todo) /\ Needs(run'[b].todo) \subseteq held'
    BY <1>7, <1>9 DEF q
  <2>2. ASSUME NEW b \in Actors, NEW c \in Actors, b # c
        PROVE  Needs(run'[b].todo) \cap Needs(run'[c].todo) = {}
    <3>1. CASE b = a
      BY <1>7, <1>9, <2>2, <3>1 DEF q
    <3>2. CASE c = a
      BY <1>7, <1>9, <2>2, <3>2 DEF q
    <3>3. CASE b # a /\ c # a
      BY <1>7, <2>2, <3>3 DEF OwnInv
    <3>4. QED
      BY <3>1, <3>2, <3>3
  <2>3. QED
    BY <2>1, <2>2
<1> DEFINE Stayed == Staying(p) => /\ Stays(drv) \subseteq held' \cup Of(q, "gpio_request")
                                   /\ Stays(drv) \cap Of(q, "gpio_free") = {}
<1>10. CASE /\ Now(a).call = "gpio_request" /\ Advances(a)
            /\ Now(a).lines \cap held = {} /\ held' = held \cup Now(a).lines
  <2>1. Stayed
    BY <1>5, <1>6, <1>8, <1>10 DEF Staying
  <2>2. QED
    BY <1>3, <1>4, <1>6, <1>7, <1>8, <1>9, <1>10, <2>1 DEF p, q
<1>11. CASE Now(a).call = "gpio_free" /\ Advances(a) /\ held' = held \ Now(a).lines
  <2>1. Stayed
    BY <1>5, <1>6, <1>8, <1>11 DEF Staying
  <2>2. QED
    BY <1>3, <1>4, <1>6, <1>7, <1>8, <1>9, <1>11, <2>1 DEF p, q
<1>12. CASE /\ Now(a).call \notin {"gpio_request", "gpio_free"} /\ held' = held
            /\ Advances(a) \/ Copies(a)
  <2>1. Stayed
    BY <1>5, <1>8, <1>12 DEF Staying
  <2>2. QED
    BY <1>3, <1>4, <1>7, <1>8, <1>9, <1>12, <2>1 DEF p, q
<1>13. CASE held' = held /\ Same(a)
  <2>1. q = p
    BY <1>13 DEF Same, p, q
  <2>2. QED
    BY <1>3, <1>7, <1>9, <1>13, <2>1 DEF p, q, Staying
<1>14. CASE held' = held /\ Fails(a)
  <2>1. q = Now(a).fail /\ ~run'[a].ok
    BY <1>1, <1>14 DEF Fails, Formed, q
  <2>2. QED
    BY <1>3, <1>4, <1>7, <1>9, <1>14, <2>1 DEF p, q
<1>15. QED
  BY <1>1, <1>4, <1>10, <1>11, <1>12, <1>13, <1>14, LinesStatement

LEMMA NextOwnInv ==
  ASSUME OwnInv, [Next]_vars
  PROVE  OwnInv'
<1>1. Base /\ drv \in Borrowers /\ drv' = drv /\ drv \in DOMAIN Driver /\ admin \in Actors
  BY OwnBegins, StatementFrame, OtherFrame DEF vars, modVars, OwnInv, Actors
<1>2. Base'
  BY <1>1, BeginsKnown, NextBase
<1>3. ASSUME drv # "Mysyscall", NEW a \in Actors \ {admin} PROVE run'[a].todo \in Program({})
  <2>1. \A op \in OpsOf(a) \ {"idle"} : op \notin {"init", "exit"}
    BY <1>3, ActorOps DEF Actors
  <2>2. \A op \in OpsOf(a) \ {"idle"} : \A p : Begins(drv, op, p) => p \in Program({})
    BY <1>1, <1>3, <2>1, OwnBegins
  <2>3. run[a].todo \in Program({}) /\ Closed(Program({}))
    BY <1>3, ProgramClosed DEF OwnInv
  <2>4. QED
    BY <1>1, <1>3, <2>2, <2>3, StaysIn
<1>4. CASE UNCHANGED vars
  BY <1>1, <1>2, <1>4 DEF vars, modVars, lineVars, OwnInv, Staying
<1>5. ASSUME NEW a \in Actors, Statement(a) PROVE OwnInv'
  <2>1. /\ \A b \in Actors : Sturdy(run'[b].todo) /\ Needs(run'[b].todo) \subseteq held'
        /\ \A b, c \in Actors : b # c => Needs(run'[b].todo) \cap Needs(run'[c].todo) = {}
        /\ run'[a].ok /\ Staying(run[a].todo) =>
             /\ Stays(drv) \subseteq held' \cup Of(run'[a].todo, "gpio_request")
             /\ Stays(drv) \cap Of(run'[a].todo, "gpio_free") = {}
    BY <1>5, OwnStatement
  <2>2. mod' = mod /\ run[a].todo # <<>>
    BY <1>1, <1>5, StatementFrame DEF Signal, Base
  <2>3. CASE a = admin
    <3>1. run[admin].op # "idle" /\ mod # "live"
      <4>1. run[admin].op # "idle"
        BY <1>1, <2>2, <2>3 DEF Base, Idle
      <4>2. QED
        BY <1>1, <4>1, ActorOps DEF Base
    <3>2. run'[admin].ok => run[admin].ok
      <4>1. Formed(run[admin])
        BY <1>1 DEF Base
      <4>2. Same(admin) \/ Advances(admin) \/ Copies(admin) \/ Fails(admin)
        BY <1>1, <1>5, <2>3, StatementRun
      <4>3. QED
        BY <4>1, <4>2 DEF Same, Advances, Copies, Fails, Formed
    <3>3. (mod = "loading" /\ run[admin].ok => Staying(run[admin].todo))'
      BY <1>1, <2>1, <2>2, <2>3, <3>2 DEF OwnInv, Staying
    <3>4. QED
      BY <1>1, <1>2, <1>3, <2>1, <2>2, <3>1, <3>3 DEF OwnInv
  <2>4. CASE a # admin
    <3>1. drv = "Mysyscall"
      BY <2>2, <2>4, NoCalls DEF OwnInv
    <3>2. Stays(drv) = {}
      BY <1>1, <3>1, OwnBegins
    <3>3. \A p : Staying(p)'
      BY <1>1, <3>2 DEF Staying
    <3>4. QED
      BY <1>1, <1>2, <1>3, <2>1, <3>3 DEF OwnInv
  <2>5. QED
    BY <2>3, <2>4
<1>6. ASSUME Next, \A a \in Actors : ~Statement(a) PROVE OwnInv'
  <2>1. held' = held
    BY <1>6, OtherFrame
  <2>2. PICK a \in Actors : Alone(a) /\ (Starts(a) \/ Ends(a))
    BY <1>1, <1>6, OtherRun
  <2>3. \A b \in Actors \ {a} : run'[b] = run[b]
    BY <2>2 DEF Alone, Same
  <2>4. ASSUME Sturdy(run'[a].todo), Needs(run'[a].todo) \subseteq held,
               \A b \in Actors \ {a} : Needs(run[b].todo) \cap Needs(run'[a].todo) = {}
        PROVE  /\ \A b \in Actors : Sturdy(run'[b].todo) /\ Needs(run'[b].todo) \subseteq held'
               /\ \A b, c \in Actors : b # c => Needs(run'[b].todo) \cap Needs(run'[c].todo) = {}
    BY <2>1, <2>3, <2>4 DEF OwnInv
  <2>5. Sturdy(run'[a].todo) /\ Needs(run'[a].todo) \subseteq held
          /\ \A b \in Actors \ {a} : Needs(run[b].todo) \cap Needs(run'[a].todo) = {}
    <3>1. CASE Ends(a)
      BY <3>1, EmptySturdy DEF Ends, Idle
    <3>2. CASE Starts(a) /\ (run'[a].op # "exit" \/ drv = "Mysyscall")
      BY <1>1, <3>2, OwnBegins DEF Starts
    <3>3. CASE Starts(a) /\ run'[a].op = "exit" /\ drv # "Mysyscall"
      <4>1. a = admin
        BY <3>3, ActorOps DEF Starts, Actors
      <4>2. run[admin].op # "exit"
        BY <3>3, <4>1 DEF Starts, Idle
      <4>3. mod = "live"
        BY <1>1, <1>6, <3>3, <4>1, <4>2, ModStep DEF Idle
      <4>4. run'[a].todo = Driver[drv].exit
        BY <3>3 DEF Starts, Begins
      <4>5. Needs(run'[a].todo) \subseteq held
        BY <4>3, <4>4, OfNothing DEF OwnInv, Staying, Stays
      <4>6. \A b \in Actors \ {a} : Needs(run[b].todo) = {}
        BY <3>3, <4>1, NoCalls, EmptySturdy DEF OwnInv
      <4>7. Sturdy(run'[a].todo)
        BY <1>1, <3>3, OwnBegins DEF Starts
      <4>8. QED
        BY <4>5, <4>6, <4>7
    <3>4. QED
      BY <2>2, <3>1, <3>2, <3>3
  <2>6. /\ (mod = "loading" /\ run[admin].ok => Staying(run[admin].todo))'
        /\ (mod = "live" => Staying(<<>>))'
    <3>1. \A p : Staying(p)' <=> Staying(p)
      BY <1>1, <2>1 DEF Staying
    <3>2. CASE mod' = mod /\ run'[admin].op = run[admin].op
      <4>1. mod = "loading" => run'[admin] = run[admin]
        BY <1>1, <2>2, <2>3, <3>2 DEF Starts, Ends, Idle, Base
      <4>2. QED
        BY <3>1, <3>2, <4>1 DEF OwnInv
    <3>3. CASE Insmod /\ mod' = "loading"
      <4>1. run'[admin].todo = Driver[drv].init
        BY <1>1, <3>3 DEF Insmod, Start, Base
      <4>2. Staying(Driver[drv].init)
        BY <1>1, OwnBegins DEF Staying
      <4>3. QED
        BY <3>1, <3>3, <4>1, <4>2
    <3>4. CASE InitReturns /\ mod = "loading" /\ mod' = IF run[admin].ok THEN "live" ELSE "out"
      <4>1. run[admin].todo = <<>>
        BY <3>4 DEF InitReturns, Done
      <4>2. QED
        BY <3>1, <3>4, <4>1 DEF OwnInv
    <3>5. QED
      BY <1>1, <1>6, <3>2, <3>3, <3>4, ModStep
  <2>7. QED
    BY <1>1, <1>2, <1>3, <2>4, <2>5, <2>6 DEF OwnInv
<1>7. QED
  BY <1>4, <1>5, <1>6

LEMMA OwnTouch ==
  ASSUME OwnInv, NEW a \in Actors, At(a, "touch")
  PROVE  Now(a).lines \subseteq held
<1>1. run[a].todo # <<>> /\ Now(a).call = "touch" /\ run[a].todo \in Program(AllCalls)
  BY DEF At, OwnInv, Base
<1>2. Reach(Now(a)) \subseteq Needs(run[a].todo)
  BY <1>1, SturdySteps DEF OwnInv, Now, Program
<1>3. Reach(Now(a)) = Now(a).lines
  BY <1>1 DEF Reach, Single, NodeCalls
<1>4. QED
  BY <1>2, <1>3 DEF OwnInv

-----------------------------------------------------------------------------
(* Lines that are held as long as a file is open.                          *)

\* The versions whose read() and write() use lines that init asked for.
Holders == {"P238", "P369", "P369Ksh", "Kmalloc", "P399", "P399Ksh", "P432"}
Untouching == AllCalls \ {"touch"}

LEMMA HoldersBegin ==
  ASSUME NEW d \in Holders
  PROVE  \A op, p : Begins(d, op, p) /\ op # "call" => p \in Program(Untouching)
<1>1. \A E, F : E \subseteq F => Program(E) \subseteq Program(F)
  BY MonotoneIn
<1>2. OnceCalls \cup StoreCalls \cup RequestCalls
        \cup {"register_chrdev", "unregister_chrdev", "gpio_free", "mutex_init", "mutex_destroy",
              "gpio_to_irq", "request_irq", "free_irq", "kmalloc", "kfree"} \subseteq Untouching
  BY DEF Untouching, OnceCalls, StoreCalls, RequestCalls, AllCalls, LineCalls, IrqCalls,
         NodeCalls, TimerCalls, FileCalls, OpenCalls, MutexCalls, KeyCalls
<1>3. /\ {P238.init, P369.init, P369Ksh.init, Kmalloc.init, P399.init, P399Ksh.init,
          P432.init} \subseteq Program(Untouching)
      /\ {P238.exit, P369.exit, P369Ksh.exit, Kmalloc.exit, P399.exit, P399Ksh.exit,
          P432.exit} \subseteq Program(Untouching)
  BY <1>1, <1>2, P238In, P369In, P369KshIs, KmallocIn, P399In, P399KshIn, P432In
<1>4. OpenOnce \in Program(Untouching) /\ CloseOnce \in Program(Untouching)
  BY <1>2, FilePrograms
<1>5. /\ Kmalloc.open \in Program(Untouching) /\ Kmalloc.release \in Program(Untouching)
      /\ Kmalloc.open = Do("kmalloc") \o IrqLines.toIrq \o ForEach(gpioKey, <<"request_irq">>)
                          \o OpenOnce
      /\ Kmalloc.release = IrqLines.freeIrq \o CloseOnce \o Do("kfree")
  <2>1. /\ Kmalloc.open = Do("kmalloc") \o IrqLines.toIrq \o ForEach(gpioKey, <<"request_irq">>)
                          \o OpenOnce
        /\ Kmalloc.release = IrqLines.freeIrq \o CloseOnce \o Do("kfree")
    BY DEF Kmalloc, KmallocCalls, Version, Plain
  <2>2. {Do("kmalloc"), IrqLines.toIrq, ForEach(gpioKey, <<"request_irq">>),
         IrqLines.freeIrq, Do("kfree")} \subseteq Program(Untouching)
    BY <1>2, Notation, IrqPrograms, SharedPrograms
  <2>3. \A p, q \in Program(Untouching) : p \o q \in Program(Untouching)
    BY Notation
  <2>4. QED
    BY <1>4, <2>1, <2>2, <2>3
<1>6. {StoreUnderMutex(<<>>), StoreUnderMutex(Do("wake_up")), <<>>} \subseteq Program(Untouching)
  BY <1>2, FilePrograms, Notation
<1>7. /\ Driver[d].init \in Program(Untouching) /\ Driver[d].exit \in Program(Untouching)
  BY <1>3, DriverIs DEF Holders
<1>8. /\ Driver[d].open \in Program(Untouching) /\ Driver[d].release \in Program(Untouching)
      /\ Driver[d].timer = <<>> /\ DOMAIN Driver[d].direct = {}
      /\ Driver[d].isr \in {StoreUnderMutex(<<>>), StoreUnderMutex(Do("wake_up")), <<>>}
  <2>1. CASE d = "P238"
    <3>1. P238.open = OpenOnce /\ P238.release = CloseOnce
      BY DEF P238, P238Calls, P238Load, Version, Plain, OpenOnce, CloseOnce
    <3>2. P238.timer = <<>> /\ DOMAIN P238.direct = {}
      BY DEF P238, P238Calls, P238Load, Version, Plain
    <3>3. P238.isr = <<>>
      BY DEF P238, P238Calls, Version, Plain
    <3>4. Driver[d] = P238
      BY <2>1, DriverIs
    <3>5. QED
      BY <1>4, <3>1, <3>2, <3>3, <3>4
  <2>2. CASE d \in {"P369", "P369Ksh"}
    <3>1. P369.open = OpenOnce /\ P369.release = CloseOnce
      BY DEF P369, P369Calls, P369Load, Version, Plain
    <3>2. P369.timer = <<>> /\ DOMAIN P369.direct = {} /\ P369.isr = StoreUnderMutex(<<>>)
      BY DEF P369, P369Calls, P369Load, Version, Plain
    <3>3. Driver[d] = P369
      BY <2>2, DriverIs, P369KshIs
    <3>4. QED
      BY <1>4, <3>1, <3>2, <3>3
  <2>3. CASE d = "Kmalloc"
    <3>1. /\ Kmalloc.timer = <<>> /\ DOMAIN Kmalloc.direct = {}
          /\ Kmalloc.isr = StoreUnderMutex(<<>>)
      BY DEF Kmalloc, KmallocCalls, Version, Plain
    <3>2. QED
      BY <1>5, <2>3, <3>1, DriverIs
  <2>4. CASE d = "P399"
    BY <1>4, <2>4, DriverIs DEF P399, P399Calls, Version, Plain
  <2>5. CASE d = "P399Ksh"
    BY <1>4, <2>5, DriverIs DEF P399Ksh, P399KshCalls, Version, Plain
  <2>6. CASE d = "P432"
    BY <1>4, <2>6, DriverIs DEF P432, P432Calls, Version, Plain
  <2>7. QED
    BY <2>1, <2>2, <2>3, <2>4, <2>5, <2>6 DEF Holders
<1>9. QED
  BY <1>6, <1>7, <1>8 DEF Begins

\* Only read(), write() and what else is called on an open file use lines.
CallsTouch ==
  /\ Base
  /\ \A a \in Actors, op \in Ops \ {"idle", "call"} :
       run[a].op = op => run[a].todo \in Program(Untouching)

LEMMA InitCallsTouch ==
  ASSUME Init
  PROVE  CallsTouch
<1>1. \A a \in Actors : run[a].op = "idle"
  BY DEF Init, Idle
<1>2. QED
  BY <1>1, InitBase DEF CallsTouch

LEMMA NextCallsTouch ==
  ASSUME CallsTouch, [Next]_vars, drv \in Holders
  PROVE  CallsTouch'
<1>1. Base /\ drv \in DOMAIN Driver
  BY DriverIs DEF CallsTouch, Holders
<1>2. Base'
  BY <1>1, BeginsKnown, NextBase
<1>3. ASSUME NEW a \in Actors, NEW op \in Ops \ {"idle", "call"}, run'[a].op = op
      PROVE  run'[a].todo \in Program(Untouching)
  <2> DEFINE S == Program(Untouching)
  <2>1. Closed(S) /\ (run[a].op = op => run[a].todo \in S)
    BY ProgramClosed DEF CallsTouch
  <2>2. \A p : Begins(drv, op, p) => p \in S
    BY HoldersBegin
  <2> HIDE DEF S
  <2>3. run'[a].todo \in S
    BY <1>1, <1>3, <2>1, <2>2, StaysInOp
  <2>4. QED
    BY <2>3 DEF S
<1>4. QED
  BY <1>2, <1>3 DEF CallsTouch

\* A thread that uses a line is in a call on a file that is open.
LEMMA TouchOnOpenFile ==
  ASSUME CallsTouch, FilesInv, NEW a \in Actors, At(a, "touch")
  PROVE  /\ \E f \in Files : files[f] = "open"
         /\ Now(a).lines \subseteq Lines
<1>1. run[a].todo # <<>> /\ Now(a).call = "touch" /\ run[a].todo \in Program(AllCalls)
  BY DEF At, CallsTouch, Base
<1>2. Now(a).lines \subseteq Lines
  BY <1>1, ProgramSteps DEF Now
<1>3. run[a].op \in Ops /\ run[a].op # "idle"
  <2>1. run[a].op \in OpsOf(a)
    BY DEF CallsTouch, Base
  <2>2. run[a].op \in Ops
    BY <2>1, ActorOps DEF Ops, Actors
  <2>3. run[a].op = "idle" => run[a] = Idle
    BY DEF CallsTouch, Base
  <2>4. Idle.todo = <<>>
    BY DEF Idle
  <2>5. QED
    BY <1>1, <2>2, <2>3, <2>4
<1>4. run[a].op = "call"
  <2>1. \A C : run[a].todo \in Program(C) => "touch" \in C
    BY <1>1, ProgramSteps DEF Now
  <2>2. run[a].todo \notin Program(Untouching)
    BY <2>1 DEF Untouching
  <2>3. QED
    BY <1>3, <2>2 DEF CallsTouch
<1>5. a \in Threads
  BY <1>4, ActorOps DEF CallsTouch, Base, Actors
<1>6. QED
  BY <1>2, <1>4, <1>5 DEF FilesInv

\* The lines are there: the file keeps the module loaded, and nobody is let in
\* before they are.
LEMMA LinesThere ==
  ASSUME drv \in Holders, CompleteInv, NEW f \in Files, files[f] = "open",
         mod \in {"loading", "live"},
         mod = "loading" => run[admin].todo = <<>> /\ run[admin].ok
  PROVE  Lines \subseteq held
<1>1. Secured(<<>>)
  BY DEF CompleteInv
<1>2. QED
  BY <1>1 DEF Secured, Asks

LEMMA HolderTouch ==
  ASSUME drv \in Holders \ {"Kmalloc"}, CallsTouch, HoldInv, CompleteInv,
         NEW a \in Actors, At(a, "touch")
  PROVE  Now(a).lines \subseteq held
<1>1. drv \in HoldVersions /\ drv \in CountsUsers
  BY DriverIs DEF Holders, HoldVersions, CountsUsers
<1>2. HoldShape /\ EarlyInv /\ Base /\ FilesInv
  BY <1>1 DEF HoldInv, HoldShape
<1>3. PICK f \in Files : files[f] = "open"
  BY <1>2, TouchOnOpenFile
<1>4. mod \notin {"unloading", "out"}
  BY <1>1, <1>3, HoldsModule DEF OpenFileHoldsModule
<1>5. mod \in {"loading", "live"}
  BY <1>2, <1>4 DEF Base
<1>6. mod = "loading" => run[admin].todo = <<>> /\ run[admin].ok
  BY <1>1, <1>2, <1>3 DEF EarlyInv
<1>7. Lines \subseteq held
  BY <1>3, <1>5, <1>6, LinesThere
<1>8. QED
  BY <1>2, <1>7, TouchOnOpenFile

-----------------------------------------------------------------------------
(* The references of the version that allocates a structure for each file. *)

\* Programs in which this one call comes between calls of C.
Around(C, call, R) == UNION {{q \o (Do(call) \o r) : q \in Simple(C)} : r \in R}

LEMMA InAround ==
  ASSUME NEW C, NEW call, NEW R, NEW q \in Simple(C), NEW r \in R, NEW w, NEW p,
         w = Do(call) \o r, p = q \o w
  PROVE  p \in Around(C, call, R)
<1>1. p \in {s \o (Do(call) \o r) : s \in Simple(C)}
  OBVIOUS
<1>2. QED
  BY <1>1 DEF Around

LEMMA AroundSteps ==
  ASSUME NEW C, NEW call, call \notin C, NEW R, R \subseteq Simple(C),
         NEW p \in Around(C, call, R)
  PROVE  /\ p # <<>> /\ Head(p).call \in C \cup {call} /\ Head(p).fail = <<>>
         /\ Head(p).call = call => Tail(p) \in R /\ Head(p).checked
         /\ Head(p).call # call => Tail(p) \in Around(C, call, R)
         /\ p \notin Program(C)
<1> DEFINE D == C \cup {call}
           S == Statements(D, {<<>>})
           T == Statements(C, {<<>>})
           a == One(call)
<1>1. PICK q \in Simple(C), r \in R : p = q \o (Do(call) \o r)
  BY DEF Around
<1> DEFINE w == Do(call) \o r
<1>2. Simple(C) = Seq(T) /\ T \subseteq S
  BY DEF Simple, Statements
<1>3. a \in S /\ a.call = call /\ a.fail = <<>> /\ a.checked
  BY DEF One, On, Statements
<1>4. w = <<a>> \o r /\ p = q \o w
  BY <1>1, OneStatement
<1>5. \A s \in S : s.fail = <<>> /\ s.call \in D
  BY DEF Statements
<1>6. \A s \in T : s.call # call
  BY DEF Statements
<1>7. w = Do(call) \o r
  OBVIOUS
<1> HIDE DEF S, T, a, w
<1>8. q \in Seq(T) /\ q \in Seq(S) /\ r \in Seq(S)
  BY <1>2, SeqMonotone
<1>9. /\ p # <<>>
      /\ q = <<>> => Head(p) = a /\ Tail(p) = r
      /\ q # <<>> => Head(p) = Head(q) /\ Tail(p) = Tail(q) \o w
      /\ Len(q) + 1 \in DOMAIN p /\ p[Len(q) + 1] = a
  <2>1. CASE q = <<>>
    BY <1>3, <1>4, <1>8, <2>1
  <2>2. CASE q # <<>>
    <3>1. p # <<>> /\ Head(p) = Head(q)
      BY <1>3, <1>4, <1>8, <2>2
    <3>2. Tail(p) = Tail(q) \o w
      BY <1>3, <1>4, <1>8, <2>2
    <3>3. Len(q) + 1 \in DOMAIN p /\ p[Len(q) + 1] = a
      BY <1>3, <1>4, <1>8, <2>2
    <3>4. QED
      BY <2>2, <3>1, <3>2, <3>3
  <2>3. QED
    BY <2>1, <2>2
<1>10. q # <<>> => Head(q) \in T /\ Tail(q) \in Simple(C)
  BY <1>2, <1>8
<1>11. Head(p).call \in D /\ Head(p).fail = <<>>
  BY <1>2, <1>3, <1>5, <1>9, <1>10
<1>12. Head(p).call = call => Tail(p) \in R /\ Head(p).checked
  BY <1>1, <1>3, <1>6, <1>9, <1>10
<1>13. ASSUME Head(p).call # call PROVE Tail(p) \in Around(C, call, R)
  <2>1. q # <<>>
    BY <1>3, <1>9, <1>13
  <2>2. Tail(p) = Tail(q) \o w /\ Tail(q) \in Simple(C)
    BY <1>9, <1>10, <2>1
  <2>3. QED
    BY <1>7, <2>2, InAround
<1>14. p \notin Program(C)
  <2> DEFINE P == Statements(C, Nested(C))
  <2>1. \A s \in P : s.call # call
    BY DEF Statements
  <2>2. Program(C) = Seq(P)
    BY DEF Program
  <2> HIDE DEF P
  <2>3. p \in Seq(P) => p[Len(q) + 1] \in P
    BY <1>9
  <2>4. QED
    BY <1>3, <1>9, <2>1, <2>2, <2>3
<1>15. QED
  BY <1>9, <1>11, <1>12, <1>13, <1>14

\* open() takes its reference last; release() gives it back between two others.
BeforeGet  == {"kmalloc", "gpio_to_irq", "request_irq", "test_open", "set_open"}
AroundPut  == {"free_irq", "clear_open", "kfree"}
StillToGet == Around(BeforeGet, "try_module_get", {<<>>})
StillToPut == Around(AroundPut, "module_put", Simple(AroundPut))
KmallocLeft(op) ==
  IF op = "open" THEN StillToGet \cup {<<>>}
  ELSE IF op = "release" THEN StillToPut \cup Simple(AroundPut)
  ELSE IF op = "init" THEN {p \in Program(AllCalls \ HoldCalls) : p \in AskLast \cup {<<>>}}
  ELSE Program(PlainCalls)

LEMMA GetPutSteps ==
  /\ \A p \in StillToGet :
       /\ p # <<>> /\ Head(p).fail = <<>> /\ Head(p).call \in BeforeGet \cup {"try_module_get"}
       /\ Head(p).call = "try_module_get" => Tail(p) = <<>> /\ Head(p).checked
       /\ Head(p).call # "try_module_get" => Tail(p) \in StillToGet
  /\ \A p \in StillToPut :
       /\ p # <<>> /\ Head(p).call \in AroundPut \cup {"module_put"}
       /\ Head(p).call = "module_put" => Tail(p) \in Simple(AroundPut)
       /\ Head(p).call # "module_put" => Tail(p) \in StillToPut
       /\ p \notin Simple(AroundPut)
  /\ \A p \in Simple(AroundPut) :
       p # <<>> => Tail(p) \in Simple(AroundPut) /\ Head(p).call \in AroundPut
<1>1. /\ "try_module_get" \notin BeforeGet /\ {<<>>} \subseteq Simple(BeforeGet)
      /\ "module_put" \notin AroundPut /\ Simple(AroundPut) \subseteq Program(AroundPut)
  BY Notation DEF BeforeGet, AroundPut
<1>2. \A p \in Simple(AroundPut) :
        p # <<>> => Tail(p) \in Simple(AroundPut) /\ Head(p).call \in AroundPut
  <2>1. \A s \in Statements(AroundPut, {<<>>}) : s.call \in AroundPut
    BY DEF Statements
  <2>2. QED
    BY <2>1 DEF Simple
<1>3. ASSUME NEW p \in StillToGet
      PROVE  /\ p # <<>> /\ Head(p).fail = <<>>
             /\ Head(p).call \in BeforeGet \cup {"try_module_get"}
             /\ Head(p).call = "try_module_get" => Tail(p) = <<>> /\ Head(p).checked
             /\ Head(p).call # "try_module_get" => Tail(p) \in StillToGet
  <2> DEFINE R == {<<>>}
  <2>1. /\ StillToGet = Around(BeforeGet, "try_module_get", R)
        /\ R \subseteq Simple(BeforeGet) /\ \A r \in R : r = <<>>
    BY <1>1 DEF StillToGet
  <2> HIDE DEF R
  <2>2. /\ p # <<>> /\ Head(p).fail = <<>>
        /\ Head(p).call \in BeforeGet \cup {"try_module_get"}
        /\ Head(p).call = "try_module_get" => Tail(p) \in R /\ Head(p).checked
        /\ Head(p).call # "try_module_get" =>
             Tail(p) \in Around(BeforeGet, "try_module_get", R)
    BY <1>1, <2>1, AroundSteps
  <2>3. QED
    BY <2>1, <2>2
<1>4. ASSUME NEW p \in StillToPut
      PROVE  /\ p # <<>> /\ Head(p).call \in AroundPut \cup {"module_put"}
             /\ Head(p).call = "module_put" => Tail(p) \in Simple(AroundPut)
             /\ Head(p).call # "module_put" => Tail(p) \in StillToPut
             /\ p \notin Simple(AroundPut)
  BY <1>1, <1>4, AroundSteps DEF StillToPut
<1>5. QED
  BY <1>2, <1>3, <1>4

LEMMA KmallocOpens ==
  Kmalloc.open \in StillToGet
<1> DEFINE irqs == ForEach(gpioKey, <<"request_irq">>)
<1> DEFINE q == Do("kmalloc") \o IrqLines.toIrq \o irqs
           C == BeforeGet
<1>1. Kmalloc.open = q \o OpenOnce
  BY DEF Kmalloc, KmallocCalls, KmallocLoad, Version, Plain
<1>2. {Do("kmalloc"), IrqLines.toIrq, irqs, Do("test_open"), Do("set_open")} \subseteq Simple(C)
  BY Notation, SharedPrograms DEF BeforeGet
<1>3. \A s, t \in Simple(C) : s \o t \in Simple(C)
  BY Notation
<1>4. q \in Simple(C)
  BY <1>2, <1>3
<1> HIDE DEF q
<1> HIDE DEF irqs
<1>5. Do("try_module_get") \in Program(AllCalls) /\ Simple(C) \subseteq Program(AllCalls)
  <2>1. BeforeGet \subseteq AllCalls
    BY DEF BeforeGet, AllCalls, FileCalls, IrqCalls
  <2>2. QED
    BY <2>1, HoldCallsIn, Notation, MonotoneIn
<1> DEFINE test == Do("test_open") \o Do("set_open")
           get  == Do("try_module_get")
<1>6. test \in Simple(C) /\ Kmalloc.open = q \o (test \o get) /\ get = get \o <<>>
  BY <1>1, <1>2, <1>3, <1>5 DEF OpenOnce, Program
<1>7. get \in Program(AllCalls)
  BY <1>5
<1> HIDE DEF test
<1>8. q \o test \in Simple(C)
  BY <1>3, <1>4, <1>6
<1>9. (q \o test) \o get = q \o (test \o get)
  <2> HIDE DEF get
  <2>1. q \in Program(AllCalls) /\ test \in Program(AllCalls) /\ get \in Program(AllCalls)
    BY <1>4, <1>5, <1>6, <1>7
  <2>2. QED
    BY <2>1, ConcatAssociates
<1>10. Kmalloc.open \in StillToGet
  <2> DEFINE s == q \o test
  <2>1. s \in Simple(C) /\ Kmalloc.open = s \o get /\ get = Do("try_module_get") \o <<>>
    BY <1>6, <1>8, <1>9
  <2> HIDE DEF s, get
  <2>2. QED
    BY <2>1, InAround DEF StillToGet
<1>11. QED
  BY <1>10

LEMMA KmallocReleases ==
  Kmalloc.release \in StillToPut
<1> DEFINE C == AroundPut
<1>1. Kmalloc.release = IrqLines.freeIrq \o (Do("module_put") \o Do("clear_open")) \o Do("kfree")
  BY DEF Kmalloc, KmallocCalls, KmallocLoad, Version, Plain, CloseOnce
<1>2. {IrqLines.freeIrq, Do("clear_open"), Do("kfree")} \subseteq Simple(C)
  BY Notation, SharedPrograms DEF AroundPut
<1>3. Do("clear_open") \o Do("kfree") \in Simple(C)
  BY <1>2, Notation
<1>4. Do("module_put") \in Program(AllCalls) /\ Simple(C) \subseteq Program(AllCalls)
  <2>1. AroundPut \subseteq AllCalls
    BY DEF AroundPut, AllCalls, FileCalls, IrqCalls
  <2>2. QED
    BY <2>1, HoldCallsIn, Notation, MonotoneIn
<1> DEFINE free  == IrqLines.freeIrq
           put   == Do("module_put")
           clear == Do("clear_open")
           last  == Do("kfree")
<1>5. /\ Kmalloc.release = free \o (put \o clear) \o last
      /\ free \in Simple(C) /\ clear \o last \in Simple(C)
      /\ {free, put, clear, last} \subseteq Program(AllCalls)
  BY <1>1, <1>2, <1>3, <1>4
<1>6. put = Do("module_put")
  OBVIOUS
<1> HIDE DEF free, put, clear, last
<1>7. free \o (put \o clear) \o last = free \o (put \o (clear \o last))
  <2> DEFINE S == Statements(AllCalls, Nested(AllCalls))
  <2>1. free \in Seq(S) /\ put \in Seq(S) /\ clear \in Seq(S) /\ last \in Seq(S)
    BY <1>5 DEF Program
  <2> HIDE DEF S
  <2>2. QED
    BY <2>1
<1>8. Kmalloc.release = free \o (put \o (clear \o last))
  BY <1>5, <1>7
<1>9. Kmalloc.release \in StillToPut
  <2> DEFINE r == clear \o last
             w == put \o r
  <2>1. r \in Simple(C) /\ w = Do("module_put") \o r /\ Kmalloc.release = free \o w
    BY <1>5, <1>6, <1>8
  <2> HIDE DEF r, w
  <2>2. QED
    BY <1>5, <2>1, InAround DEF StillToPut
<1>10. QED
  BY <1>9

LEMMA KmallocBegins ==
  ASSUME NEW op \in Ops \ {"idle"}, NEW p, Begins("Kmalloc", op, p)
  PROVE  p \in KmallocLeft(op)
<1>1. Driver["Kmalloc"] = Kmalloc
  BY DriverIs
<1>2. CASE op = "open"
  BY <1>1, <1>2, KmallocOpens DEF Begins, KmallocLeft
<1>3. CASE op = "release"
  BY <1>1, <1>3, KmallocReleases DEF Begins, KmallocLeft
<1>4. CASE op = "init"
  <2> DEFINE C == AllCalls \ {"register_chrdev"}
             q == Do("mutex_init") \o OneLoopLines.ledInit \o OneLoopLines.keyInit
  <2>1. RequestCalls \cup {"mutex_init"} \subseteq C
    BY DEF AllCalls, LineCalls, MutexCalls, RequestCalls
  <2>2. \A s \in Simple(C) : s \o Do("register_chrdev") \in AskLast
    BY DEF AskLast
  <2> HIDE DEF C
  <2>3. q \in Simple(C)
    BY <2>1, Notation, SharedPrograms
  <2>4. Kmalloc.init = q \o Do("register_chrdev")
    BY DEF Kmalloc, KmallocCalls, KmallocLoad, KmallocGpio, Version, Plain
  <2>5. Kmalloc.init \in Program(AllCalls \ HoldCalls)
    <3>1. RequestCalls \cup {"mutex_init", "register_chrdev"} \subseteq AllCalls \ HoldCalls
      BY PlainIn
    <3>2. \A E, F : E \subseteq F => Program(E) \subseteq Program(F)
      BY MonotoneIn
    <3>3. QED
      BY <3>1, <3>2, KmallocIn
  <2>6. QED
    BY <1>1, <1>4, <2>2, <2>3, <2>4, <2>5 DEF Begins, KmallocLeft
<1>5. CASE op \in {"exit", "isr", "timer", "call", "direct"}
  <2>1. KmallocLeft(op) = Program(PlainCalls)
    BY <1>5 DEF KmallocLeft
  <2>2. /\ {<<>>, TakeUnderMutex, Touch(Leds), StoreUnderMutex(<<>>)} \subseteq Program(PlainCalls)
        /\ Kmalloc.exit \in Program(PlainCalls)
    <3>1. Kmalloc.exit \in Program(PlainCalls)
      <4>1. {"unregister_chrdev", "gpio_free", "mutex_destroy"} \subseteq PlainCalls
        BY PlainIn
      <4>2. QED
        <5>1. \A E, F : E \subseteq F => Program(E) \subseteq Program(F)
          BY MonotoneIn
        <5>2. QED
          BY <4>1, <5>1, KmallocIn
    <3>2. QED
      BY <3>1, PlainIn, Notation, FilePrograms
  <2>3. \A c \in DOMAIN Kmalloc.calls : Kmalloc.calls[c] \in {<<>>, TakeUnderMutex, Touch(Leds)}
    BY DEF Kmalloc, KmallocCalls, KmallocLoad, Version, Plain
  <2>4. /\ Kmalloc.timer = <<>> /\ DOMAIN Kmalloc.direct = {}
        /\ Kmalloc.isr = StoreUnderMutex(<<>>)
    BY DEF Kmalloc, KmallocCalls, Version, Plain
  <2>5. p \in Program(PlainCalls)
    BY <1>1, <1>5, <2>2, <2>3, <2>4 DEF Begins
  <2>6. QED
    BY <2>1, <2>5
<1>6. QED
  BY <1>2, <1>3, <1>4, <1>5 DEF Ops

LEMMA KmallocLeftClosed ==
  ASSUME NEW op
  PROVE  Closed(KmallocLeft(op))
<1>1. Closed(StillToGet \cup {<<>>})
  BY GetPutSteps DEF Closed
<1>2. Closed(StillToPut \cup Simple(AroundPut))
  <2>1. <<>> \in Simple(AroundPut)
    BY Notation
  <2>2. (AroundPut \cup {"module_put"}) \cap MayFail = {}
    BY DEF AroundPut, MayFail
  <2>3. QED
    BY <2>1, <2>2, GetPutSteps DEF Closed
<1>3. Closed({p \in Program(AllCalls \ HoldCalls) : p \in AskLast \cup {<<>>}})
  <2>1. Closed(Program(AllCalls \ HoldCalls))
    BY ProgramClosed
  <2>2. QED
    BY <2>1, AskLastSteps DEF Closed
<1>4. Closed(Program(PlainCalls))
  BY ProgramClosed
<1>5. QED
  BY <1>1, <1>2, <1>3, <1>4 DEF KmallocLeft

\* What is known of the functions that run, in that version.
KmallocShape ==
  /\ Base /\ FilesInv
  /\ drv = "Kmalloc"
  /\ \A a \in Actors :
       /\ run[a].todo \in KmallocLeft(run[a].op)
       /\ run[a].todo # <<>> /\ run[a].op \in {"open", "init"} => run[a].ok

LEMMA InitKmallocShape ==
  ASSUME Init, drv = "Kmalloc"
  PROVE  KmallocShape
<1>1. \A a \in Actors : run[a].todo = <<>>
  BY DEF Init, Idle
<1>2. \A op : <<>> \in KmallocLeft(op)
  BY KmallocLeftClosed DEF Closed
<1>3. QED
  BY <1>1, <1>2, InitBase, InitFilesInv DEF KmallocShape

LEMMA NextKmallocShape ==
  ASSUME KmallocShape, [Next]_vars
  PROVE  KmallocShape'
<1>1. Base /\ FilesInv /\ drv = "Kmalloc" /\ drv \in DOMAIN Driver
  BY DriverIs DEF KmallocShape
<1>2. drv' = drv
  BY StatementFrame, OtherFrame DEF vars, modVars
<1>3. Base' /\ FilesInv'
  BY <1>1, BeginsKnown, NextBase, NextFilesInv
<1>4. ASSUME NEW a \in Actors
      PROVE  run'[a].todo \in KmallocLeft(run'[a].op)
  <2>1. run'[a].op \in Ops
    <3>1. run'[a].op \in OpsOf(a)
      BY <1>3 DEF Base
    <3>2. QED
      BY <3>1, ActorOps DEF Ops, Actors
  <2>2. CASE run'[a].op = "idle"
    <3>1. run'[a].todo = <<>>
      BY <1>3, <2>2 DEF Base, Idle
    <3>2. QED
      BY <3>1, KmallocLeftClosed DEF Closed
  <2>3. ASSUME NEW op \in Ops \ {"idle"}, run'[a].op = op
        PROVE  run'[a].todo \in KmallocLeft(op)
    <3>1. Closed(KmallocLeft(op))
      BY KmallocLeftClosed
    <3>2. run[a].op = op => run[a].todo \in KmallocLeft(op)
      BY DEF KmallocShape
    <3>3. \A p : Begins(drv, op, p) => p \in KmallocLeft(op)
      BY <1>1, KmallocBegins
    <3>4. QED
      BY <1>1, <2>3, <3>1, <3>2, <3>3, StaysInOp
  <2>4. QED
    BY <2>1, <2>2, <2>3
<1>5. ASSUME NEW a \in Actors, run'[a].todo # <<>>, run'[a].op \in {"open", "init"}
      PROVE  run'[a].ok
  <2>1. Formed(run[a]) /\ Steps(a)
    BY <1>1, NextRun DEF Base
  <2>2. run[a].todo # <<>> /\ run[a].op \in {"open", "init"} => run[a].ok /\ Now(a).fail = <<>>
    <3>1. run[a].op = "open" => run[a].todo \in StillToGet \cup {<<>>}
      BY DEF KmallocShape, KmallocLeft
    <3>2. run[a].op = "init" => run[a].todo \in AskLast \cup {<<>>}
      BY DEF KmallocShape, KmallocLeft
    <3>3. QED
      BY <3>1, <3>2, GetPutSteps, AskLastSteps DEF KmallocShape, Now
  <2>3. CASE Same(a)
    BY <1>5, <2>2, <2>3 DEF Same
  <2>4. CASE Advances(a) \/ Copies(a)
    BY <1>5, <2>1, <2>2, <2>4 DEF Advances, Copies, At, Formed
  <2>5. CASE Fails(a)
    BY <1>5, <2>1, <2>2, <2>5 DEF Fails, Formed
  <2>6. CASE Starts(a)
    <3>1. \A o, p, f : [op |-> o, todo |-> p, ok |-> TRUE, file |-> f, got |-> 0].ok
      OBVIOUS
    <3>2. QED
      BY <2>6, <3>1, Zenon DEF Starts
  <2>7. CASE Ends(a)
    BY <1>5, <2>7 DEF Ends, Idle
  <2>8. QED
    BY <2>1, <2>3, <2>4, <2>5, <2>6, <2>7 DEF Steps
<1>6. QED
  BY <1>1, <1>2, <1>3, <1>4, <1>5 DEF KmallocShape

\* Who takes a reference, who gives one back and who registers.
LEMMA WhoCounts ==
  ASSUME KmallocShape, NEW a \in Actors, run[a].todo # <<>>
  PROVE  /\ Now(a).call = "try_module_get" =>
              /\ a \in Threads /\ run[a].op = "open" /\ run[a].todo \in StillToGet /\ run[a].ok
         /\ Now(a).call = "module_put" =>
              a \in Threads /\ run[a].op = "release" /\ run[a].todo \in StillToPut
         /\ Now(a).call = "register_chrdev" =>
              a = admin /\ run[a].op = "init" /\ run[a].todo \in AskLast
<1>1. run[a].todo \in KmallocLeft(run[a].op) /\ run[a].op \in OpsOf(a)
  BY DEF KmallocShape, Base
<1>2. /\ run[a].op \in {"open", "release"} => a \in Threads
      /\ run[a].op = "init" => a = admin
  BY <1>1, ActorOps DEF Actors
<1>3. CASE run[a].op = "open"
  <2>1. run[a].todo \in StillToGet /\ run[a].ok
    BY <1>1, <1>3 DEF KmallocShape, KmallocLeft
  <2>2. Now(a).call \in BeforeGet \cup {"try_module_get"}
    BY <2>1, GetPutSteps DEF Now
  <2>3. QED
    BY <1>2, <1>3, <2>1, <2>2 DEF BeforeGet
<1>4. CASE run[a].op = "release"
  <2>1. run[a].todo \in StillToPut \cup Simple(AroundPut)
    BY <1>1, <1>4 DEF KmallocLeft
  <2>2. /\ Now(a).call \in AroundPut \cup {"module_put"}
        /\ Now(a).call \notin AroundPut => run[a].todo \in StillToPut
    BY <2>1, GetPutSteps DEF Now
  <2>3. QED
    BY <1>2, <1>4, <2>2 DEF AroundPut
<1>5. CASE run[a].op = "init"
  <2>1. run[a].todo \in AskLast
    BY <1>1, <1>5 DEF KmallocLeft
  <2>2. Now(a).call \notin {"try_module_get", "module_put"}
    <3>1. run[a].todo \in Program(AllCalls \ HoldCalls)
      BY <1>1, <1>5 DEF KmallocLeft
    <3>2. Now(a).call \in AllCalls \ HoldCalls
      BY <3>1, ProgramSteps DEF Now
    <3>3. QED
      BY <3>2 DEF HoldCalls
  <2>3. QED
    BY <1>2, <1>5, <2>1, <2>2
<1>6. CASE run[a].op \notin {"open", "release", "init"}
  <2>1. Now(a).call \in PlainCalls
    BY <1>1, <1>6, ProgramSteps DEF KmallocLeft, Now
  <2>2. QED
    BY <2>1 DEF PlainCalls, HoldCalls
<1>7. QED
  BY <1>3, <1>4, <1>5, <1>6

-----------------------------------------------------------------------------
\* Who has a reference: open files, and functions that took one and still have it.
Took(r) == \/ r.op = "open" /\ r.ok /\ r.todo = <<>>
           \/ r.op = "release" /\ r.todo \in StillToPut
OpenFiles == {f \in Files : files[f] = "open"}
Holding   == {t \in Threads : Took(run[t])}

\* As long as init has something to do, and after it failed, nobody is in the
\* driver; while the module is there, every holder has been counted; once it is
\* being unloaded there is none.
KmallocInv ==
  /\ KmallocShape
  /\ mod = "loading" /\ (run[admin].todo # <<>> \/ ~run[admin].ok) =>
       "chrdev" \notin nodes /\ \A f \in Files : files[f] = "closed"
  /\ mod \in {"loading", "live"} => Counted({}, OpenFiles, Holding, refs, FALSE)
  /\ mod \in {"unloading", "out"} => OpenFiles = {} /\ Holding = {}

LEMMA NobodyHolds ==
  ASSUME KmallocShape, \A f \in Files : files[f] = "closed"
  PROVE  OpenFiles = {} /\ Holding = {}
<1>1. \A t \in Threads : run[t].op \notin {"open", "release"}
  BY DEF KmallocShape, FilesInv
<1>2. QED
  BY <1>1 DEF OpenFiles, Holding, Took

LEMMA InitKmallocInv ==
  ASSUME Init, drv = "Kmalloc"
  PROVE  KmallocInv
<1>1. KmallocShape
  BY InitKmallocShape
<1>2. \A f \in Files : files[f] = "closed"
  BY DEF Init
<1>3. QED
  BY <1>1, <1>2, NobodyHolds DEF Init, KmallocInv

LEMMA NextKmallocEarly ==
  ASSUME KmallocInv, [Next]_vars, mod' = "loading", run'[admin].todo # <<>> \/ ~run'[admin].ok
  PROVE  "chrdev" \notin nodes' /\ \A f \in Files : files'[f] = "closed"
<1>1. CASE UNCHANGED vars
  BY <1>1 DEF vars, modVars, fileVars, KmallocInv
<1>2. CASE Insmod
  BY <1>2 DEF Insmod, NothingDangles
<1> SUFFICES ASSUME Next, ~Insmod
             PROVE  "chrdev" \notin nodes' /\ \A f \in Files : files'[f] = "closed"
  BY <1>1, <1>2
<1>3. KmallocShape /\ Base /\ FilesInv /\ admin \in Actors /\ Formed(run[admin])
  BY DEF KmallocInv, KmallocShape, Base, Actors
<1>5. mod = "loading" /\ run[admin].op = "init" /\ run'[admin].op = "init"
  BY <1>3, ModStep DEF Base
<1>6. run[admin].todo # <<>> \/ ~run[admin].ok
  <2>1. Steps(admin)
    BY <1>3, NextRun
  <2>2. ~Starts(admin) /\ ~Ends(admin)
    BY <1>5 DEF Starts, Ends, Idle
  <2>3. QED
    BY <2>1, <2>2 DEF Steps, Same, Advances, Copies, Fails, At
<1>7. "chrdev" \notin nodes /\ \A f \in Files : files[f] = "closed"
  BY <1>5, <1>6 DEF KmallocInv
<1>8. CASE \A a \in Actors : ~Statement(a)
  <2>1. UNCHANGED nodes
    BY <1>8, OtherFrame
  <2>2. ASSUME NEW t \in Threads PROVE ~OpenReturns(t) /\ ~ReleaseReturns(t)
    BY <1>3, <1>7 DEF FilesInv, OpenReturns, ReleaseReturns, Done
  <2>3. ASSUME NEW t \in Threads, NEW f \in Files PROVE ~Open(t, f) /\ ~Close(t, f)
    BY <1>7 DEF Open, Close
  <2>4. QED
    BY <1>7, <1>8, <2>1, <2>2, <2>3, OtherFrame
<1>9. ASSUME NEW a \in Actors, Statement(a)
      PROVE  UNCHANGED files /\ "chrdev" \notin nodes'
  <2>1. UNCHANGED files
    BY <1>9, StatementFrame
  <2>2. ASSUME RegisterChrdev(a) PROVE UNCHANGED nodes
    <3>1. Now(a).call = "register_chrdev" /\ run[a].todo # <<>>
      BY <2>2 DEF RegisterChrdev, At
    <3>2. a = admin /\ run[a].op = "init" /\ run[a].todo \in AskLast
      BY <1>3, <3>1, WhoCounts
    <3>3. Tail(run[a].todo) = <<>> /\ run[a].ok
      BY <1>3, <3>1, <3>2, AskLastSteps DEF KmallocShape, Now
    <3>4. ~Accepted(a)
      <4>1. Formed(run[a]) /\ DOMAIN run = Actors
        BY <1>3, <3>2 DEF Base
      <4>2. Succeed(a) => run'[a].todo = <<>> /\ run'[a].ok
        BY <3>3, <4>1 DEF Succeed, Formed
      <4>3. QED
        BY <3>2, <4>2 DEF Accepted
    <3>5. QED
      BY <2>2, <3>4 DEF RegisterChrdev
  <2>3. QED
    BY <1>7, <1>9, <2>1, <2>2, StatementFrame DEF UnregisterChrdev, ProvideCall, RemoveCall
<1>10. QED
  BY <1>7, <1>8, <1>9

-----------------------------------------------------------------------------

LEMMA HoldingStep ==
  ASSUME KmallocShape, NEW t \in Threads, Alone(t)
  PROVE  /\ (Took(run[t]) <=> Took(run'[t])) => UNCHANGED Holding
         /\ ~Took(run[t]) /\ Took(run'[t]) => t \notin Holding /\ Holding' = Holding \cup {t}
         /\ Took(run[t]) /\ ~Took(run'[t]) => t \in Holding /\ Holding' = Holding \ {t}
<1>1. \A u \in Threads : u # t => run'[u] = run[u]
  BY DEF Alone, Same, Actors
<1> DEFINE In(u) == Took(run[u])
           Next_(u) == Took(run'[u])
<1>2. \A u \in Threads : u # t => (In(u) <=> Next_(u))
  BY <1>1
<1>3. Holding = {u \in Threads : In(u)} /\ Holding' = {u \in Threads : Next_(u)}
  BY DEF Holding, Took
<1> HIDE DEF In, Next_
<1>4. /\ (In(t) <=> Next_(t)) => Holding' = Holding
      /\ ~In(t) /\ Next_(t) => t \notin Holding /\ Holding' = Holding \cup {t}
      /\ In(t) /\ ~Next_(t) => t \in Holding /\ Holding' = Holding \ {t}
  BY <1>2, <1>3
<1>5. QED
  BY <1>4 DEF In, Next_

\* A step in which nobody takes a reference or gives one back.
Unmoved == UNCHANGED <<refs, OpenFiles, Holding>>

\* A statement that is neither of the two calls leaves what its function holds.
LEMMA UnmovedStatement ==
  ASSUME KmallocShape, NEW a \in Actors, Statement(a),
         a \in asleep \/ Now(a).call \notin {"try_module_get", "module_put"}
  PROVE  Unmoved /\ UNCHANGED mod
<1>0. Base
  BY DEF KmallocShape
<1>1. Now(a).call \notin {"try_module_get", "module_put"}
  BY <1>0 DEF Base
<1>2. UNCHANGED <<refs, files, mod>>
  BY <1>1, StatementFrame DEF TryModuleGet, ModulePut, At
<1>3. UNCHANGED OpenFiles
  BY <1>2 DEF OpenFiles
<1>4. ASSUME NEW t \in Threads PROVE Took(run[t]) <=> Took(run'[t])
  <2>0. t \in Actors
    BY DEF Actors
  <2>1. CASE t # a
    BY <1>0, <2>0, <2>1, StatementRun DEF Alone, Same
  <2>2. CASE t = a
    <3>1. Formed(run[a]) /\ run'[a].op = run[a].op
      BY <1>0, StatementKeeps DEF Base
    <3>2. CASE run[a].op \notin {"open", "release"}
      BY <2>2, <3>1, <3>2 DEF Took
    <3>3. CASE Same(a)
      BY <2>2, <3>3 DEF Same
    <3>4. CASE run[a].op = "open" /\ run[a].todo # <<>>
      <4>1. run[a].todo \in StillToGet
        BY <3>4 DEF KmallocShape, KmallocLeft
      <4>2. Tail(run[a].todo) # <<>>
        BY <1>1, <4>1, GetPutSteps DEF Now
      <4>3. ~Took(run[a])
        BY <3>4 DEF Took
      <4>4. Advances(a) \/ Copies(a) => run'[a].todo = Tail(run[a].todo)
        BY <3>1 DEF Advances, Copies, Formed
      <4>5. Fails(a) => ~run'[a].ok
        BY <3>1 DEF Fails, Formed
      <4>6. Same(a) \/ ~Took(run'[a])
        BY <1>0, <3>1, <3>4, <4>2, <4>4, <4>5, StatementRun DEF Took
      <4>7. QED
        BY <2>2, <4>3, <4>6 DEF Same
    <3>5. CASE run[a].op = "release" /\ run[a].todo # <<>>
      <4>1. run[a].todo \in StillToPut \cup Simple(AroundPut)
        BY <3>5 DEF KmallocShape, KmallocLeft
      <4>2. /\ run[a].todo \in StillToPut => Tail(run[a].todo) \in StillToPut
            /\ run[a].todo \notin StillToPut => Tail(run[a].todo) \in Simple(AroundPut)
        BY <1>1, <3>5, <4>1, GetPutSteps DEF Now
      <4>3. run[a].todo \in StillToPut <=> Tail(run[a].todo) \in StillToPut
        BY <4>2, GetPutSteps
      <4>4. Advances(a) \/ Copies(a) => run'[a].todo = Tail(run[a].todo)
        BY <3>1 DEF Advances, Copies, Formed
      <4>5. ~Fails(a)
        <5>1. Now(a).call \in AroundPut \cup {"module_put"}
          BY <3>5, <4>1, GetPutSteps DEF Now
        <5>2. QED
          BY <5>1 DEF Fails, MayFail, AroundPut
      <4>6. QED
        BY <1>0, <2>2, <3>1, <3>3, <3>5, <4>3, <4>4, <4>5, StatementRun DEF Took
    <3>6. Same(a) \/ run[a].todo # <<>>
      BY <1>0, StatementRun DEF Advances, Copies, Fails, At
    <3>7. QED
      BY <3>2, <3>3, <3>4, <3>5, <3>6
  <2>3. QED
    BY <2>1, <2>2
<1>5. UNCHANGED Holding
  BY <1>4 DEF Holding
<1>6. QED
  BY <1>2, <1>3, <1>5 DEF Unmoved

\* The steps that are neither statements of the driver nor its loading.
LEMMA UnmovedOther ==
  ASSUME KmallocShape, Next, \A a \in Actors : ~Statement(a), ~Insmod,
         \A t \in Threads : ~OpenReturns(t) /\ \A f \in Files : ~Close(t, f)
  PROVE  Unmoved
<1>0. /\ Base /\ FilesInv /\ drv = "Kmalloc" /\ DOMAIN run = Actors /\ Threads \subseteq Actors
      /\ Threads \cap (Keys \cup {admin, softirq}) = {}
  BY ActorAssumption DEF KmallocShape, Base, Actors
<1>1. ASSUME UNCHANGED <<refs, files>>, NEW a \in Actors, Alone(a),
             a \in Threads => run[a].op \notin {"open", "release"}
                              /\ run'[a].op \notin {"open", "release"}
      PROVE  Unmoved
  <2>1. ASSUME NEW t \in Threads PROVE Took(run[t]) <=> Took(run'[t])
    <3>1. CASE t = a
      BY <1>1, <3>1 DEF Took
    <3>2. CASE t # a
      BY <1>0, <1>1, <3>2 DEF Alone, Same
    <3>3. QED
      BY <3>1, <3>2
  <2>2. QED
    BY <1>1, <2>1 DEF Unmoved, OpenFiles, Holding
<1>2. ASSUME NEW a \in Actors,
             \/ \E op, p, f : Start(a, op, p, f) /\ op \notin {"open", "release"}
             \/ \E op : Done(a, op) /\ op \notin {"open", "release"}
      PROVE  /\ Alone(a) /\ run[a].op \notin {"open", "release"}
             /\ run'[a].op \notin {"open", "release"}
  BY <1>0, <1>2 DEF Start, Done, Alone, Same, Idle
<1>3. admin \in Actors /\ softirq \in Actors /\ Keys \subseteq Actors
  BY DEF Actors
<1>4. CASE Rmmod \/ InitReturns \/ ExitReturns
  <2>1. UNCHANGED <<refs, files>>
    BY <1>4 DEF Rmmod, InitReturns, ExitReturns, fileVars
  <2>2. Alone(admin) /\ admin \notin Threads
    BY <1>0, <1>2, <1>3, <1>4 DEF Rmmod, InitReturns, ExitReturns
  <2>3. QED
    BY <1>1, <1>3, <2>1, <2>2
<1>5. CASE TimerExpires
  <2>1. UNCHANGED <<refs, files>>
    BY <1>5 DEF TimerExpires, fileVars
  <2>2. Alone(softirq) /\ softirq \notin Threads
    BY <1>0, <1>2, <1>3, <1>5 DEF TimerExpires
  <2>3. QED
    BY <1>1, <1>3, <2>1, <2>2
<1>6. ASSUME NEW k \in Keys, Press(k) PROVE Unmoved
  <2>1. UNCHANGED <<refs, files>>
    BY <1>6 DEF Press, fileVars
  <2>2. Alone(k) /\ k \notin Threads /\ k \in Actors
    BY <1>0, <1>2, <1>3, <1>6 DEF Press
  <2>3. QED
    BY <1>1, <2>1, <2>2
<1>7. ASSUME NEW t \in Threads, DirectCall(t) \/ \E f \in Files : Call(t, f)
      PROVE  Unmoved
  <2>1. UNCHANGED <<refs, files>>
    BY <1>7 DEF DirectCall, Call, fileVars
  <2>2. /\ Alone(t) /\ t \in Actors /\ run[t].op \notin {"open", "release"}
        /\ run'[t].op \notin {"open", "release"}
    BY <1>0, <1>2, <1>7 DEF DirectCall, Call
  <2>3. QED
    BY <1>1, <2>1, <2>2
<1>8. ASSUME NEW a \in Actors, Return(a) PROVE Unmoved
  <2>1. UNCHANGED <<refs, files>>
    BY <1>8 DEF Return, fileVars
  <2>2. Alone(a) /\ run[a].op \notin {"open", "release"}
        /\ run'[a].op \notin {"open", "release"}
    BY <1>2, <1>8 DEF Return
  <2>3. QED
    BY <1>1, <2>1, <2>2
<1>9. Driver[drv].owner = FALSE
  BY <1>0, DriverIs DEF Kmalloc, KmallocCalls, KmallocLoad, Version, Plain
<1>10. ASSUME NEW t \in Threads, NEW f \in Files, Open(t, f) PROVE Unmoved
  <2>1. /\ Start(t, "open", Driver[drv].open, f) /\ UNCHANGED refs
        /\ files[f] = "closed" /\ files' = [files EXCEPT ![f] = "opening"]
    BY <1>9, <1>10 DEF Open
  <2>2. Alone(t) /\ run[t].op = "idle"
    BY <1>0, <2>1 DEF Start, Alone, Same, Idle
  <2>3. run'[t].op = "open" /\ run'[t].todo = Driver[drv].open
    BY <1>0, <2>1 DEF Start
  <2>4. run'[t].todo # <<>>
    <3>1. Driver["Kmalloc"] = Kmalloc
      BY DriverIs
    <3>2. Kmalloc.open \in StillToGet
      BY KmallocOpens
    <3>3. QED
      BY <1>0, <2>3, <3>1, <3>2, GetPutSteps
  <2>5. UNCHANGED Holding
    BY <1>0, <2>2, <2>3, <2>4, HoldingStep DEF Took
  <2>6. UNCHANGED OpenFiles
    <3>1. \A g \in Files : files'[g] = IF g = f THEN "opening" ELSE files[g]
      BY <1>0, <2>1 DEF FilesInv
    <3>2. QED
      BY <2>1, <3>1 DEF OpenFiles
  <2>7. QED
    BY <2>1, <2>5, <2>6 DEF Unmoved
<1>11. ASSUME NEW t \in Threads, ReleaseReturns(t) PROVE Unmoved
  <2>1. /\ run[t].op = "release" /\ run[t].todo = <<>> /\ run'[t] = Idle /\ Alone(t)
    BY <1>0, <1>11 DEF ReleaseReturns, Done, Alone, Same
  <2>2. /\ run[t].file \in Files /\ files[run[t].file] = "closing" /\ UNCHANGED refs
        /\ files' = [files EXCEPT ![run[t].file] = "closed"]
    BY <1>0, <1>9, <1>11, <2>1 DEF ReleaseReturns, FilesInv
  <2>3. ~Took(run[t]) /\ ~Took(run'[t])
    BY <2>1, GetPutSteps DEF Took, Idle
  <2>4. UNCHANGED Holding
    BY <2>1, <2>3, HoldingStep
  <2>5. UNCHANGED OpenFiles
    <3>1. \A g \in Files : files'[g] = IF g = run[t].file THEN "closed" ELSE files[g]
      BY <1>0, <2>2 DEF FilesInv
    <3>2. QED
      BY <2>2, <3>1 DEF OpenFiles
  <2>6. QED
    BY <2>2, <2>4, <2>5 DEF Unmoved
<1>12. QED
  BY <1>4, <1>5, <1>6, <1>7, <1>8, <1>10, <1>11 DEF Next

\* The steps that take a reference, hand it over or give it back.
LEMMA CloseMoves ==
  ASSUME KmallocInv, NEW t \in Threads, NEW f \in Files, Close(t, f)
  PROVE  Counted({}, OpenFiles', Holding', refs', FALSE) /\ UNCHANGED mod
         /\ mod \in {"loading", "live"}
<1>1. KmallocShape /\ Base /\ drv = "Kmalloc" /\ t \in Actors /\ DOMAIN run = Actors
  BY DEF KmallocInv, KmallocShape, Base, Actors
<1>2. /\ files[f] = "open" /\ files' = [files EXCEPT ![f] = "closing"] /\ UNCHANGED <<refs, mod>>
      /\ Start(t, "release", Driver[drv].release, f)
  BY DEF Close, modVars
<1>3. run[t].op = "idle" /\ Alone(t)
  BY <1>1, <1>2 DEF Start, Alone, Same, Idle
<1>4. run'[t].op = "release" /\ run'[t].todo = Driver[drv].release
  BY <1>1, <1>2 DEF Start
<1>5. Driver[drv].release \in StillToPut
  BY <1>1, DriverIs, KmallocReleases
<1>6. ~Took(run[t]) /\ Took(run'[t])
  BY <1>3, <1>4, <1>5 DEF Took
<1>7. t \notin Holding /\ Holding' = Holding \cup {t}
  BY <1>1, <1>3, <1>6, HoldingStep
<1>8. f \in OpenFiles /\ OpenFiles' = OpenFiles \ {f}
  <2>1. \A g \in Files : files'[g] = IF g = f THEN "closing" ELSE files[g]
    BY <1>1, <1>2 DEF KmallocShape, FilesInv
  <2>2. QED
    BY <1>2, <2>1 DEF OpenFiles
<1>9. mod \in {"loading", "live"} /\ Counted({}, OpenFiles, Holding, refs, FALSE)
  BY <1>1, <1>8 DEF KmallocInv, Base
<1>10. Moves({}, OpenFiles, Holding, refs, FALSE, f, t)
  BY <1>9, CountSteps
<1>11. QED
  BY <1>2, <1>7, <1>8, <1>9, <1>10 DEF Moves

LEMMA OpenReturnsMoves ==
  ASSUME KmallocInv, NEW t \in Threads, OpenReturns(t)
  PROVE  /\ UNCHANGED mod
         /\ \/ Unmoved
            \/ /\ mod \in {"loading", "live"}
               /\ Counted({}, OpenFiles', Holding', refs', FALSE)
<1>1. /\ KmallocShape /\ Base /\ FilesInv /\ drv = "Kmalloc" /\ t \in Actors
      /\ DOMAIN run = Actors
  BY DEF KmallocInv, KmallocShape, Base, Actors
<1> DEFINE f == run[t].file
<1>2. run[t].op = "open" /\ run[t].todo = <<>> /\ run'[t] = Idle /\ Alone(t)
  BY <1>1 DEF OpenReturns, Done, Alone, Same
<1>3. Driver[drv].owner = FALSE
  BY <1>1, DriverIs DEF Kmalloc, KmallocCalls, KmallocLoad, Version, Plain
<1>4. /\ f \in Files /\ files[f] = "opening" /\ UNCHANGED <<refs, mod>>
      /\ files' = [files EXCEPT ![f] = IF run[t].ok THEN "open" ELSE "closed"]
  BY <1>1, <1>2, <1>3 DEF OpenReturns, FilesInv, modVars
<1>5. ~Took(run'[t]) /\ (Took(run[t]) <=> run[t].ok)
  BY <1>2 DEF Took, Idle
<1> HIDE DEF f
<1>6. CASE run[t].ok
  <2>1. t \in Holding /\ Holding' = Holding \ {t}
    BY <1>1, <1>2, <1>5, <1>6, HoldingStep
  <2>2. f \notin OpenFiles /\ OpenFiles' = OpenFiles \cup {f}
    <3>1. \A g \in Files : files'[g] = IF g = f THEN "open" ELSE files[g]
      BY <1>1, <1>4, <1>6 DEF FilesInv
    <3>2. QED
      BY <1>4, <3>1 DEF OpenFiles
  <2>3. mod \in {"loading", "live"} /\ Counted({}, OpenFiles, Holding, refs, FALSE)
    BY <1>1, <2>1 DEF KmallocInv, Base
  <2>4. Moves({}, OpenFiles, Holding, refs, FALSE, f, t)
    BY <2>3, CountSteps
  <2>5. QED
    BY <1>4, <2>1, <2>2, <2>3, <2>4 DEF Moves
<1>7. CASE ~run[t].ok
  <2>1. UNCHANGED Holding
    BY <1>1, <1>2, <1>5, <1>7, HoldingStep
  <2>2. UNCHANGED OpenFiles
    <3>1. \A g \in Files : files'[g] = IF g = f THEN "closed" ELSE files[g]
      BY <1>1, <1>4, <1>7 DEF FilesInv
    <3>2. QED
      BY <1>4, <3>1 DEF OpenFiles
  <2>3. QED
    BY <1>4, <2>1, <2>2 DEF Unmoved
<1>8. QED
  BY <1>6, <1>7

LEMMA GetMoves ==
  ASSUME KmallocInv, NEW a \in Actors, Statement(a), a \notin asleep,
         Now(a).call = "try_module_get"
  PROVE  /\ UNCHANGED mod
         /\ \/ Unmoved
            \/ /\ mod \in {"loading", "live"}
               /\ Counted({}, OpenFiles', Holding', refs', FALSE)
<1>1. /\ KmallocShape /\ Base /\ DOMAIN run = Actors /\ Formed(run[a]) /\ run[a].todo # <<>>
  BY StatementFrame DEF KmallocInv, KmallocShape, Base, Signal
<1>2. a \in Threads /\ run[a].op = "open" /\ run[a].todo \in StillToGet /\ run[a].ok
  BY <1>1, WhoCounts
<1>3. Tail(run[a].todo) = <<>> /\ Now(a).checked
  BY <1>2, GetPutSteps DEF Now
<1>4. /\ TryModuleGet(a) /\ Alone(a) /\ run'[a].op = "open" /\ UNCHANGED <<mod, files>>
      /\ mod # "out"
  BY <1>1, <1>2, HoldNames, StatementRun, StatementKeeps, StatementFrame DEF Signal
<1>5. UNCHANGED OpenFiles
  BY <1>4 DEF OpenFiles
<1>6. ~Took(run[a])
  BY <1>1, <1>2 DEF Took
<1>7. CASE mod # "unloading"
  <2>1. refs' = refs + 1 /\ Succeed(a)
    BY <1>4, <1>7 DEF TryModuleGet
  <2>2. run'[a].todo = <<>> /\ run'[a].ok
    BY <1>1, <1>2, <1>3, <2>1 DEF Succeed, Formed
  <2>3. a \notin Holding /\ Holding' = Holding \cup {a}
    BY <1>1, <1>2, <1>4, <1>6, <2>2, HoldingStep DEF Took
  <2>4. mod \in {"loading", "live"} /\ Counted({}, OpenFiles, Holding, refs, FALSE)
    BY <1>1, <1>4, <1>7 DEF KmallocInv, Base
  <2>5. Moves({}, OpenFiles, Holding, refs, FALSE, none, a)
    BY <2>4, CountSteps
  <2>6. QED
    BY <1>4, <1>5, <2>1, <2>3, <2>4, <2>5 DEF Moves
<1>8. CASE mod = "unloading"
  <2>1. UNCHANGED refs /\ Fail(a)
    BY <1>4, <1>8 DEF TryModuleGet
  <2>2. ~run'[a].ok
    BY <1>1, <1>3, <2>1 DEF Fail, Formed
  <2>3. UNCHANGED Holding
    BY <1>1, <1>2, <1>4, <1>6, <2>2, HoldingStep DEF Took
  <2>4. QED
    BY <1>4, <1>5, <2>1, <2>3 DEF Unmoved
<1>9. QED
  BY <1>7, <1>8

LEMMA PutMoves ==
  ASSUME KmallocInv, NEW a \in Actors, Statement(a), a \notin asleep,
         Now(a).call = "module_put"
  PROVE  /\ UNCHANGED mod /\ mod \in {"loading", "live"}
         /\ Counted({}, OpenFiles', Holding', refs', FALSE)
<1>1. /\ KmallocShape /\ Base /\ DOMAIN run = Actors /\ Formed(run[a]) /\ run[a].todo # <<>>
  BY StatementFrame DEF KmallocInv, KmallocShape, Base, Signal
<1>2. a \in Threads /\ run[a].op = "release" /\ run[a].todo \in StillToPut
  BY <1>1, WhoCounts
<1>3. Tail(run[a].todo) \notin StillToPut
  BY <1>2, GetPutSteps DEF Now
<1>4. /\ ModulePut(a) /\ Alone(a) /\ run'[a].op = "release" /\ UNCHANGED <<mod, files>>
  BY <1>1, <1>2, HoldNames, StatementRun, StatementKeeps, StatementFrame
<1>5. UNCHANGED OpenFiles
  BY <1>4 DEF OpenFiles
<1>6. run'[a].todo = Tail(run[a].todo)
  BY <1>1, <1>4 DEF ModulePut, Succeed, Formed
<1>7. a \in Holding /\ Holding' = Holding \ {a}
  BY <1>1, <1>2, <1>3, <1>4, <1>6, HoldingStep DEF Took
<1>8. mod \in {"loading", "live"} /\ Counted({}, OpenFiles, Holding, refs, FALSE)
  BY <1>1, <1>7 DEF KmallocInv, Base
<1>9. Moves({}, OpenFiles, Holding, refs, FALSE, none, a)
  BY <1>8, CountSteps
<1>10. refs > 0 /\ refs' = refs - 1
  BY <1>4, <1>7, <1>9 DEF ModulePut, Moves
<1>11. QED
  BY <1>4, <1>5, <1>7, <1>8, <1>9, <1>10 DEF Moves

\* How the state of the module moves when nobody's reference does.
LEMMA UnmovedCount ==
  ASSUME KmallocInv, Next, Unmoved, ~Insmod
  PROVE  /\ mod' \in {"loading", "live"} => Counted({}, OpenFiles', Holding', refs', FALSE)
         /\ mod' \in {"unloading", "out"} => OpenFiles' = {} /\ Holding' = {}
<1>1. /\ KmallocShape /\ Base
      /\ refs' = refs /\ OpenFiles' = OpenFiles /\ Holding' = Holding
  BY DEF KmallocInv, KmallocShape, Unmoved
<1>2. CASE mod' = mod
  BY <1>1, <1>2 DEF KmallocInv
<1>3. CASE Rmmod /\ mod = "live" /\ mod' = "unloading"
  <2>1. Counted({}, OpenFiles, Holding, refs, FALSE) /\ refs = 0
    BY <1>3 DEF KmallocInv, Rmmod
  <2>2. Moves({}, OpenFiles, Holding, refs, FALSE, none, none)
    BY <2>1, CountSteps
  <2>3. QED
    BY <1>1, <1>3, <2>1, <2>2 DEF Moves
<1>4. CASE InitReturns /\ mod = "loading" /\ mod' = IF run[admin].ok THEN "live" ELSE "out"
  <2>1. ~run[admin].ok => \A f \in Files : files[f] = "closed"
    BY <1>4 DEF KmallocInv
  <2>2. QED
    BY <1>1, <1>4, <2>1, NobodyHolds DEF KmallocInv
<1>5. CASE ExitReturns /\ mod = "unloading" /\ mod' = "out"
  BY <1>1, <1>5 DEF KmallocInv
<1>6. QED
  BY <1>1, <1>2, <1>3, <1>4, <1>5, ModStep

LEMMA InsmodCounts ==
  ASSUME KmallocInv, Insmod
  PROVE  Counted({}, OpenFiles', Holding', refs', FALSE) /\ mod' = "loading"
<1>1. /\ KmallocShape /\ mod' = "loading" /\ refs' = 0 /\ UNCHANGED files
      /\ \A f \in Files : files[f] = "closed"
  BY DEF KmallocInv, Insmod
<1>2. KmallocShape'
  <2>1. Next
    BY DEF Next
  <2>2. QED
    BY <1>1, <2>1, NextKmallocShape
<1>3. \A f \in Files : files'[f] = "closed"
  BY <1>1
<1>4. OpenFiles' = {} /\ Holding' = {}
  <2>1. \A t \in Threads : run'[t].op \notin {"open", "release"}
    BY <1>2, <1>3 DEF KmallocShape, FilesInv
  <2>2. QED
    BY <1>3, <2>1 DEF OpenFiles, Holding, Took
<1>5. Cardinality({}) = 0 /\ IsFiniteSet({})
  BY FS_EmptySet
<1>6. QED
  BY <1>1, <1>4, <1>5 DEF Counted

LEMMA NextKmallocInv ==
  ASSUME KmallocInv, [Next]_vars
  PROVE  KmallocInv'
<1>1. KmallocShape'
  BY NextKmallocShape DEF KmallocInv
<1>2. mod' = "loading" /\ (run'[admin].todo # <<>> \/ ~run'[admin].ok) =>
        "chrdev" \notin nodes' /\ \A f \in Files : files'[f] = "closed"
  BY NextKmallocEarly
<1>3. /\ mod' \in {"loading", "live"} => Counted({}, OpenFiles', Holding', refs', FALSE)
      /\ mod' \in {"unloading", "out"} => OpenFiles' = {} /\ Holding' = {}
  <2>1. CASE UNCHANGED vars
    <3>1. UNCHANGED <<mod, refs, files, run>>
      BY <2>1 DEF vars, modVars, fileVars
    <3>2. OpenFiles' = OpenFiles /\ Holding' = Holding
      BY <3>1 DEF OpenFiles, Holding, Took
    <3>3. QED
      BY <3>1, <3>2 DEF KmallocInv
  <2>2. CASE Insmod
    BY <2>2, InsmodCounts
  <2>3. ASSUME Next, ~Insmod, Unmoved
        PROVE  /\ mod' \in {"loading", "live"} => Counted({}, OpenFiles', Holding', refs', FALSE)
               /\ mod' \in {"unloading", "out"} => OpenFiles' = {} /\ Holding' = {}
    BY <2>3, UnmovedCount
  <2>4. ASSUME NEW a \in Actors, Statement(a)
        PROVE  Unmoved \/ /\ mod' \in {"loading", "live"}
                          /\ Counted({}, OpenFiles', Holding', refs', FALSE)
    <3>1. CASE a \notin asleep /\ Now(a).call = "try_module_get"
      BY <2>4, <3>1, GetMoves
    <3>2. CASE a \notin asleep /\ Now(a).call = "module_put"
      BY <2>4, <3>2, PutMoves
    <3>3. CASE a \in asleep \/ Now(a).call \notin {"try_module_get", "module_put"}
      BY <2>4, <3>3, UnmovedStatement DEF KmallocInv
    <3>4. QED
      BY <3>1, <3>2, <3>3
  <2>5. ASSUME NEW t \in Threads, OpenReturns(t) \/ \E f \in Files : Close(t, f)
        PROVE  Unmoved \/ /\ mod' \in {"loading", "live"}
                          /\ Counted({}, OpenFiles', Holding', refs', FALSE)
    BY <2>5, OpenReturnsMoves, CloseMoves
  <2>6. ASSUME Next, \A a \in Actors : ~Statement(a), ~Insmod,
               \A t \in Threads : ~OpenReturns(t) /\ \A f \in Files : ~Close(t, f)
        PROVE  Unmoved
    BY <2>6, UnmovedOther DEF KmallocInv
  <2>7. QED
    BY <2>1, <2>2, <2>3, <2>4, <2>5, <2>6
<1>4. QED
  BY <1>1, <1>2, <1>3 DEF KmallocInv

LEMMA KmallocTouch ==
  ASSUME KmallocInv, CallsTouch, CompleteInv, NEW a \in Actors, At(a, "touch")
  PROVE  Now(a).lines \subseteq held
<1>1. drv \in Holders /\ Base /\ FilesInv
  BY DEF KmallocInv, KmallocShape, Holders
<1>2. PICK f \in Files : files[f] = "open"
  BY <1>1, TouchOnOpenFile
<1>3. mod \in {"loading", "live"}
  <2>1. f \in OpenFiles
    BY <1>2 DEF OpenFiles
  <2>2. QED
    BY <1>1, <2>1 DEF KmallocInv, Base
<1>4. mod = "loading" => run[admin].todo = <<>> /\ run[admin].ok
  BY <1>2 DEF KmallocInv
<1>5. Lines \subseteq held
  BY <1>1, <1>2, <1>3, <1>4, LinesThere
<1>6. QED
  BY <1>1, <1>5, TouchOnOpenFile

\* What keeps every version that lets nobody in before it has its lines from using
\* one it does not hold.
TouchInv ==
  /\ drv \in Borrowers => OwnInv
  /\ drv \in Holders => CallsTouch /\ HoldInv /\ CompleteInv
  /\ drv = "Kmalloc" => KmallocInv

LEMMA TouchesHeld ==
  ASSUME TouchInv
  PROVE  TouchesHeldLines
<1> SUFFICES ASSUME drv \in RegisteredLast, NEW a \in Actors, At(a, "touch")
             PROVE  Now(a).lines \subseteq held
  BY DEF TouchesHeldLines
<1>1. drv \in Borrowers \cup Holders
  BY DEF RegisteredLast, Borrowers, Holders
<1>2. CASE drv \in Borrowers
  BY <1>2, OwnTouch DEF TouchInv
<1>3. CASE drv = "Kmalloc"
  BY <1>3, KmallocTouch DEF TouchInv, Holders
<1>4. CASE drv \in Holders \ {"Kmalloc"}
  BY <1>4, HolderTouch DEF TouchInv
<1>5. QED
  BY <1>1, <1>2, <1>3, <1>4

LEMMA NextTouchInv ==
  ASSUME TouchInv, [Next]_vars
  PROVE  TouchInv'
<1>1. drv' = drv
  BY StatementFrame, OtherFrame DEF vars, modVars
<1>2. drv \in Borrowers => OwnInv'
  BY NextOwnInv DEF TouchInv
<1>3. drv \in Holders => CallsTouch'
  BY NextCallsTouch DEF TouchInv
<1>4. drv \in Holders => HoldInv'
  BY NextHoldInv DEF TouchInv
<1>5. drv \in Holders => CompleteInv'
  <2>1. drv \in Holders => drv \in HoldBoth \cup HandleKeys
    BY DEF Holders, HoldBoth, HandleKeys
  <2>2. QED
    BY <2>1, NextCompleteInv DEF TouchInv
<1>6. drv = "Kmalloc" => KmallocInv'
  BY NextKmallocInv DEF TouchInv
<1>7. QED
  BY <1>1, <1>2, <1>3, <1>4, <1>5, <1>6 DEF TouchInv

\* Whichever of the eleven versions runs that let nobody in before they have their
\* lines, no function of it reads or writes a line it does not hold.
THEOREM OnlyHeldLinesAreTouched == Spec => []TouchesHeldLines
<1>1. Init => TouchInv
  <2> SUFFICES ASSUME Init PROVE TouchInv
    OBVIOUS
  <2>1. drv \in Holders => drv \in HoldBoth \cup HandleKeys
    BY DEF Holders, HoldBoth, HandleKeys
  <2>2. QED
    BY <2>1, InitOwnInv, InitCallsTouch, InitHoldInv, InitCompleteInv, InitKmallocInv
      DEF TouchInv
<1>2. TouchInv /\ [Next]_vars => TouchInv'
  BY NextTouchInv
<1>3. TouchInv => TouchesHeldLines
  BY TouchesHeld
<1>4. QED
  BY <1>1, <1>2, <1>3, PTL DEF Spec
=============================================================================
