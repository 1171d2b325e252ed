--------------------------- MODULE MCUserPrograms ---------------------------
EXTENDS UserPrograms

AllPrograms == LevelPrograms \cup NumberPrograms

\* No key, the first, the last, two, and the last with another one.
HeldKeys == {0, 1, 2, 3, 128, 129}

\* The keys with a meaning, and those whose number is the mask of another.
KeyNumbers == {1, 2, 3, 4, 8}

Lines == {[text |-> "q", dec |-> 0, hex |-> 0], [text |-> "quit", dec |-> 0, hex |-> 0],
          [text |-> "3", dec |-> 3, hex |-> 3], [text |-> "257", dec |-> 257, hex |-> 599]}
=============================================================================
