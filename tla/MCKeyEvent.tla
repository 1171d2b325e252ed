----------------------------- MODULE MCKeyEvent -----------------------------
(* Instances of KeyEvent for TLC.                                          *)
EXTENDS KeyEvent

CONSTANTS t1, t2

TwoTasks == {t1, t2}
OneTask  == {t1}
NoTask   == {}
BothModes == {"blocking", "nonblocking"}
=============================================================================
