------------------------------ MODULE MCSweep ------------------------------
(***************************************************************************)
(* Finite instances of Sweep for TLC.                                      *)
(***************************************************************************)
EXTENDS Sweep

CONSTANTS j1, r1, r2, dAlarm, dInline, c1

OneJob == {j1}
AlarmOnly == {dAlarm}
BothDrains == {dAlarm, dInline}

OneRequest  == {r1}
TwoRequests == {r1, r2}
SingleForJ1 == [r \in {r1} |-> j1]
RetryOfJ1   == [r \in {r1, r2} |-> j1]

OneMsg  == [j \in {j1} |-> {1}]
TwoMsgs == [j \in {j1} |-> {1, 2}]

OneContext == [j \in Jobs |-> c1]
=============================================================================
