------------------------------ MODULE MCIngest ------------------------------
(***************************************************************************)
(* Finite instances of Ingest for TLC.                                     *)
(***************************************************************************)
EXTENDS Ingest

CONSTANTS j1, j2, r1, r2, r3, dAlarm, dInline, c1, c2

OneJob  == {j1}
TwoJobs == {j1, j2}

OneRequest    == {r1}
TwoRequests   == {r1, r2}
ThreeRequests == {r1, r2, r3}
AllForJ1      == [r \in {r1, r2, r3} |-> j1]
RetryOfJ1     == [r \in {r1, r2} |-> j1]
SingleForJ1   == [r \in {r1} |-> j1]
OneEach       == [r \in {r1, r2} |-> IF r = r1 THEN j1 ELSE j2]

OneMsg      == [j \in {j1} |-> {1}]
TwoMsgs     == [j \in {j1} |-> {1, 2}]
Overlapping == [j \in {j1, j2} |-> IF j = j1 THEN {1} ELSE {1, 2}]
WithNoise   == [j \in {j1, j2} |-> IF j = j1 THEN {1} ELSE {2, 3}]
Disjoint    == [j \in {j1, j2} |-> IF j = j1 THEN {1} ELSE {2}]

OneContext  == [j \in Jobs |-> c1]
OwnContexts == [j \in Jobs |-> IF j = j1 THEN c1 ELSE c2]

BothDrains == {dAlarm, dInline}
AlarmOnly  == {dAlarm}
=============================================================================
