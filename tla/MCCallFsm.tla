------------------------------ MODULE MCCallFsm ------------------------------
EXTENDS CallFsm

\* The shipped numbers: 123 and 456 are the telephones of one tester, 789 is the
\* telephone of the outer client.
OneHost == [p \in {"123", "456"} |-> "tester"]
TwoHosts == [p \in {"123", "789"} |-> IF p = "789" THEN "outer" ELSE "tester"]
AllThree == [p \in {"123", "456", "789"} |-> IF p = "789" THEN "outer" ELSE "tester"]

\* 456 dials its own number when it dials; 123 dials all sorts of numbers; 456 only
\* answers.
Call456 == [p \in {"123", "456"} |-> {"456"}]
CallAnything == [p \in {"123", "789"} |->
  IF p = "123" THEN {"789", "unassigned", "key", "illegal"} ELSE {"123"}]
BothCall456 == [p \in {"123", "456", "789"} |-> IF p = "456" THEN {} ELSE {"456"}]

Acts32 == [p \in {"123", "456"} |-> IF p = "123" THEN 3 ELSE 2]
Acts321 == [p \in {"123", "789"} |-> IF p = "123" THEN 3 ELSE 2]
Acts213 == [p \in {"123", "456", "789"} |-> IF p = "123" THEN 2 ELSE IF p = "456" THEN 1 ELSE 3]
=============================================================================
