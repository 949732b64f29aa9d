------------------------------ MODULE MCFastScan ------------------------------
(* An instance of FastScan for TLC: more groups than a 16-bit lane has room *)
(* for, each with the largest low byte a group can have.                    *)
EXTENDS FastScan

Wide == [d \in 0..(Dim - 1) |-> IF d = 1 THEN MaxVal ELSE IF d % 4 = 0 THEN 255 ELSE 0]
WideQueries == {Wide}
WideBlocks == {<<[rotated |-> Wide, norm |-> 1]>>}
=============================================================================
