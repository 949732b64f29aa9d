---------------------------- MODULE MCReadPlanner ----------------------------
(* Instances of ReadPlanner for TLC. *)
EXTENDS ReadPlanner

CONSTANTS r1, r2, r3, r4, c1, c2, c3

(* c1 has two blocks of one record, c2 and c3 one block each.               *)
MCBlocks == [c \in Clusters |-> CASE c = c1 -> {{r1}, {r2}}
                                  [] c = c2 -> {{r3}}
                                  [] OTHER -> {{r4}}]
(* c1 has one block of two records, the best of which has the larger bound. *)
MCBlocksWide == [c \in Clusters |-> CASE c = c1 -> {{r3, r4}}
                                      [] c = c2 -> {{r2}}
                                      [] OTHER -> {{r1}}]
MCDist == [r \in Records |-> CASE r = r1 -> 5 [] r = r2 -> 14
                               [] r = r3 -> 10 [] OTHER -> 13]

(* Stage 1 is off by at most 2, stage 2 by at most 1. *)
MCErr == [s \in 1..2 |-> [r \in Records |-> 3 - s]]
(* The SafeOut margin of r1 is wider than its error. *)
MCOutMargin == [s \in 1..2 |-> [r \in Records |->
                                  (3 - s) + IF r = r1 THEN 1 ELSE 0]]
(* The SafeIn margin of r3 is wider than its error. *)
MCInMargin == [s \in 1..2 |-> [r \in Records |->
                                 (3 - s) + IF r = r3 THEN 4 ELSE 0]]
=============================================================================
