------------------------------- MODULE MCConfig -------------------------------
(* Small instances of Config: see the MCConfig_*.cfg.                      *)
EXTENDS Config, FiniteSets

CONSTANTS main, ipc, tick, other

(* SignBit = 2: values 0..3, printed 0 1 -2 -1, and 2 the default. *)
MCDefaultValue == [k \in Keys |-> 2]
MCRequests == ValueLists

(* Lists that differ in both values, with the largest and an invalid one *)
MCFewRequests == {[k \in Keys |-> IF k = tick THEN v ELSE 3 - v] : v \in {0, 1, 3}}

(* No file, no such key, a negative number and one beyond the range, a     *)
(* valid one and an invalid one                                            *)
MCFiles == {NoFile, Empty,
    [k \in Keys |-> IF k = tick THEN -3 ELSE 4], [k \in Keys |-> IF k = tick THEN 3 ELSE 0]}

(* One that is valid and one that is not: where anything may go wrong. *)
MCFaultFiles == {NoFile} \cup {[k \in Keys |-> n] : n \in {0, 3}}

(* One of each is enough where other things make the instance large. *)
MCFewFiles == {NoFile, Empty, [k \in Keys |-> 3]}
===============================================================================
