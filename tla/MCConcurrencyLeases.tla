------------------------- MODULE MCConcurrencyLeases -------------------------
(* Two clients: one asks for two limits at once, the other for one of them. *)
EXTENDS ConcurrencyLeases

CONSTANTS a, b, c1, c2, l1, l2

MCNames == [c \in {c1, c2} |-> IF c = c1 THEN {a, b} ELSE {b}]
MCResourceIds == [l \in {l1, l2} |-> IF l = l1 THEN {a, b} ELSE {b}]
MCLimit == [k \in {a, b} |-> 1]
=============================================================================
