-------------------------- MODULE MCCaseAlerting --------------------------
(* Three cases; the first two have a source address in common. *)
EXTENDS CaseAlerting

CONSTANTS first, second, other, scanner, visitor

MCSrcOf == [c \in Case |-> IF c = other THEN {visitor} ELSE {scanner}]
=============================================================================
