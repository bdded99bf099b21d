------------------------------ MODULE MachineInt ----------------------------
(* Go's int and int64, scaled down: numbers from -IntMax - 1 to IntMax, with *)
(* sums and products that wrap around.                                       *)
EXTENDS Integers

CONSTANT IntMax   \* the largest int

ASSUME IntAssumption == IntMax \in Nat \ {0}

Wrap(n) == ((n + IntMax + 1) % (2 * (IntMax + 1))) - (IntMax + 1)
=============================================================================
