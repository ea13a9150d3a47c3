------------------------------ MODULE MCBoard ------------------------------
(* An instance of Board for TLC: three request blocks, two of which share an *)
(* event flag, and a queue of two, so that both run out; frequencies whose   *)
(* search moves either end, or is not needed.                                *)
EXTENDS Board

Frequency(mux, core, n, num, den) ==
  [mux |-> mux, core |-> core, n |-> n, d |-> [num |-> num, den |-> den]]
SomeFrequencies == {Frequency("direct", "high", 500, 0, 1),
                    Frequency("direct", "low", 300, 11, 37),
                    Frequency("doubler", "low", 400, 26, 37)}
=============================================================================
