---------------------------- MODULE MCInterrupts ----------------------------
(* Instances of Interrupts for TLC: the pins that set_pull is meant to, and *)
(* those that it does, touch, and one that it does not.                     *)
EXTENDS Interrupts

MCPins == {0, 1, 2, 3, 4, 14, 15}
MCFsel == [n \in MCPins |-> IF n \in {14, 15} THEN Alt0 ELSE GPIO_INPUT]
MCPull == [n \in MCPins |-> IF n < 9 THEN "up" ELSE "down"]
=============================================================================
