----------------------------- MODULE MCIrqEntry -----------------------------
(* Instances of IrqEntry for TLC. *)
EXTENDS IrqEntry
=============================================================================
