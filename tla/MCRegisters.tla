---------------------------- MODULE MCRegisters ----------------------------
(***************************************************************************)
(* One person with two credits, the balance of the second being its last   *)
(* installment, and one without any.                                       *)
(***************************************************************************)
EXTENDS Registers

MCCreditsOf == [ana |-> {"c1", "c2"}, luis |-> {}]
MCCuota == [c1 |-> 50, c2 |-> 100]
MCSaldo == [c1 |-> 100, c2 |-> 100]
MCPlazo == [c1 |-> 2, c2 |-> 1]

\* Nothing, and within 2% of 100.
MCMonto == {0, 98}

=============================================================================
