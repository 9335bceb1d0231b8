----------------------------- MODULE MCDebtView -----------------------------
(***************************************************************************)
(* Two credits of two people: one credit is shared, one person has both.   *)
(* The fixture knows the shared credit, under another state, and someone   *)
(* who is not in the lake.                                                 *)
(***************************************************************************)
EXTENDS DebtView

MCParty ==
  {[credit |-> "c1", dni |-> "ana", role |-> "SOLICITANTE"],
   [credit |-> "c1", dni |-> "luis", role |-> "CONTACTO"],
   [credit |-> "c2", dni |-> "ana", role |-> "GARANTE"]}

MCLast == [c1 |-> 2, c2 |-> 1]

MCDue == [c1 |-> <<1, 3>>, c2 |-> <<2>>]

\* 15000 and 12000 soles: 15000 * 0.00008 is 1.2000000000000002 in doubles.
MCCapital == [c1 |-> 15000, c2 |-> 12000]
MCRoundsUp == {<<15000, 8>>, <<15000, 16>>}

MCBorrower == [luis |-> [credit |-> "c1", next_due |-> 2, days_overdue |-> 1],
               eva |-> [credit |-> "c2", next_due |-> 2, days_overdue |-> 0]]

MCTokenDni == [demo |-> "luis", prueba |-> "eva"]

\* tenants/prestaunion, tenants/prestamype, and a Doris tenant with the fixture allowed.
MCTenantConfig == {[source |-> "mock", fallback |-> TRUE], [source |-> "doris", fallback |-> FALSE],
                   [source |-> "doris", fallback |-> TRUE]}

=============================================================================
