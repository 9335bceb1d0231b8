----------------------------- MODULE MCGestion -----------------------------
(* Instances of Gestion for TLC, with bindings of tenants/prestamype/responses.json. *)
EXTENDS Gestion, TLC

MCIntent == {"consulta_deuda", "derivar_asesor", "alternativas", "compromiso_pago",
             "identificar"}

MCCapability == {"consulta_deuda", "compromiso", "identificacion"}

Unbound == [capability |-> None, signal |-> None, reason |-> None]

MCBinding ==
  ("consulta_deuda" :> [capability |-> "consulta_deuda", signal |-> "info_provided",
                        reason |-> None])
  @@ ("derivar_asesor" :> [capability |-> None, signal |-> "escalation",
                           reason |-> "explicit_agent_request"])
  @@ ("alternativas" :> Unbound)
  @@ ("compromiso_pago" :> [Unbound EXCEPT !.capability = "compromiso"])
  @@ ("identificar" :> [Unbound EXCEPT !.capability = "identificacion"])

MCCommitIntent == {"compromiso_pago"}

MCChainIntent == {"identificar"}

MCEscalatingIntent == {"derivar_asesor", "alternativas"}

TurnSymmetry == Permutations(Turn)

=============================================================================
