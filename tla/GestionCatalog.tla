--------------------------- MODULE GestionCatalog ---------------------------
(***************************************************************************)
(* The Layer-3 vocabulary (features/analytics/gestion_catalog.py) and the  *)
(* pure derivation of a conversation's verdict from one turn               *)
(* (features/analytics/gestion_derivation.py).                             *)
(*                                                                         *)
(* A tenant's responses.json binds an intent to a capability, a terminal   *)
(* signal and an escalation reason.  Binding[i] is that entry after        *)
(* intent_binding has coerced every field against its enum.                *)
(***************************************************************************)

CONSTANTS
  Intent,      \* resolved intents a turn can end with
  Capability,  \* the capabilities those intents exercise
  Binding,     \* [Intent -> BindingRecord], the tenant's responses.json
  None         \* Python None / SQL NULL

TerminalSignal ==
  {"info_provided", "proof", "commitment", "escalation", "fallback", "identity_failed"}

Outcome ==
  {"identified", "identification_failed", "info_provided", "payment_proof_submitted",
   "payment_commitment_registered", "escalated_to_agent", "not_understood", "unresolved"}

OutcomeReason ==
  {"explicit_agent_request", "fallback_exhausted", "cannot_pay",
   "requested_alternatives", "commitment_beyond_window", "wants_full_payment",
   "pay_installment", "proof_other_installment", "out_of_hours",
   "max_identification_retries"}

BindingRecord ==
  [capability : Capability \cup {None},
   signal     : TerminalSignal \cup {None},
   reason     : OutcomeReason \cup {None}]

ASSUME BindingAssumption ==
  /\ Binding \in [Intent -> BindingRecord]
  /\ None \notin Intent \cup Capability \cup Outcome \cup OutcomeReason \cup TerminalSignal

\* A turn answered by free LLM generation carries no intent, hence no binding.
intent_binding(intent) ==
  IF intent = None THEN [capability |-> None, signal |-> None, reason |-> None]
                   ELSE Binding[intent]

\* The priority list of derive_outcome; the first row that applies wins.
derive_outcome(signal, reason, escalated, identity_failed) ==
  LET verdict(o, r) == [outcome |-> o, reason |-> r] IN
  IF identity_failed \/ signal = "identity_failed"
    THEN verdict("identification_failed", "max_identification_retries")
  ELSE IF signal = "commitment" THEN verdict("payment_commitment_registered", None)
  ELSE IF signal = "proof"      THEN verdict("payment_proof_submitted", None)
  ELSE IF escalated \/ signal = "escalation" THEN verdict("escalated_to_agent", reason)
  ELSE IF signal = "fallback"   THEN verdict("not_understood", "fallback_exhausted")
  ELSE IF signal = "info_provided" THEN verdict("info_provided", None)
  ELSE verdict("unresolved", None)

=============================================================================
