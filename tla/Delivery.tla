------------------------------ MODULE Delivery ------------------------------
(***************************************************************************)
(* Sending a document or a text to a customer: the tools enviar_info and   *)
(* enviar_documento and the services under them.  A call answers with a    *)
(* record; `left` is what really happened, `text` what the customer reads. *)
(***************************************************************************)

CONSTANTS Deliverable  \* the types the tenant's _deliverables block has

\* How a service stands: the mail API, Evolution, ChatHub's outbound, a public base URL.
Services == [email : {"dry", "live"}, evolution : {"none", "dry", "live"},
             outbound : BOOLEAN, base : BOOLEAN]

Channel == {"correo", "whatsapp"}

\* What the user typed to receive a document.
Destination == {"", "email", "phone", "wrong_email", "wrong_phone", "words"}

DocTipo == {"certificado_no_adeudo", "estado_cuenta"}

\* An answer that asks for something or says why nothing is sent.
Refusal(error) == [kind |-> "not_sent", delivered |-> FALSE, simulated |-> FALSE,
                   text |-> "other", left |-> FALSE]

Sent(kind, ok, simulated, text, left) ==
  [kind |-> kind, delivered |-> ok, simulated |-> simulated, text |-> text, left |-> left]

\* EmailService and WhatsAppService: a service that is not configured logs and reports
\* success.
Ok(service, up) == service = "dry" \/ (service = "live" /\ up)

Leaves(service, up) == service = "live" /\ up

\* ChathubOutboundClient.send_text, which is not asked when it has no url.
Posts(svc, up) == svc.outbound /\ up

Text(ok) == IF ok THEN "listo" ELSE "intente"

-----------------------------------------------------------------------------

\* enviar_info: to the registered destination; simulated unless the tenant is in production.
enviar_info(person, tipo, canal, real, svc, up) ==
  LET live == real /\ svc.outbound
  IN  IF tipo \notin Deliverable THEN Refusal("tipo_no_disponible")
      ELSE IF canal \notin Channel THEN Refusal("canal_requerido")
      ELSE IF canal = "correo" /\ ~person.email THEN Refusal("sin_correo")
      ELSE IF canal = "whatsapp" /\ ~person.phone THEN Refusal("sin_telefono")
      ELSE IF canal = "correo"
      THEN LET ok == ~real \/ Ok(svc.email, up)
           IN  Sent("info", ok, ~real, Text(ok), real /\ Leaves(svc.email, up))
      ELSE Sent("info", ~live \/ Posts(svc, up), ~live, "listo", live /\ Posts(svc, up))

\* emitir_certificado_no_adeudo: only for a balance of zero, by the profile of the
\* conversation.
Issued(person) == ~person.owes

_infer_canal(destino) ==
  IF destino \in {"email", "wrong_email"} THEN "correo"
  ELSE IF destino \in {"phone", "wrong_phone"} THEN "whatsapp" ELSE ""

\* enviar_documento: to the destination the user typed.
enviar_documento(person, tipo, destino, given, svc, up) ==
  LET canal == IF given = "" THEN _infer_canal(destino) ELSE given
      attached == tipo = "estado_cuenta" \/ svc.base
  IN  IF tipo \notin DocTipo THEN Refusal("tipo_invalido")
      ELSE IF destino = "" THEN Refusal("destino_requerido")
      ELSE IF canal \notin Channel THEN Refusal("canal_invalido")
      ELSE IF canal = "correo" /\ destino # "email" THEN Refusal("email_invalido")
      ELSE IF canal = "whatsapp" /\ destino # "phone" THEN Refusal("telefono_invalido")
      ELSE IF tipo = "certificado_no_adeudo" /\ ~Issued(person) THEN Refusal("outstanding_balance")
      ELSE IF canal = "correo"
      THEN LET ok == Ok(svc.email, up)
           IN  Sent("documento_correo", ok, FALSE, Text(ok), Leaves(svc.email, up))
      ELSE Sent("documento_whatsapp", attached /\ Ok(svc.evolution, up), FALSE, "listo",
                attached /\ Leaves(svc.evolution, up))

=============================================================================
