--------------------------- MODULE MCDialogueFlow ---------------------------
(***************************************************************************)
(* The dialogue with a catalogue cut from tenants/prestamype: one intent   *)
(* of every kind, its text cut into sentences as the response guard does,  *)
(* each sentence with the fields the guard's patterns find in it.          *)
(***************************************************************************)
EXTENDS DialogueFlow

\* "numero" and "celular" match phone; "DNI" and "documento" match document.
MCField == {"phone", "document"}
MCTold == {"phone"}

MCAsks ==
  [ingresa_contrato |-> {"phone"},
   gracias |-> {}, ahora_dni |-> {"phone", "document"},
   para_mostrarte |-> {}, indica_dni |-> {"phone", "document"},
   listo |-> {}, quieres |-> {},
   ese_dni |-> {"document"}, verifica_numero |-> {"phone"},
   no_pude |-> {}, intentalo |-> {"document"},
   que_fecha |-> {}, registramos |-> {}, te_derivo |-> {}, a_cuenta |-> {"phone"},
   cuando_pagues |-> {}, te_lo_envio |-> {},
   proxima_cuota |-> {}, domingo |-> {}, vencido |-> {}, fuera |-> {},
   no_entendi |-> {}, escribe_dni |-> {"document"}]

MCSentence == DOMAIN MCAsks

MCFreeReply == {{"escribe_dni", "gracias"}}

Plain == [requires_identity |-> FALSE, capture |-> FALSE, flow |-> FALSE,
          keywords |-> FALSE, classifiable |-> FALSE, tool |-> None,
          text |-> {}, not_found |-> {}, confirm |-> {}]
Offered == [Plain EXCEPT !.keywords = TRUE, !.classifiable = TRUE]
Account == [Offered EXCEPT !.requires_identity = TRUE]

\* donde_pagar fills in account data, realizar_pago_vencido runs the tool that calls the
\* agent its text promises, elegir_canal needs a value found in the message.
MCScript ==
  [identificar |-> [Offered EXCEPT !.capture = TRUE, !.tool = "identificar_cliente",
       !.text = {"listo", "quieres"}, !.confirm = {"listo"},
       !.not_found = {"ese_dni", "verifica_numero"}],
   identidad_requerida |->
       [Plain EXCEPT !.classifiable = TRUE, !.text = {"para_mostrarte", "indica_dni"}],
   no_entendido |-> [Plain EXCEPT !.classifiable = TRUE, !.text = {"no_entendi"}],
   donde_pagar |-> [Account EXCEPT !.text = {"a_cuenta", "cuando_pagues"}],
   realizar_pago_vencido |->
       [Account EXCEPT !.tool = "escalate_to_human", !.text = {"te_derivo"}],
   elegir_canal |->
       [Account EXCEPT !.capture = TRUE, !.tool = "enviar_info", !.text = {"te_lo_envio"}],
   comprobante_reportar |-> [Account EXCEPT !.flow = TRUE],
   comprobante_proxima_cuota_pregunta |->
       [Plain EXCEPT !.requires_identity = TRUE, !.text = {"proxima_cuota"}],
   compromiso_pago |-> [Account EXCEPT !.text = {"que_fecha"}],
   compromiso_pago_confirmado |->
       [Plain EXCEPT !.requires_identity = TRUE, !.text = {"registramos"}],
   derivar_asesor |->
       [Offered EXCEPT !.tool = "escalate_to_human", !.text = {"te_derivo"}],
   fuera_de_horario |-> [Plain EXCEPT !.classifiable = TRUE, !.text = {"fuera"}],
   domingo_feriado_al_dia_por_vencer |-> [Account EXCEPT !.text = {"domingo"}],
   domingo_feriado_vencido_redirect |->
       [Plain EXCEPT !.requires_identity = TRUE, !.text = {"vencido"}],
   id_contrato_prompt |-> [Offered EXCEPT !.text = {"ingresa_contrato"}],
   id_contrato_dni_prompt |-> [Plain EXCEPT !.text = {"gracias", "ahora_dni"}],
   id_contrato_not_found |-> [Plain EXCEPT !.text = {"no_pude", "intentalo"}],
   id_contrato_max_retries |->
       [Plain EXCEPT !.tool = "escalate_to_human", !.text = {"te_derivo"}]]

MCIntent == DOMAIN MCScript

MCTool == {"identificar_cliente", "escalate_to_human", "enviar_info"}

=============================================================================
