---------------------------- MODULE DialogueFlow ----------------------------
(***************************************************************************)
(* The curated-responses dialogue of one conversation: the two-layer       *)
(* router, the questions whose answer the next message is taken to be, the *)
(* sticky flow that hands turns to the language model, the identity gate,  *)
(* and the response guard the finished reply passes.  A step is a whole    *)
(* turn: the customer waits for the reply before writing again.            *)
(***************************************************************************)
EXTENDS ResponseGuard, Naturals

CONSTANTS
  Intent,          \* the intents of responses.json
  Told,            \* the fields extract_implicit_data finds in what customers write
  Script,          \* the entry of each intent
  FreeReply,       \* the messages the language model may write
  Tool,            \* tool names
  None,
  MaxFlowTurns,    \* _LLM_FLOW_MAX_TURNS
  MaxRetries       \* _ID_CONTRATO_RETRY_MAX

\* The intents the engine knows by name.
DateQuestion == "compromiso_pago"
ContractQuestion == "id_contrato_prompt"
DniQuestion == "id_contrato_dni_prompt"
Prequestion == "comprobante_proxima_cuota_pregunta"
Handoff == "derivar_asesor"
NamedIntent == {DateQuestion, ContractQuestion, DniQuestion, Prequestion, Handoff,
                "compromiso_pago_confirmado", "id_contrato_not_found",
                "id_contrato_max_retries", "identidad_requerida", "comprobante_reportar",
                "fuera_de_horario", "no_entendido"}
\* Those that speak of no account.
OpenIntent == {ContractQuestion, DniQuestion, Handoff, "id_contrato_not_found",
               "id_contrato_max_retries", "identidad_requerida", "fuera_de_horario",
               "no_entendido"}
DomingoFeriado == {"domingo_feriado_al_dia_por_vencer", "domingo_feriado_vencido_redirect"}

Entry == [requires_identity : BOOLEAN, capture : BOOLEAN, flow : BOOLEAN,
          keywords : BOOLEAN, classifiable : BOOLEAN, tool : Tool \cup {None},
          text : Message, not_found : Message, confirm : Message]

identity_opening_intents ==
  {i \in Intent : /\ ~Script[i].requires_identity
                  /\ Script[i].capture /\ Script[i].tool # None}

\* What the shipped catalogues have in common: flow intents render empty, the questions
\* run no tool and capture nothing, and the date question is gated.
ASSUME ScriptAssumption ==
  /\ NamedIntent \cup OpenIntent \cup DomingoFeriado \subseteq Intent
  /\ Script \in [Intent -> Entry]
  /\ None \notin Intent \cup {"comprobante"} /\ None \notin Tool
  /\ "comprobante" \notin Intent
  /\ \A i \in Intent : Script[i].flow <=> i = "comprobante_reportar"
  /\ Script["comprobante_reportar"].text = {}
  /\ \A i \in {DateQuestion, ContractQuestion, DniQuestion} :
       Script[i].text # {} /\ Script[i].tool = None /\ ~Script[i].capture
  /\ Script[DateQuestion].requires_identity
  /\ \A i \in OpenIntent : ~Script[i].requires_identity
  /\ FreeReply \subseteq Message /\ Told \subseteq Field
  /\ \A i \in identity_opening_intents : Script[i].text # {} /\ Script[i].not_found # {}
  /\ MaxFlowTurns \in Nat /\ MaxRetries \in Nat \ {0}

VARIABLES
  mode,       \* the tenant's response_mode
  verified,   \* conv.identity_verified
  session,    \* conv.session_state
  collected,  \* the contact fields the customer has given (conv.debtor.collected)
  asked,      \* the fields asked for in the last two assistant messages
  reply       \* the reply of the last turn

vars == <<mode, verified, session, collected, asked, reply>>

NoFlow == [on |-> FALSE, turns |-> 0]

Fresh == [llm_flow |-> NoFlow, pending_intent |-> None, answered |-> FALSE,
          pending_date |-> FALSE, expecting_contrato |-> FALSE,
          pending_contrato |-> FALSE, retries |-> 0]

\* "comprobante" is the mark of the pre-question; it is not an intent.
Session == [llm_flow : [on : BOOLEAN, turns : 0..MaxFlowTurns],
            pending_intent : Intent \cup {"comprobante", None}, answered : BOOLEAN,
            pending_date : BOOLEAN, expecting_contrato : BOOLEAN,
            pending_contrato : BOOLEAN, retries : 0..MaxRetries]

\* renders: the intents whose template the reply renders; ran: the tools of the turn.
Reply == [shown : Message, renders : SUBSET Intent, ran : SUBSET Tool,
          verified : BOOLEAN, bypassed : Nat]

NoReply == [shown |-> {}, renders |-> {}, ran |-> {}, verified |-> FALSE, bypassed |-> 0]

Init ==
  /\ mode \in {"scripted", "hybrid"}
  /\ verified = FALSE
  /\ session = Fresh
  /\ collected = {}
  /\ asked = [last |-> {}, before |-> {}]
  /\ reply = NoReply

-----------------------------------------------------------------------------
(* What the customer writes, and what the bot says. *)

\* The words the routers look at: a bare "si" or "no", an 8-digit number, and the
\* best keyword match.  An 8-digit number matches the identification pattern.
UserMessage ==
  {m \in [word : {"si", "no", "other"}, dni : BOOLEAN,
          keyword : {i \in Intent : Script[i].keywords} \cup {None},
          tells : SUBSET Told] :
     /\ m.word # "other" => ~m.dni /\ m.keyword = None /\ m.tells = {}
     /\ m.keyword \in identity_opening_intents => m.dni
     /\ m.dni => m.keyword # None}

\* The reply is guarded against the fields collected and asked for before, and stored.
Says(m, text, renders, ran, ok, bypassed) ==
  LET shown == guard_response(text, collected \cup m.tells, asked.last \cup asked.before)
  IN
  /\ collected' = collected \cup m.tells
  /\ asked' = [last |-> detect_fields(shown), before |-> asked.last]
  /\ reply' = [shown |-> shown, renders |-> renders, ran |-> ran, verified |-> ok,
               bypassed |-> bypassed]
  /\ UNCHANGED mode

ToolOf(i) == {Script[i].tool} \ {None}

\* A canned reply that renders intent i and runs tools, with no effect on identity.
Answers(m, i, ran) ==
  /\ Says(m, Script[i].text, {i}, ran, verified, 0)
  /\ UNCHANGED verified

-----------------------------------------------------------------------------
(* The start of a turn. *)

\* Mutant: the sticky flow is released one turn late.
Bypassed_late ==
  session.llm_flow.on /\ session.llm_flow.turns <= MaxFlowTurns

\* The router is skipped while a flow is active and below its cap.
Bypassed == session.llm_flow.on /\ session.llm_flow.turns < MaxFlowTurns

\* The session once a flow that reached its cap is released.
Released == [session EXCEPT !.llm_flow = NoFlow]

\* The next message is the date, whatever it says.
DateDue == session.pending_date /\ verified

\* The full agent loop writes the reply.  Its tools may identify the customer, and a data
\* tool that reports no error releases the sticky flow.
Generate(m, s, bypassed) ==
  \E text \in FreeReply, done, identified \in BOOLEAN :
    /\ identified => done
    /\ Says(m, text, {}, {}, verified \/ identified, bypassed)
    /\ verified' = (verified \/ identified)
    /\ session' = IF done THEN [s EXCEPT !.llm_flow = NoFlow] ELSE s

TurnBypassed(m) ==
  /\ Bypassed
  /\ Generate(m, [session EXCEPT !.llm_flow.turns = @ + 1], reply.bypassed + 1)

\* handle_compromiso_date_reply: the commitment is registered, or an agent takes over.
TurnDate(m) ==
  /\ ~Bypassed /\ DateDue
  /\ session' = [Released EXCEPT !.pending_date = FALSE]
  /\ \E registered \in BOOLEAN :
       IF registered THEN Answers(m, "compromiso_pago_confirmado", {})
                     ELSE Answers(m, Handoff, ToolOf(Handoff))

-----------------------------------------------------------------------------
(* The contract-and-DNI identification. *)

Routed == ~Bypassed /\ ~DateDue

\* Step 1: the message is the contract number.  A blank one arms nothing.
TurnContractNumber(m) ==
  /\ Routed
  /\ Released.expecting_contrato /\ ~Released.pending_contrato
  /\ \E blank \in BOOLEAN :
       session' = [Released EXCEPT !.expecting_contrato = FALSE, !.pending_contrato = ~blank]
  /\ Answers(m, DniQuestion, {})

\* The number of failures; past the last one allowed every further one is the same.
Failures == IF Released.retries = MaxRetries THEN MaxRetries ELSE Released.retries + 1

\* Mutant: the contract stays pending for another try.
ContractFailed_retry == [Released EXCEPT !.retries = Failures]

ContractFailed == [Released EXCEPT !.pending_contrato = FALSE, !.retries = Failures]

\* Step 2: the message is the DNI and the pair is not found; the last attempt hands over.
TurnContractFails(m) ==
  /\ Routed /\ Released.pending_contrato
  /\ session' = ContractFailed
  /\ IF Failures >= MaxRetries
       THEN Answers(m, "id_contrato_max_retries", ToolOf("id_contrato_max_retries"))
       ELSE Answers(m, "id_contrato_not_found", {})

\* Step 2 with a pair that is found falls through to normal routing; its profile is
\* stashed in the session and nothing reads it.
ContractResolved ==
  [Released EXCEPT !.pending_contrato = FALSE, !.retries = 0]

\* Mutant: a message that came instead of the contract number is routed as well.
Opened_expecting(m) ==
  IF Released.pending_contrato
    THEN IF m.word = "other" THEN {ContractResolved} ELSE {}
    ELSE {Released}

\* The session with which the rest of the router runs, when it does.
Opened(m) ==
  IF Released.pending_contrato
    THEN IF m.word = "other" THEN {ContractResolved} ELSE {}
    ELSE IF Released.expecting_contrato THEN {} ELSE {Released}

-----------------------------------------------------------------------------
(* The pre-question about the voucher. *)

PrequestionPending(s) == verified /\ s.pending_intent = "comprobante"

TurnPrequestionNo(m) ==
  /\ Routed
  /\ \E s \in Opened(m) :
       /\ PrequestionPending(s) /\ m.word = "no"
       /\ session' = [s EXCEPT !.pending_intent = None, !.answered = FALSE]
  /\ Answers(m, Handoff, ToolOf(Handoff))

\* "si" is remembered; comprobante_reportar renders empty, so routing goes on with "si".
Continued(m) ==
  {IF PrequestionPending(s) /\ m.word = "si"
     THEN [s EXCEPT !.answered = TRUE, !.pending_intent = None] ELSE s :
   s \in {x \in Opened(m) : ~(PrequestionPending(x) /\ m.word = "no")}}

-----------------------------------------------------------------------------
(* _emit_intent and _canned_result: gate, render, arm, run the tool. *)

\* Mutant: the gate looks at the catalogue only for intents that run a tool.
Gated_tools_only(i) ==
  Script[i].requires_identity /\ Script[i].tool # None /\ ~verified

Gated(i) == Script[i].requires_identity /\ ~verified

Missing(i, captured) == Script[i].capture /\ ~captured

\* Does the intent give a canned reply at all?
Emits(i, captured) ==
  \/ Gated(i)
  \/ Script[i].text # {} /\ (Missing(i, captured) => Script[i].not_found # {})

\* The identity gate remembers what the customer wanted.
EmitGate(m, s, i) ==
  /\ Gated(i)
  /\ session' = [s EXCEPT !.pending_intent = i]
  /\ Answers(m, "identidad_requerida", {})

\* An intent that needs a value and got none asks for it again.
EmitAskAgain(m, s, i, captured) ==
  /\ ~Gated(i) /\ Missing(i, captured)
  /\ session' = s
  /\ Says(m, Script[i].not_found, {}, {}, verified, 0)
  /\ UNCHANGED verified

Armed(s, i) ==
  [s EXCEPT !.pending_date = @ \/ i = DateQuestion,
            !.expecting_contrato = @ \/ i = ContractQuestion]

EmitAnswer(m, s, i, captured) ==
  /\ ~Gated(i) /\ ~Missing(i, captured) /\ i \notin identity_opening_intents
  /\ session' = Armed(s, i)
  /\ Answers(m, i, ToolOf(i))

\* The identification tool found nobody, or the attempt was refused.
EmitNotIdentified(m, s, i, captured) ==
  /\ i \in identity_opening_intents /\ ~Missing(i, captured)
  /\ session' = s
  /\ Says(m, Script[i].not_found, {}, ToolOf(i), verified, 0)
  /\ UNCHANGED verified

\* Mutant: the pending wish is dropped without an answer.
Answerable_never(p, i) == FALSE

\* What the customer wanted before identifying can be answered now.
Answerable(p, i) == p \in Intent \ {i} /\ Script[p].text # {}

\* Mutant: a pending date question is put without waiting for the date.
Identified_unarmed(s, i) == [s EXCEPT !.pending_intent = None]

Identified(s, i) ==
  [s EXCEPT !.pending_intent = None, !.pending_date = @ \/ s.pending_intent = DateQuestion]

\* The tool identified the customer: the pending wish is answered, or the intent itself.
EmitIdentified(m, s, i, captured) ==
  LET p == s.pending_intent IN
  /\ i \in identity_opening_intents /\ ~Missing(i, captured)
  /\ verified' = TRUE
  /\ session' = Identified(s, i)
  /\ IF Answerable(p, i)
       THEN Says(m, Script[i].confirm \cup Script[p].text, {p}, ToolOf(i), TRUE, 0)
       ELSE Says(m, Script[i].text, {i}, ToolOf(i), TRUE, 0)

Emit(m, s, i, captured) ==
  /\ Emits(i, captured)
  /\ \/ EmitGate(m, s, i)
     \/ EmitAskAgain(m, s, i, captured)
     \/ EmitAnswer(m, s, i, captured)
     \/ EmitNotIdentified(m, s, i, captured)
     \/ EmitIdentified(m, s, i, captured)

-----------------------------------------------------------------------------
(* route_layer1 from the keywords on, and the classification of what they miss. *)

\* While the customer is unknown an 8-digit number is an identification before all else.
KeywordMatch(m) ==
  IF ~verified /\ m.dni /\ identity_opening_intents # {}
    THEN identity_opening_intents ELSE {m.keyword} \ {None}

\* The holiday answer comes before the identity gate.
TurnHoliday(m) ==
  /\ Routed
  /\ KeywordMatch(m) \cap DomingoFeriado # {}
  /\ session' \in Continued(m)
  /\ \E i \in DomingoFeriado :
       /\ i = "domingo_feriado_vencido_redirect" => verified
       /\ Answers(m, i, {})

\* Outside business hours a request for an agent is put off.
TurnOutOfHours(m) ==
  /\ Routed
  /\ Handoff \in KeywordMatch(m)
  /\ session' \in Continued(m)
  /\ Answers(m, "fuera_de_horario", {})

TurnKeyword(m) ==
  /\ Routed
  /\ \E s \in Continued(m), i \in KeywordMatch(m) \ DomingoFeriado : Emit(m, s, i, TRUE)

InFlow(s) == [s EXCEPT !.llm_flow = [on |-> TRUE, turns |-> 0]]

\* A keyword of a flow intent arms the flow, with no pre-question.
TurnKeywordFlow(m) ==
  /\ Routed
  /\ \E s \in Continued(m), i \in KeywordMatch(m) :
       /\ Script[i].flow /\ ~Emits(i, TRUE)
       /\ Generate(m, InFlow(s), 0)

\* The keywords miss.
Missed(m) ==
  /\ Routed
  /\ \A i \in KeywordMatch(m) : i \notin DomingoFeriado /\ ~Emits(i, TRUE) /\ ~Script[i].flow

TurnScripted(m) ==
  /\ Missed(m) /\ mode = "scripted"
  /\ session' \in Continued(m)
  /\ Answers(m, "no_entendido", {})

Classifiable == {i \in Intent : Script[i].classifiable}

TurnClassified(m) ==
  /\ Missed(m) /\ mode = "hybrid"
  /\ \E s \in Continued(m), i \in Classifiable : Emit(m, s, i, FALSE)

\* A voucher that is classified, not matched, is preceded by the pre-question, once.
TurnPrequestion(m) ==
  /\ Missed(m) /\ mode = "hybrid" /\ verified
  /\ "comprobante_reportar" \in Classifiable
  /\ \E s \in Continued(m) :
       /\ ~s.answered
       /\ session' = [s EXCEPT !.pending_intent = "comprobante"]
  /\ Answers(m, Prequestion, {})

TurnClassifiedFlow(m) ==
  /\ Missed(m) /\ mode = "hybrid"
  /\ \E s \in Continued(m), i \in Classifiable :
       /\ Script[i].flow /\ ~Emits(i, FALSE) /\ s.answered
       /\ Generate(m, InFlow(s), 0)

\* The classifier names no intent, or one with no canned reply.
TurnGenerated(m) ==
  /\ Missed(m) /\ mode = "hybrid"
  /\ \E s \in Continued(m) : Generate(m, s, 0)

-----------------------------------------------------------------------------
(* Between turns. *)

\* A request brings a campaign token that resolves: the gate is open before the turn.
TokenResolves ==
  /\ ~verified
  /\ verified' = TRUE
  /\ UNCHANGED <<mode, session, collected, asked, reply>>

\* The process restarts: the history and the collected data are stored, the session is not.
Restart ==
  /\ verified' = FALSE /\ session' = Fresh /\ reply' = NoReply
  /\ UNCHANGED <<mode, collected, asked>>

Next ==
  \/ \E m \in UserMessage :
       \/ TurnBypassed(m) \/ TurnDate(m)
       \/ TurnContractNumber(m) \/ TurnContractFails(m) \/ TurnPrequestionNo(m)
       \/ TurnHoliday(m) \/ TurnOutOfHours(m) \/ TurnKeyword(m) \/ TurnKeywordFlow(m)
       \/ TurnScripted(m) \/ TurnClassified(m) \/ TurnPrequestion(m)
       \/ TurnClassifiedFlow(m) \/ TurnGenerated(m)
  \/ TokenResolves
  \/ Restart

Spec == Init /\ [][Next]_vars

-----------------------------------------------------------------------------
(* Properties. *)

\* Every variable stays in its type.
TypeOK ==
  /\ mode \in {"scripted", "hybrid"} /\ verified \in BOOLEAN
  /\ session \in Session /\ reply \in Reply
  /\ collected \subseteq Field
  /\ asked \in [last : SUBSET Field, before : SUBSET Field]

\* The next message is taken as a date, a contract number or a DNI right after the reply
\* that asks for it and never later, whichever path put the question: keywords, the
\* classifier, or the wish that identification brings back.  (A blank contract number is
\* answered with the DNI question and not waited for.)
WaitsForLastQuestion ==
  /\ session.pending_date <=> DateQuestion \in reply.renders
  /\ session.expecting_contrato <=> ContractQuestion \in reply.renders
  /\ session.pending_contrato => DniQuestion \in reply.renders

\* The bot waits for one thing at a time: the date, the contract number, the DNI or the
\* end of a sticky flow, which all compete for the next message; and for a commitment date
\* only from an identified customer.
OneQuestionAtATime ==
  /\ ~(session.pending_date /\ session.expecting_contrato)
  /\ ~(session.pending_contrato /\ (session.pending_date \/ session.expecting_contrato))
  /\ session.llm_flow.on =>
       ~(session.pending_date \/ session.expecting_contrato \/ session.pending_contrato)
  /\ session.pending_date => verified

\* Account data is shown to identified customers only, the holiday answers apart, which
\* the router gives before its identity gate.
AccountDataNeedsIdentity ==
  \A i \in reply.renders \ DomingoFeriado : Script[i].requires_identity => reply.verified

\* The anti-stuck cap: no more than _LLM_FLOW_MAX_TURNS turns in a row skip the router.
FlowReleased == reply.bypassed <= MaxFlowTurns

\* What the customer wanted before identifying is kept until they identify, and answered
\* then, unless a later wish replaces it or it has no canned answer.
WishAnswered ==
  [][LET p == session.pending_intent IN
     p \in Intent /\ Script[p].text # {} /\ reply' # NoReply
       => session'.pending_intent # None \/ p \in reply'.renders]_vars

\* docs/responses-format.md: the tool of an intent is run before its reply.
ToolBeforeReply == \A i \in reply.renders : ToolOf(i) \subseteq reply.ran

\* handle_id_contrato_step and its siblings ask for the value the next turn waits for: the
\* question is in the message the customer gets.
QuestionShown ==
  \A i \in {DateQuestion, ContractQuestion, DniQuestion} :
    i \in reply.renders => Script[i].text \subseteq reply.shown

=============================================================================
