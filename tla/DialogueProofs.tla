--------------------------- MODULE DialogueProofs ---------------------------
(***************************************************************************)
(* The response guard never silences the bot and repeats nothing when run  *)
(* twice; the dialogue waits for the answer of its last question and of no *)
(* other, whatever the catalogue says.                                     *)
(***************************************************************************)
EXTENDS DialogueFlow, TLAPS

-----------------------------------------------------------------------------
(* The guard. *)

\* guard_response drops sentences, adds none, and never turns a message into nothing.
THEOREM GuardNeverSilences ==
  ASSUME NEW msg \in Message, NEW given \in SUBSET Field, NEW before \in SUBSET Field
  PROVE  /\ guard_response(msg, given, before) \subseteq msg
         /\ msg # {} => guard_response(msg, given, before) # {}
  BY DEF guard_response, strip_sentences, Message

\* A guarded message passes the guard unchanged: storing it and showing it again, or
\* guarding it a second time, loses no further sentence.
THEOREM GuardIdempotent ==
  ASSUME NEW msg \in Message, NEW given \in SUBSET Field, NEW before \in SUBSET Field
  PROVE  LET once == guard_response(msg, given, before)
         IN  guard_response(once, given, before) = once
  <1> DEFINE fields == detect_fields(msg) \cap (given \cup before)
             kept == {s \in msg : Asks[s] \cap fields = {}}
             once == guard_response(msg, given, before)
  <1>1. once = IF kept = {} THEN msg ELSE kept
    BY DEF guard_response, strip_sentences
  <1>2. CASE kept = {}
    <2>1. once = msg
      BY <1>1, <1>2
    <2> QED
      BY <2>1
  <1>3. CASE kept # {}
    <2>1. once = kept
      BY <1>1, <1>3
    <2>2. \A s \in kept : Asks[s] \cap (given \cup before) = {}
      BY DEF detect_fields
    <2>3. detect_fields(kept) \cap (given \cup before) = {}
      BY <2>2 DEF detect_fields
    <2>4. strip_sentences(kept, {}) = kept
      BY <1>3 DEF strip_sentences
    <2> QED
      BY <2>1, <2>3, <2>4 DEF guard_response
  <1> QED
    BY <1>2, <1>3

-----------------------------------------------------------------------------
(* The state between turns. *)

\* A wish kept for after identification is one that the gate held back.
WishGated == session.pending_intent \in Intent => Script[session.pending_intent].requires_identity

\* The inductive invariant.
Inv == TypeOK /\ WaitsForLastQuestion /\ OneQuestionAtATime /\ WishGated

\* A session in which the router runs to its end: nothing is awaited and no flow is on.
Idle(s) ==
  /\ s \in Session /\ s.llm_flow = NoFlow
  /\ ~s.pending_date /\ ~s.expecting_contrato /\ ~s.pending_contrato
  /\ s.pending_intent \in Intent => Script[s.pending_intent].requires_identity

\* What a turn leaves behind: the reply renders at most one intent, and the session waits
\* for what that intent asks.
Leaves ==
  /\ session' \in Session /\ verified' \in BOOLEAN
  /\ session'.pending_date <=> DateQuestion \in reply'.renders
  /\ session'.expecting_contrato <=> ContractQuestion \in reply'.renders
  /\ session'.pending_contrato => DniQuestion \in reply'.renders
  /\ ~(session'.pending_date /\ session'.expecting_contrato)
  /\ ~(session'.pending_contrato /\ (session'.pending_date \/ session'.expecting_contrato))
  /\ session'.llm_flow.on =>
       ~(session'.pending_date \/ session'.expecting_contrato \/ session'.pending_contrato)
  /\ session'.pending_date => verified'
  /\ session'.pending_intent \in Intent => Script[session'.pending_intent].requires_identity

\* The rest of the state a turn changes keeps its type.
Typed ==
  /\ reply' \in Reply /\ mode' = mode /\ collected' \subseteq Field
  /\ asked' \in [last : SUBSET Field, before : SUBSET Field]

\* The catalogue's entries are typed, and its questions and openers are told apart.
LEMMA ScriptFacts ==
  /\ \A i \in Intent : /\ Script[i] \in Entry /\ Script[i].text \in Message
                       /\ Script[i].not_found \in Message /\ Script[i].confirm \in Message
                       /\ ToolOf(i) \in SUBSET Tool
  /\ NamedIntent \subseteq Intent /\ DomingoFeriado \subseteq Intent
  /\ "id_contrato_max_retries" \in Intent
  /\ None \notin Intent /\ "comprobante" \notin Intent
  /\ \A i \in identity_opening_intents : i # DateQuestion /\ i # ContractQuestion
<1>1. Script \in [Intent -> Entry]
  BY ScriptAssumption
<1>2. ASSUME NEW i \in Intent
      PROVE  /\ Script[i] \in Entry /\ Script[i].text \in Message
             /\ Script[i].not_found \in Message /\ Script[i].confirm \in Message
             /\ Script[i].tool \in Tool \cup {None}
  BY <1>1 DEF Entry
<1>3. ASSUME NEW i \in Intent PROVE ToolOf(i) \in SUBSET Tool
  BY <1>2, <1>3 DEF ToolOf
<1>4. NamedIntent \subseteq Intent /\ DomingoFeriado \subseteq Intent
  BY ScriptAssumption
<1>5. "id_contrato_max_retries" \in Intent
  BY ScriptAssumption DEF OpenIntent
<1>6. None \notin Intent /\ "comprobante" \notin Intent
  BY ScriptAssumption
<1>7. \A i \in identity_opening_intents : i # DateQuestion /\ i # ContractQuestion
  BY ScriptAssumption DEF identity_opening_intents, DateQuestion, ContractQuestion, DniQuestion
<1> QED
  BY <1>2, <1>3, <1>4, <1>5, <1>6, <1>7

\* Whatever is said, the reply, the collected fields and the asked fields stay typed.
LEMMA SaysTyped ==
  ASSUME TypeOK, NEW m \in UserMessage, NEW text \in Message, NEW renders \in SUBSET Intent,
         NEW ran \in SUBSET Tool, NEW ok \in BOOLEAN, NEW bypassed \in Nat,
         Says(m, text, renders, ran, ok, bypassed)
  PROVE  Typed /\ reply'.renders = renders
<1> DEFINE given == collected \cup m.tells
           before == asked.last \cup asked.before
           shown == guard_response(text, given, before)
<1>1. m.tells \subseteq Field
  BY ScriptAssumption DEF UserMessage
<1>2. given \in SUBSET Field /\ before \in SUBSET Field
  BY <1>1 DEF TypeOK
<1>3. shown \in Message
  BY <1>2, GuardNeverSilences DEF Message
<1>4. detect_fields(shown) \subseteq Field
  BY <1>3, GuardAssumption DEF detect_fields, Message
<1>5. /\ collected' = given
      /\ asked' = [last |-> detect_fields(shown), before |-> asked.last]
      /\ reply' = [shown |-> shown, renders |-> renders, ran |-> ran, verified |-> ok,
                   bypassed |-> bypassed]
      /\ mode' = mode
  BY DEF Says
<1>6. asked.last \in SUBSET Field
  BY DEF TypeOK
<1>7. reply' \in Reply /\ reply'.renders = renders
  BY <1>3, <1>5 DEF Reply
<1> QED
  BY <1>2, <1>4, <1>5, <1>6, <1>7 DEF Typed

\* Releasing the flow keeps the rest of the session.
LEMMA ReleasedKeeps ==
  ASSUME Inv
  PROVE  /\ Released \in Session /\ Released.llm_flow = NoFlow
         /\ Released.pending_date = session.pending_date
         /\ Released.expecting_contrato = session.expecting_contrato
         /\ Released.pending_contrato = session.pending_contrato
         /\ Released.pending_intent = session.pending_intent
         /\ Released.retries = session.retries
<1>1. session \in Session
  BY DEF Inv, TypeOK
<1>2. NoFlow \in [on : BOOLEAN, turns : 0..MaxFlowTurns]
  BY ScriptAssumption DEF NoFlow
<1> QED
  BY <1>1, <1>2 DEF Released, Session

\* The router past the pending questions runs with nothing awaited and no flow.
LEMMA RouterIdle ==
  ASSUME Inv, NEW m \in UserMessage, Routed, NEW s \in Continued(m)
  PROVE  Idle(s)
<1>1. ~Released.pending_date
  BY ReleasedKeeps DEF Routed, DateDue, Inv, OneQuestionAtATime
<1>2. Released.pending_intent \in Intent => Script[Released.pending_intent].requires_identity
  BY ReleasedKeeps DEF Inv, WishGated
<1>3. ASSUME NEW x \in Opened(m) PROVE Idle(x)
  <2>1. CASE Released.pending_contrato
    <3>1. x = [Released EXCEPT !.pending_contrato = FALSE, !.retries = 0]
      BY <1>3, <2>1 DEF Opened, ContractResolved
    <3>2. ~Released.expecting_contrato
      BY <2>1, ReleasedKeeps DEF Inv, OneQuestionAtATime
    <3>3. 0 \in 0..MaxRetries
      BY ScriptAssumption
    <3>4. x \in Session
      BY <3>1, <3>3, ReleasedKeeps DEF Session
    <3>5. /\ x.llm_flow = NoFlow /\ x.pending_date = Released.pending_date
          /\ x.expecting_contrato = Released.expecting_contrato /\ ~x.pending_contrato
          /\ x.pending_intent = Released.pending_intent
      BY <3>1, ReleasedKeeps DEF Session
    <3> QED
      BY <1>1, <1>2, <3>2, <3>4, <3>5 DEF Idle
  <2>2. CASE ~Released.pending_contrato
    <3>1. ~Released.expecting_contrato /\ x = Released
      BY <1>3, <2>2 DEF Opened
    <3> QED
      BY <1>1, <1>2, <2>2, <3>1, ReleasedKeeps DEF Idle
  <2> QED
    BY <2>1, <2>2
<1>4. PICK x \in Opened(m) :
        \/ s = x
        \/ s = [x EXCEPT !.answered = TRUE, !.pending_intent = None]
  BY DEF Continued
<1>5. Idle(x)
  BY <1>3
<1>6. CASE s = [x EXCEPT !.answered = TRUE, !.pending_intent = None]
  <2>1. s \in Session
    BY <1>5, <1>6 DEF Idle, Session
  <2>2. /\ s.llm_flow = x.llm_flow /\ s.pending_date = x.pending_date
        /\ s.expecting_contrato = x.expecting_contrato
        /\ s.pending_contrato = x.pending_contrato /\ s.pending_intent = None
    BY <1>5, <1>6 DEF Idle, Session
  <2> QED
    BY <1>5, <2>1, <2>2, ScriptFacts DEF Idle
<1> QED
  BY <1>4, <1>5, <1>6

\* A turn that renders no question and leaves an idle session leaves nothing awaited.
LEMMA IdleLeaves ==
  ASSUME Idle(session'), verified' \in BOOLEAN,
         DateQuestion \notin reply'.renders, ContractQuestion \notin reply'.renders
  PROVE  Leaves
  BY DEF Idle, Leaves, NoFlow

\* The language model's turn leaves nothing awaited: only the flow and the identity move.
LEMMA GenerateLeaves ==
  ASSUME Inv, NEW m \in UserMessage, NEW s \in Session, NEW bypassed \in Nat,
         ~s.pending_date, ~s.expecting_contrato, ~s.pending_contrato,
         s.pending_intent \in Intent => Script[s.pending_intent].requires_identity,
         Generate(m, s, bypassed)
  PROVE  Leaves /\ Typed
<1>1. PICK text \in FreeReply, done, identified \in BOOLEAN :
        /\ Says(m, text, {}, {}, verified \/ identified, bypassed)
        /\ verified' = (verified \/ identified)
        /\ session' = IF done THEN [s EXCEPT !.llm_flow = NoFlow] ELSE s
  BY DEF Generate
<1>2. text \in Message
  BY ScriptAssumption
<1>3. verified \in BOOLEAN /\ (verified \/ identified) \in BOOLEAN
  BY DEF Inv, TypeOK
<1>4. TypeOK
  BY DEF Inv
<1>5. Typed /\ reply'.renders = {}
  <2>1. {} \in SUBSET Intent /\ {} \in SUBSET Tool
    OBVIOUS
  <2> QED
    BY <1>1, <1>2, <1>3, <1>4, <2>1, SaysTyped
<1>6. NoFlow \in [on : BOOLEAN, turns : 0..MaxFlowTurns]
  BY ScriptAssumption DEF NoFlow
<1>7. /\ session' \in Session /\ ~session'.pending_date /\ ~session'.expecting_contrato
      /\ ~session'.pending_contrato /\ session'.pending_intent = s.pending_intent
  <2>1. CASE done
    BY <1>1, <1>6, <2>1 DEF Session
  <2>2. CASE ~done
    BY <1>1, <2>2
  <2> QED
    BY <2>1, <2>2
<1>8. verified' \in BOOLEAN
  BY <1>1, <1>3
<1> QED
  BY <1>5, <1>7, <1>8 DEF Leaves

\* A canned answer keeps the types, renders its intent and leaves the identity alone.
LEMMA AnswersTyped ==
  ASSUME Inv, NEW m \in UserMessage, NEW i \in Intent, NEW ran \in SUBSET Tool,
         Answers(m, i, ran)
  PROVE  Typed /\ reply'.renders = {i} /\ verified' = verified /\ verified' \in BOOLEAN
<1>1. TypeOK /\ verified \in BOOLEAN
  BY DEF Inv, TypeOK
<1>2. Script[i].text \in Message
  BY ScriptFacts
<1>3. Says(m, Script[i].text, {i}, ran, verified, 0) /\ verified' = verified
  BY DEF Answers
<1>4. Typed /\ reply'.renders = {i}
  BY <1>1, <1>2, <1>3, SaysTyped
<1> QED
  BY <1>1, <1>3, <1>4

\* A sticky turn awaits nothing: the flow only runs while no question is pending.
LEMMA BypassedLeaves ==
  ASSUME Inv, NEW m \in UserMessage, TurnBypassed(m)
  PROVE  Leaves /\ Typed
<1> DEFINE s == [session EXCEPT !.llm_flow.turns = @ + 1]
<1>1. /\ session \in Session /\ session.llm_flow.on
      /\ session.llm_flow \in [on : BOOLEAN, turns : 0..MaxFlowTurns]
      /\ session.llm_flow.turns < MaxFlowTurns
  BY DEF Inv, TypeOK, TurnBypassed, Bypassed, Session
<1>2. session.llm_flow.turns + 1 \in 0..MaxFlowTurns
  BY <1>1, ScriptAssumption
<1>3. [session.llm_flow EXCEPT !.turns = @ + 1] \in [on : BOOLEAN, turns : 0..MaxFlowTurns]
  BY <1>1, <1>2
<1>4. /\ s \in Session /\ s.pending_date = session.pending_date
      /\ s.expecting_contrato = session.expecting_contrato
      /\ s.pending_contrato = session.pending_contrato
      /\ s.pending_intent = session.pending_intent
  BY <1>1, <1>3 DEF Session
<1>5. ~s.pending_date /\ ~s.expecting_contrato /\ ~s.pending_contrato
  BY <1>1, <1>4 DEF Inv, OneQuestionAtATime
<1>6. s.pending_intent \in Intent => Script[s.pending_intent].requires_identity
  BY <1>4 DEF Inv, WishGated
<1>7. reply.bypassed + 1 \in Nat
  BY DEF Inv, TypeOK, Reply
<1>8. Generate(m, s, reply.bypassed + 1)
  BY DEF TurnBypassed
<1> HIDE DEF s
<1> QED
  BY <1>4, <1>5, <1>6, <1>7, <1>8, GenerateLeaves

\* The date's turn ends the wait for the date, and starts none.
LEMMA DateLeaves ==
  ASSUME Inv, NEW m \in UserMessage, TurnDate(m)
  PROVE  Leaves /\ Typed
<1>1. session' = [Released EXCEPT !.pending_date = FALSE] /\ session.pending_date
  BY DEF TurnDate, DateDue
<1>2. ~session.expecting_contrato /\ ~session.pending_contrato
  BY <1>1 DEF Inv, OneQuestionAtATime
<1>3. session' \in Session
  BY <1>1, ReleasedKeeps DEF Session
<1>4. /\ ~session'.pending_date /\ session'.llm_flow = NoFlow
      /\ session'.expecting_contrato = session.expecting_contrato
      /\ session'.pending_contrato = session.pending_contrato
      /\ session'.pending_intent = session.pending_intent
  BY <1>1, ReleasedKeeps DEF Session
<1>5. PICK i \in {"compromiso_pago_confirmado", Handoff}, ran \in {{}, ToolOf(Handoff)} :
        Answers(m, i, ran)
  BY DEF TurnDate
<1>6. i \in Intent /\ ran \in SUBSET Tool /\ i # DateQuestion /\ i # ContractQuestion
  BY ScriptFacts DEF NamedIntent, Handoff, DateQuestion, ContractQuestion
<1>7. Typed /\ reply'.renders = {i} /\ verified' \in BOOLEAN
  BY <1>5, <1>6, AnswersTyped
<1>8. Idle(session')
  BY <1>2, <1>3, <1>4 DEF Idle, Inv, WishGated
<1> QED
  BY <1>6, <1>7, <1>8, IdleLeaves

\* The contract number's turn starts the wait for the DNI.
LEMMA ContractNumberLeaves ==
  ASSUME Inv, NEW m \in UserMessage, TurnContractNumber(m)
  PROVE  Leaves /\ Typed
<1>1. PICK b \in BOOLEAN :
        session' = [Released EXCEPT !.expecting_contrato = FALSE, !.pending_contrato = b]
  BY DEF TurnContractNumber
<1>2. Released.expecting_contrato /\ Answers(m, DniQuestion, {})
  BY DEF TurnContractNumber
<1>3. ~session.pending_date
  BY <1>2, ReleasedKeeps DEF Inv, OneQuestionAtATime
<1>4. session' \in Session
  BY <1>1, ReleasedKeeps DEF Session
<1>5. /\ ~session'.expecting_contrato /\ session'.llm_flow = NoFlow
      /\ session'.pending_date = session.pending_date
      /\ session'.pending_intent = session.pending_intent
  BY <1>1, ReleasedKeeps DEF Session
<1>6. /\ DniQuestion \in Intent /\ {} \in SUBSET Tool
      /\ DniQuestion # DateQuestion /\ DniQuestion # ContractQuestion
  BY ScriptFacts DEF NamedIntent, DniQuestion, DateQuestion, ContractQuestion
<1>7. Typed /\ reply'.renders = {DniQuestion} /\ verified' \in BOOLEAN
  BY <1>2, <1>6, AnswersTyped
<1>8. session'.pending_intent \in Intent => Script[session'.pending_intent].requires_identity
  BY <1>5 DEF Inv, WishGated
<1> QED
  BY <1>3, <1>4, <1>5, <1>6, <1>7, <1>8 DEF Leaves, NoFlow

\* A failed contract and DNI are not waited for again.
LEMMA ContractFailsLeaves ==
  ASSUME Inv, NEW m \in UserMessage, TurnContractFails(m)
  PROVE  Leaves /\ Typed
<1>1. session' = [Released EXCEPT !.pending_contrato = FALSE, !.retries = Failures]
  BY DEF TurnContractFails, ContractFailed
<1>2. Released.pending_contrato
  BY DEF TurnContractFails
<1>3. ~session.pending_date /\ ~session.expecting_contrato
  BY <1>2, ReleasedKeeps DEF Inv, OneQuestionAtATime
<1>4. Failures \in 0..MaxRetries
  <2>1. Released.retries \in 0..MaxRetries /\ MaxRetries \in Nat
    BY ReleasedKeeps, ScriptAssumption DEF Session
  <2> QED
    BY <2>1 DEF Failures
<1>5. session' \in Session
  BY <1>1, <1>4, ReleasedKeeps DEF Session
<1>6. /\ ~session'.pending_contrato /\ session'.llm_flow = NoFlow
      /\ session'.pending_date = session.pending_date
      /\ session'.expecting_contrato = session.expecting_contrato
      /\ session'.pending_intent = session.pending_intent
  BY <1>1, ReleasedKeeps DEF Session
<1>7. PICK i \in {"id_contrato_max_retries", "id_contrato_not_found"},
           ran \in {{}, ToolOf("id_contrato_max_retries")} : Answers(m, i, ran)
  BY DEF TurnContractFails
<1>8. i \in Intent /\ ran \in SUBSET Tool /\ i # DateQuestion /\ i # ContractQuestion
  BY ScriptFacts DEF NamedIntent, DateQuestion, ContractQuestion
<1>9. Typed /\ reply'.renders = {i} /\ verified' \in BOOLEAN
  BY <1>7, <1>8, AnswersTyped
<1>10. Idle(session')
  BY <1>3, <1>5, <1>6 DEF Idle, Inv, WishGated
<1> QED
  BY <1>8, <1>9, <1>10, IdleLeaves

-----------------------------------------------------------------------------
(* The router past the pending questions. *)

\* An answer rendered with nothing awaited arms exactly the question it puts.
LEMMA EmitAnswerLeaves ==
  ASSUME Inv, NEW m \in UserMessage, NEW s, Idle(s), NEW i \in Intent,
         NEW captured \in BOOLEAN, EmitAnswer(m, s, i, captured)
  PROVE  Leaves /\ Typed
<1>1. /\ session' = Armed(s, i) /\ Answers(m, i, ToolOf(i))
      /\ ~(Script[i].requires_identity /\ ~verified)
  BY DEF EmitAnswer, Gated
<1>2. Typed /\ reply'.renders = {i} /\ verified' = verified /\ verified' \in BOOLEAN
  BY <1>1, ScriptFacts, AnswersTyped
<1>3. s \in Session /\ ~s.pending_date /\ ~s.expecting_contrato
  BY DEF Idle
<1>4. (i = DateQuestion) \in BOOLEAN /\ (i = ContractQuestion) \in BOOLEAN
  OBVIOUS
<1>5. session' = [s EXCEPT !.pending_date = (i = DateQuestion),
                           !.expecting_contrato = (i = ContractQuestion)]
  BY <1>1, <1>3 DEF Armed, Session
<1>6. session' \in Session
  BY <1>3, <1>4, <1>5 DEF Session
<1>7. /\ session'.pending_date = (i = DateQuestion)
      /\ session'.expecting_contrato = (i = ContractQuestion)
      /\ session'.pending_contrato = s.pending_contrato
      /\ session'.llm_flow = s.llm_flow /\ session'.pending_intent = s.pending_intent
  BY <1>3, <1>4, <1>5 DEF Session
<1>8. DateQuestion # ContractQuestion
  BY DEF DateQuestion, ContractQuestion
<1>9. session'.pending_date => verified'
  <2>1. Script[DateQuestion].requires_identity
    BY ScriptAssumption
  <2> QED
    BY <1>1, <1>2, <1>7, <2>1
<1>10. /\ session'.pending_date <=> DateQuestion \in reply'.renders
       /\ session'.expecting_contrato <=> ContractQuestion \in reply'.renders
       /\ ~(session'.pending_date /\ session'.expecting_contrato)
  BY <1>2, <1>7, <1>8
<1>11. ~session'.pending_contrato /\ ~session'.llm_flow.on
  BY <1>7 DEF Idle, NoFlow
<1>12. session'.pending_intent \in Intent => Script[session'.pending_intent].requires_identity
  BY <1>7 DEF Idle
<1> QED
  BY <1>2, <1>6, <1>9, <1>10, <1>11, <1>12 DEF Leaves

\* The gate awaits nothing and keeps a wish it held back.
LEMMA EmitGateLeaves ==
  ASSUME Inv, NEW m \in UserMessage, NEW s, Idle(s), NEW i \in Intent, EmitGate(m, s, i)
  PROVE  Leaves /\ Typed
<1>1. /\ session' = [s EXCEPT !.pending_intent = i] /\ Script[i].requires_identity
      /\ Answers(m, "identidad_requerida", {})
  BY DEF EmitGate, Gated
<1>2. /\ "identidad_requerida" \in Intent /\ {} \in SUBSET Tool
      /\ "identidad_requerida" # DateQuestion /\ "identidad_requerida" # ContractQuestion
  BY ScriptFacts DEF NamedIntent, DateQuestion, ContractQuestion
<1>3. Typed /\ reply'.renders = {"identidad_requerida"} /\ verified' \in BOOLEAN
  BY <1>1, <1>2, AnswersTyped
<1>4. s \in Session
  BY DEF Idle
<1>5. session' \in Session
  BY <1>1, <1>4 DEF Session
<1>6. /\ session'.llm_flow = s.llm_flow /\ session'.pending_date = s.pending_date
      /\ session'.expecting_contrato = s.expecting_contrato
      /\ session'.pending_contrato = s.pending_contrato /\ session'.pending_intent = i
  BY <1>1, <1>4 DEF Session
<1>7. Idle(session')
  BY <1>1, <1>5, <1>6 DEF Idle
<1> QED
  BY <1>2, <1>3, <1>7, IdleLeaves

\* Asking again, or finding nobody, changes nothing that is awaited.
LEMMA EmitRefusalLeaves ==
  ASSUME Inv, NEW m \in UserMessage, NEW s, Idle(s), NEW i \in Intent,
         NEW captured \in BOOLEAN,
         EmitAskAgain(m, s, i, captured) \/ EmitNotIdentified(m, s, i, captured)
  PROVE  Leaves /\ Typed
<1>1. PICK ran \in {{}, ToolOf(i)} :
        Says(m, Script[i].not_found, {}, ran, verified, 0)
  BY DEF EmitAskAgain, EmitNotIdentified
<1>2. session' = s /\ verified' = verified
  BY DEF EmitAskAgain, EmitNotIdentified
<1>3. TypeOK /\ verified \in BOOLEAN
  BY DEF Inv, TypeOK
<1>4. Script[i].not_found \in Message /\ ran \in SUBSET Tool /\ {} \in SUBSET Intent
  BY ScriptFacts
<1>5. Typed /\ reply'.renders = {}
  BY <1>1, <1>3, <1>4, SaysTyped
<1> QED
  BY <1>2, <1>3, <1>5, IdleLeaves

\* Identification answers the wish it finds: a wish for a commitment puts the date
\* question, and only then is the date awaited.
LEMMA EmitIdentifiedLeaves ==
  ASSUME Inv, NEW m \in UserMessage, NEW s, Idle(s), NEW i \in Intent,
         NEW captured \in BOOLEAN, EmitIdentified(m, s, i, captured)
  PROVE  Leaves /\ Typed
<1> DEFINE p == s.pending_intent
<1>1. /\ i \in identity_opening_intents /\ verified' = TRUE /\ session' = Identified(s, i)
      /\ IF Answerable(p, i)
           THEN Says(m, Script[i].confirm \cup Script[p].text, {p}, ToolOf(i), TRUE, 0)
           ELSE Says(m, Script[i].text, {i}, ToolOf(i), TRUE, 0)
  BY DEF EmitIdentified
<1>2. TypeOK /\ s \in Session /\ i # DateQuestion /\ i # ContractQuestion
  BY <1>1, ScriptFacts DEF Inv, Idle
<1>3. /\ s.llm_flow = NoFlow /\ ~s.pending_date /\ ~s.expecting_contrato
      /\ ~s.pending_contrato
  BY DEF Idle
<1>4. (p = DateQuestion) \in BOOLEAN
  OBVIOUS
<1>5. session' = [s EXCEPT !.pending_intent = None, !.pending_date = (p = DateQuestion)]
  BY <1>1, <1>2, <1>3 DEF Identified, Session
<1>6. session' \in Session
  BY <1>2, <1>4, <1>5 DEF Session
<1>7. /\ session'.pending_date = (p = DateQuestion) /\ session'.pending_intent = None
      /\ session'.llm_flow = NoFlow /\ ~session'.expecting_contrato
      /\ ~session'.pending_contrato
  BY <1>2, <1>3, <1>4, <1>5 DEF Session
<1>8. p # ContractQuestion
  <2>1. ContractQuestion \in Intent /\ ~Script[ContractQuestion].requires_identity
    BY ScriptAssumption DEF NamedIntent, OpenIntent
  <2> QED
    BY <2>1 DEF Idle
<1>9. p = DateQuestion => Answerable(p, i)
  <2>1. DateQuestion \in Intent /\ Script[DateQuestion].text # {}
    BY ScriptAssumption DEF NamedIntent
  <2> QED
    BY <1>2, <2>1 DEF Answerable
<1>10. Typed /\ (DateQuestion \in reply'.renders <=> p = DateQuestion)
             /\ ContractQuestion \notin reply'.renders
  <2>1. CASE Answerable(p, i)
    <3>1. p \in Intent
      BY <2>1 DEF Answerable
    <3>2. Script[i].confirm \cup Script[p].text \in Message /\ ToolOf(i) \in SUBSET Tool
      BY <3>1, ScriptFacts DEF Message
    <3>3. Typed /\ reply'.renders = {p}
      BY <1>1, <1>2, <2>1, <3>1, <3>2, SaysTyped
    <3> QED
      BY <1>8, <3>3
  <2>2. CASE ~Answerable(p, i)
    <3>1. Script[i].text \in Message /\ ToolOf(i) \in SUBSET Tool
      BY ScriptFacts
    <3>2. Typed /\ reply'.renders = {i}
      BY <1>1, <1>2, <2>2, <3>1, SaysTyped
    <3> QED
      BY <1>2, <1>9, <2>2, <3>2
  <2> QED
    BY <2>1, <2>2
<1>11. /\ session'.pending_date <=> DateQuestion \in reply'.renders
       /\ session'.expecting_contrato <=> ContractQuestion \in reply'.renders
  BY <1>7, <1>10
<1>12. ~session'.pending_contrato /\ ~session'.expecting_contrato /\ ~session'.llm_flow.on
  BY <1>7 DEF NoFlow
<1>13. session'.pending_intent \notin Intent
  BY <1>7, ScriptFacts
<1>14. verified' = TRUE
  BY <1>1
<1> HIDE DEF p
<1> QED
  BY <1>6, <1>10, <1>11, <1>12, <1>13, <1>14 DEF Leaves

\* Whatever _emit_intent does, the session waits for what the reply asks.
LEMMA EmitLeaves ==
  ASSUME Inv, NEW m \in UserMessage, NEW s, Idle(s), NEW i \in Intent,
         NEW captured \in BOOLEAN, Emit(m, s, i, captured)
  PROVE  Leaves /\ Typed
  BY EmitAnswerLeaves, EmitGateLeaves, EmitRefusalLeaves, EmitIdentifiedLeaves DEF Emit

\* A canned answer that puts no question leaves nothing awaited.
LEMMA AnswersLeaves ==
  ASSUME Inv, NEW m \in UserMessage, NEW i \in Intent, NEW ran \in SUBSET Tool,
         i # DateQuestion, i # ContractQuestion, Idle(session'), Answers(m, i, ran)
  PROVE  Leaves /\ Typed
<1>1. Typed /\ reply'.renders = {i} /\ verified' \in BOOLEAN
  BY AnswersTyped
<1> QED
  BY <1>1, IdleLeaves

\* The router's own answers leave nothing awaited.
LEMMA RouterAnswersLeave ==
  ASSUME Inv, NEW m \in UserMessage,
         \/ TurnPrequestionNo(m) \/ TurnHoliday(m) \/ TurnOutOfHours(m)
         \/ TurnScripted(m) \/ TurnPrequestion(m)
  PROVE  Leaves /\ Typed
<1>1. /\ {Handoff, "fuera_de_horario", "no_entendido", Prequestion} \subseteq Intent
      /\ DomingoFeriado \subseteq Intent /\ {} \in SUBSET Tool /\ ToolOf(Handoff) \in SUBSET Tool
  BY ScriptFacts DEF NamedIntent
<1>2. \A i \in {Handoff, "fuera_de_horario", "no_entendido", Prequestion} \cup DomingoFeriado :
        i # DateQuestion /\ i # ContractQuestion
  BY DEF Handoff, Prequestion, DomingoFeriado, DateQuestion, ContractQuestion
<1>3. CASE TurnPrequestionNo(m)
  <2>1. PICK s \in Opened(m) :
          /\ PrequestionPending(s) /\ m.word = "no"
          /\ session' = [s EXCEPT !.pending_intent = None, !.answered = FALSE]
    BY <1>3 DEF TurnPrequestionNo
  <2>2. Routed /\ Answers(m, Handoff, ToolOf(Handoff))
    BY <1>3 DEF TurnPrequestionNo
  <2>3. s = Released
    BY <2>1 DEF Opened
  <2>4. ~Released.pending_contrato /\ ~Released.expecting_contrato
    BY <2>1 DEF Opened
  <2>5. ~Released.pending_date
    BY <2>2, ReleasedKeeps DEF Routed, DateDue, Inv, OneQuestionAtATime
  <2>6. session' \in Session
    BY <2>1, <2>3, ReleasedKeeps DEF Session
  <2>7. /\ session'.llm_flow = NoFlow /\ session'.pending_date = Released.pending_date
        /\ session'.expecting_contrato = Released.expecting_contrato
        /\ session'.pending_contrato = Released.pending_contrato
        /\ session'.pending_intent = None
    BY <2>1, <2>3, ReleasedKeeps DEF Session
  <2>8. Idle(session')
    BY <2>4, <2>5, <2>6, <2>7, ScriptFacts DEF Idle
  <2> QED
    BY <1>1, <1>2, <2>2, <2>8, AnswersLeaves
<1>4. CASE TurnHoliday(m)
  <2>1. PICK i \in DomingoFeriado : Answers(m, i, {})
    BY <1>4 DEF TurnHoliday
  <2>2. Idle(session')
    BY <1>4, RouterIdle DEF TurnHoliday
  <2> QED
    BY <1>1, <1>2, <2>1, <2>2, AnswersLeaves
<1>5. CASE TurnOutOfHours(m)
  <2>1. Idle(session')
    BY <1>5, RouterIdle DEF TurnOutOfHours
  <2> QED
    BY <1>1, <1>2, <1>5, <2>1, AnswersLeaves DEF TurnOutOfHours
<1>6. CASE TurnScripted(m)
  <2>1. Idle(session')
    BY <1>6, RouterIdle DEF TurnScripted, Missed
  <2> QED
    BY <1>1, <1>2, <1>6, <2>1, AnswersLeaves DEF TurnScripted
<1>7. CASE TurnPrequestion(m)
  <2>1. PICK s \in Continued(m) : session' = [s EXCEPT !.pending_intent = "comprobante"]
    BY <1>7 DEF TurnPrequestion
  <2>2. Idle(s)
    BY <1>7, <2>1, RouterIdle DEF TurnPrequestion, Missed
  <2>3. session' \in Session
    BY <2>1, <2>2 DEF Idle, Session
  <2>4. /\ session'.llm_flow = s.llm_flow /\ session'.pending_date = s.pending_date
        /\ session'.expecting_contrato = s.expecting_contrato
        /\ session'.pending_contrato = s.pending_contrato
        /\ session'.pending_intent = "comprobante"
    BY <2>1, <2>2 DEF Idle, Session
  <2>5. Idle(session')
    BY <2>2, <2>3, <2>4, ScriptFacts DEF Idle
  <2> QED
    BY <1>1, <1>2, <1>7, <2>5, AnswersLeaves DEF TurnPrequestion
<1> QED
  BY <1>3, <1>4, <1>5, <1>6, <1>7

\* What _emit_intent answers, after a keyword or after the classifier.
LEMMA RouterEmitsLeave ==
  ASSUME Inv, NEW m \in UserMessage, TurnKeyword(m) \/ TurnClassified(m)
  PROVE  Leaves /\ Typed
<1>1. CASE TurnKeyword(m)
  <2>1. PICK s \in Continued(m), i \in KeywordMatch(m) \ DomingoFeriado : Emit(m, s, i, TRUE)
    BY <1>1 DEF TurnKeyword
  <2>2. Idle(s)
    BY <1>1, <2>1, RouterIdle DEF TurnKeyword
  <2>3. i \in Intent
    BY <2>1 DEF KeywordMatch, identity_opening_intents, UserMessage
  <2> QED
    BY <2>1, <2>2, <2>3, EmitLeaves
<1>2. CASE TurnClassified(m)
  <2>1. PICK s \in Continued(m), i \in Classifiable : Emit(m, s, i, FALSE)
    BY <1>2 DEF TurnClassified
  <2>2. Idle(s)
    BY <1>2, <2>1, RouterIdle DEF TurnClassified, Missed
  <2>3. i \in Intent
    BY <2>1 DEF Classifiable
  <2> QED
    BY <2>1, <2>2, <2>3, EmitLeaves
<1> QED
  BY <1>1, <1>2

\* What the router hands to the language model, with a flow armed or not.
LEMMA RouterGeneratesLeave ==
  ASSUME Inv, NEW m \in UserMessage,
         TurnKeywordFlow(m) \/ TurnClassifiedFlow(m) \/ TurnGenerated(m)
  PROVE  Leaves /\ Typed
<1>1. Routed
  BY DEF TurnKeywordFlow, TurnClassifiedFlow, TurnGenerated, Missed
<1>2. PICK s \in Continued(m) : Generate(m, InFlow(s), 0) \/ Generate(m, s, 0)
  BY DEF TurnKeywordFlow, TurnClassifiedFlow, TurnGenerated
<1>3. Idle(s)
  BY <1>1, RouterIdle
<1>4. [on |-> TRUE, turns |-> 0] \in [on : BOOLEAN, turns : 0..MaxFlowTurns]
  BY ScriptAssumption
<1>5. InFlow(s) \in Session /\ s \in Session
  BY <1>3, <1>4 DEF InFlow, Idle, Session
<1>6. /\ InFlow(s).pending_date = s.pending_date
      /\ InFlow(s).expecting_contrato = s.expecting_contrato
      /\ InFlow(s).pending_contrato = s.pending_contrato
      /\ InFlow(s).pending_intent = s.pending_intent
  BY <1>3 DEF InFlow, Idle, Session
<1>7. CASE Generate(m, InFlow(s), 0)
  BY <1>3, <1>5, <1>6, <1>7, GenerateLeaves DEF Idle
<1>8. CASE Generate(m, s, 0)
  BY <1>3, <1>5, <1>8, GenerateLeaves DEF Idle
<1> QED
  BY <1>2, <1>7, <1>8

-----------------------------------------------------------------------------
(* The theorems. *)

LEMMA InitInv == Init => Inv
<1> SUFFICES ASSUME Init PROVE Inv
  OBVIOUS
<1>1. NoFlow \in [on : BOOLEAN, turns : 0..MaxFlowTurns] /\ MaxRetries \in Nat
  BY ScriptAssumption DEF NoFlow
<1>2. session \in Session
  BY <1>1 DEF Init, Fresh, Session
<1>3. reply \in Reply
  BY DEF Init, NoReply, Reply, Message
<1>4. TypeOK
  BY <1>2, <1>3 DEF Init, TypeOK
<1>5. WaitsForLastQuestion /\ OneQuestionAtATime
  BY DEF Init, Fresh, NoReply, NoFlow, WaitsForLastQuestion, OneQuestionAtATime
<1>6. WishGated
  BY ScriptFacts DEF Init, Fresh, WishGated
<1> QED
  BY <1>4, <1>5, <1>6 DEF Inv

\* A turn that leaves what it must leave keeps the invariant.
LEMMA LeavesInv ==
  ASSUME Inv, Leaves, Typed
  PROVE  Inv'
<1>1. TypeOK'
  BY DEF Inv, TypeOK, Leaves, Typed
<1>2. WaitsForLastQuestion' /\ OneQuestionAtATime'
  BY DEF Leaves, WaitsForLastQuestion, OneQuestionAtATime
<1>3. WishGated'
  BY DEF Leaves, WishGated
<1> QED
  BY <1>1, <1>2, <1>3 DEF Inv

LEMMA NextInv == Inv /\ [Next]_vars => Inv'
<1> SUFFICES ASSUME Inv, [Next]_vars PROVE Inv'
  OBVIOUS
<1>1. ASSUME NEW m \in UserMessage,
             TurnBypassed(m) \/ TurnDate(m) \/ TurnContractNumber(m) \/ TurnContractFails(m)
      PROVE  Inv'
  BY <1>1, BypassedLeaves, DateLeaves, ContractNumberLeaves, ContractFailsLeaves, LeavesInv
<1>2. ASSUME NEW m \in UserMessage,
             \/ TurnPrequestionNo(m) \/ TurnHoliday(m) \/ TurnOutOfHours(m)
             \/ TurnScripted(m) \/ TurnPrequestion(m)
      PROVE  Inv'
  BY <1>2, RouterAnswersLeave, LeavesInv
<1>3. ASSUME NEW m \in UserMessage, TurnKeyword(m) \/ TurnClassified(m)
      PROVE  Inv'
  BY <1>3, RouterEmitsLeave, LeavesInv
<1>4. ASSUME NEW m \in UserMessage,
             TurnKeywordFlow(m) \/ TurnClassifiedFlow(m) \/ TurnGenerated(m)
      PROVE  Inv'
  BY <1>4, RouterGeneratesLeave, LeavesInv
<1>5. CASE TokenResolves
  <2>1. /\ verified' = TRUE /\ mode' = mode /\ session' = session
        /\ collected' = collected /\ asked' = asked /\ reply' = reply
    BY <1>5 DEF TokenResolves
  <2>2. TypeOK' /\ WishGated'
    BY <2>1 DEF Inv, TypeOK, WishGated
  <2>3. WaitsForLastQuestion' /\ OneQuestionAtATime'
    BY <2>1 DEF Inv, WaitsForLastQuestion, OneQuestionAtATime
  <2> QED
    BY <2>2, <2>3 DEF Inv
<1>6. CASE Restart
  <2>1. /\ verified' = FALSE /\ session' = Fresh /\ reply' = NoReply
        /\ mode' = mode /\ collected' = collected /\ asked' = asked
    BY <1>6 DEF Restart
  <2>2. NoFlow \in [on : BOOLEAN, turns : 0..MaxFlowTurns] /\ MaxRetries \in Nat
    BY ScriptAssumption DEF NoFlow
  <2>3. session' \in Session
    BY <2>1, <2>2 DEF Fresh, Session
  <2>4. reply' \in Reply
    BY <2>1 DEF NoReply, Reply, Message
  <2>5. TypeOK'
    BY <2>1, <2>3, <2>4 DEF Inv, TypeOK
  <2>6. WaitsForLastQuestion' /\ OneQuestionAtATime'
    BY <2>1 DEF Fresh, NoReply, NoFlow, WaitsForLastQuestion, OneQuestionAtATime
  <2>7. WishGated'
    BY <2>1, ScriptFacts DEF Fresh, WishGated
  <2> QED
    BY <2>5, <2>6, <2>7 DEF Inv
<1>7. CASE UNCHANGED vars
  BY <1>7 DEF vars, Inv, TypeOK, WaitsForLastQuestion, OneQuestionAtATime, WishGated
<1> QED
  BY <1>1, <1>2, <1>3, <1>4, <1>5, <1>6, <1>7 DEF Next

\* Every variable keeps its type, for every catalogue and every cap.
THEOREM TypeCorrect == Spec => []TypeOK
<1>1. Inv => TypeOK
  BY DEF Inv
<1> QED
  BY <1>1, InitInv, NextInv, PTL DEF Spec

\* The dialogue waits for the answer of its last question and of no other, whatever the
\* catalogue says.
THEOREM QuestionsAwaited == Spec => []WaitsForLastQuestion
<1>1. Inv => WaitsForLastQuestion
  BY DEF Inv
<1> QED
  BY <1>1, InitInv, NextInv, PTL DEF Spec

\* It waits for one thing at a time, and for a commitment date from identified customers
\* only.
THEOREM OneThingAwaited == Spec => []OneQuestionAtATime
<1>1. Inv => OneQuestionAtATime
  BY DEF Inv
<1> QED
  BY <1>1, InitInv, NextInv, PTL DEF Spec

-----------------------------------------------------------------------------
(* The identity gate. *)

\* _emit_intent renders account data to identified customers only.
LEMMA EmitGated ==
  ASSUME NEW m, NEW s, NEW i \in Intent, NEW captured, Emit(m, s, i, captured)
  PROVE  AccountDataNeedsIdentity'
<1>1. CASE EmitGate(m, s, i)
  <2>1. reply'.renders = {"identidad_requerida"}
    BY <1>1 DEF EmitGate, Answers, Says
  <2>2. ~Script["identidad_requerida"].requires_identity
    BY ScriptAssumption DEF OpenIntent
  <2> QED
    BY <2>1, <2>2 DEF AccountDataNeedsIdentity
<1>2. CASE EmitAskAgain(m, s, i, captured)
  <2>1. reply'.renders = {}
    BY <1>2 DEF EmitAskAgain, Says
  <2> QED
    BY <2>1 DEF AccountDataNeedsIdentity
<1>3. CASE EmitAnswer(m, s, i, captured)
  <2>1. /\ reply'.renders = {i} /\ reply'.verified = verified
        /\ ~(Script[i].requires_identity /\ ~verified)
    BY <1>3 DEF EmitAnswer, Answers, Says, Gated
  <2> QED
    BY <2>1 DEF AccountDataNeedsIdentity
<1>4. CASE EmitNotIdentified(m, s, i, captured)
  <2>1. reply'.renders = {}
    BY <1>4 DEF EmitNotIdentified, Says
  <2> QED
    BY <2>1 DEF AccountDataNeedsIdentity
<1>5. CASE EmitIdentified(m, s, i, captured)
  <2>1. reply'.verified = TRUE
    BY <1>5 DEF EmitIdentified, Says
  <2> QED
    BY <2>1 DEF AccountDataNeedsIdentity
<1> QED
  BY <1>1, <1>2, <1>3, <1>4, <1>5 DEF Emit

\* The replies the router writes itself speak of no account, or follow a check of the
\* identity, or are the holiday answers.
LEMMA RouterGated ==
  ASSUME NEW m,
         \/ TurnDate(m) \/ TurnContractNumber(m) \/ TurnContractFails(m)
         \/ TurnPrequestionNo(m) \/ TurnHoliday(m) \/ TurnOutOfHours(m)
         \/ TurnScripted(m) \/ TurnPrequestion(m)
  PROVE  AccountDataNeedsIdentity'
<1>1. CASE TurnDate(m) \/ TurnPrequestion(m)
  <2>1. verified
    BY <1>1 DEF TurnDate, DateDue, TurnPrequestion
  <2>2. reply'.verified = verified
    BY <1>1 DEF TurnDate, TurnPrequestion, Answers, Says
  <2> QED
    BY <2>1, <2>2 DEF AccountDataNeedsIdentity
<1>2. CASE TurnHoliday(m)
  <2>1. PICK i \in DomingoFeriado : reply'.renders = {i}
    BY <1>2 DEF TurnHoliday, Answers, Says
  <2> QED
    BY <2>1 DEF AccountDataNeedsIdentity
<1>3. CASE \/ TurnContractNumber(m) \/ TurnContractFails(m) \/ TurnPrequestionNo(m)
           \/ TurnOutOfHours(m) \/ TurnScripted(m)
  <2>1. \E i \in OpenIntent : reply'.renders = {i}
    <3>1. PICK i \in OpenIntent, ran \in {{}, ToolOf(Handoff), ToolOf("id_contrato_max_retries")} :
            Answers(m, i, ran)
      <4>1. CASE TurnContractNumber(m)
        BY <4>1 DEF TurnContractNumber, OpenIntent
      <4>2. CASE TurnContractFails(m)
        BY <4>2 DEF TurnContractFails, OpenIntent
      <4>3. CASE TurnPrequestionNo(m)
        BY <4>3 DEF TurnPrequestionNo, OpenIntent
      <4>4. CASE TurnOutOfHours(m)
        BY <4>4 DEF TurnOutOfHours, OpenIntent
      <4>5. CASE TurnScripted(m)
        BY <4>5 DEF TurnScripted, OpenIntent
      <4> QED
        BY <1>3, <4>1, <4>2, <4>3, <4>4, <4>5
    <3> QED
      BY <3>1 DEF Answers, Says
  <2>2. \A i \in OpenIntent : ~Script[i].requires_identity
    BY ScriptAssumption
  <2> QED
    BY <2>1, <2>2 DEF AccountDataNeedsIdentity
<1> QED
  BY <1>1, <1>2, <1>3

LEMMA NextGated == AccountDataNeedsIdentity /\ [Next]_vars => AccountDataNeedsIdentity'
<1> SUFFICES ASSUME AccountDataNeedsIdentity, [Next]_vars PROVE AccountDataNeedsIdentity'
  OBVIOUS
<1>1. ASSUME NEW m \in UserMessage,
             \/ TurnDate(m) \/ TurnContractNumber(m) \/ TurnContractFails(m)
             \/ TurnPrequestionNo(m) \/ TurnHoliday(m) \/ TurnOutOfHours(m)
             \/ TurnScripted(m) \/ TurnPrequestion(m)
      PROVE  AccountDataNeedsIdentity'
  BY <1>1, RouterGated
<1>2. ASSUME NEW m \in UserMessage, TurnKeyword(m) \/ TurnClassified(m)
      PROVE  AccountDataNeedsIdentity'
  <2>1. CASE TurnKeyword(m)
    <3>1. PICK s \in Continued(m), i \in KeywordMatch(m) : Emit(m, s, i, TRUE)
      BY <2>1 DEF TurnKeyword
    <3>2. i \in Intent
      BY <3>1 DEF KeywordMatch, identity_opening_intents, UserMessage
    <3> QED
      BY <3>1, <3>2, EmitGated
  <2>2. CASE TurnClassified(m)
    <3>1. PICK s \in Continued(m), i \in Intent : Emit(m, s, i, FALSE)
      BY <2>2 DEF TurnClassified, Classifiable
    <3> QED
      BY <3>1, EmitGated
  <2> QED
    BY <1>2, <2>1, <2>2
<1>3. ASSUME NEW m \in UserMessage,
             \/ TurnBypassed(m) \/ TurnKeywordFlow(m) \/ TurnClassifiedFlow(m)
             \/ TurnGenerated(m)
      PROVE  AccountDataNeedsIdentity'
  <2>1. reply'.renders = {}
    <3>1. PICK s, bypassed : Generate(m, s, bypassed)
      BY <1>3 DEF TurnBypassed, TurnKeywordFlow, TurnClassifiedFlow, TurnGenerated
    <3> QED
      BY <3>1 DEF Generate, Says
  <2> QED
    BY <2>1 DEF AccountDataNeedsIdentity
<1>4. CASE TokenResolves
  BY <1>4 DEF TokenResolves, AccountDataNeedsIdentity
<1>5. CASE Restart
  BY <1>5 DEF Restart, NoReply, AccountDataNeedsIdentity
<1>6. CASE UNCHANGED vars
  BY <1>6 DEF vars, AccountDataNeedsIdentity
<1> QED
  BY <1>1, <1>2, <1>3, <1>4, <1>5, <1>6 DEF Next

\* No canned reply shows account data before identification, for every catalogue whose
\* holiday answers are the only ones put before the gate.
THEOREM AccountDataGated == Spec => []AccountDataNeedsIdentity
<1>1. Init => AccountDataNeedsIdentity
  BY DEF Init, NoReply, AccountDataNeedsIdentity
<1> QED
  BY <1>1, NextGated, PTL DEF Spec

-----------------------------------------------------------------------------
(* The sticky flow. *)

\* The turns in a row that skipped the router are counted by the flow while it is on.
FlowInv ==
  /\ reply.bypassed <= MaxFlowTurns
  /\ session.llm_flow.on => reply.bypassed <= session.llm_flow.turns

\* A turn whose reply was not written past the router starts the count again.
LEMMA CountRestarts ==
  ASSUME Inv', reply'.bypassed = 0
  PROVE  FlowInv'
<1>1. session'.llm_flow.turns \in 0..MaxFlowTurns
  BY DEF Inv, TypeOK, Session
<1> QED
  BY <1>1, ScriptAssumption DEF FlowInv

LEMMA NextFlow == Inv /\ Inv' /\ FlowInv /\ [Next]_vars => FlowInv'
<1> SUFFICES ASSUME Inv, Inv', FlowInv, [Next]_vars PROVE FlowInv'
  OBVIOUS
<1>1. ASSUME NEW m \in UserMessage, TurnBypassed(m)
      PROVE  FlowInv'
  <2> DEFINE s == [session EXCEPT !.llm_flow.turns = @ + 1]
  <2>1. /\ session.llm_flow.on /\ session.llm_flow.turns < MaxFlowTurns
        /\ session \in Session /\ session.llm_flow.turns \in Nat /\ reply.bypassed \in Nat
    BY <1>1 DEF TurnBypassed, Bypassed, Inv, TypeOK, Session, Reply
  <2>2. s.llm_flow.turns = session.llm_flow.turns + 1
    BY <2>1 DEF Session
  <2>3. /\ reply'.bypassed = reply.bypassed + 1
        /\ session' = s \/ session' = [s EXCEPT !.llm_flow = NoFlow]
    BY <1>1 DEF TurnBypassed, Generate, Says
  <2>4. session' = [s EXCEPT !.llm_flow = NoFlow] => ~session'.llm_flow.on
    BY <2>1 DEF Session, NoFlow
  <2> HIDE DEF s
  <2>5. reply'.bypassed <= session.llm_flow.turns + 1
    BY <2>1, <2>3 DEF FlowInv
  <2>6. reply'.bypassed <= MaxFlowTurns
    BY <2>1, <2>3, <2>5, ScriptAssumption
  <2> QED
    BY <2>2, <2>3, <2>4, <2>5, <2>6 DEF FlowInv
<1>2. ASSUME NEW m \in UserMessage,
             \/ TurnDate(m) \/ TurnContractNumber(m) \/ TurnContractFails(m)
             \/ TurnPrequestionNo(m) \/ TurnHoliday(m) \/ TurnOutOfHours(m)
             \/ TurnScripted(m) \/ TurnPrequestion(m)
      PROVE  FlowInv'
  <2>1. \E i, ran : Answers(m, i, ran)
    BY <1>2 DEF TurnDate, TurnContractNumber, TurnContractFails, TurnPrequestionNo, TurnHoliday,
                TurnOutOfHours, TurnScripted, TurnPrequestion
  <2>2. reply'.bypassed = 0
    BY <2>1 DEF Answers, Says
  <2> QED
    BY <2>2, CountRestarts
<1>3. ASSUME NEW m \in UserMessage, TurnKeyword(m) \/ TurnClassified(m)
      PROVE  FlowInv'
  <2>1. PICK s, i, captured : Emit(m, s, i, captured)
    BY <1>3 DEF TurnKeyword, TurnClassified
  <2>2. reply'.bypassed = 0
    BY <2>1 DEF Emit, EmitGate, EmitAskAgain, EmitAnswer, EmitNotIdentified, EmitIdentified,
                Answers, Says
  <2> QED
    BY <2>2, CountRestarts
<1>4. ASSUME NEW m \in UserMessage,
             TurnKeywordFlow(m) \/ TurnClassifiedFlow(m) \/ TurnGenerated(m)
      PROVE  FlowInv'
  <2>1. PICK s : Generate(m, s, 0)
    BY <1>4 DEF TurnKeywordFlow, TurnClassifiedFlow, TurnGenerated
  <2>2. reply'.bypassed = 0
    BY <2>1 DEF Generate, Says
  <2> QED
    BY <2>2, CountRestarts
<1>5. CASE Restart
  <2>1. reply'.bypassed = 0
    BY <1>5 DEF Restart, NoReply
  <2> QED
    BY <2>1, CountRestarts
<1>6. CASE TokenResolves \/ UNCHANGED vars
  BY <1>6 DEF TokenResolves, vars, FlowInv
<1> QED
  BY <1>1, <1>2, <1>3, <1>4, <1>5, <1>6 DEF Next

\* The router is skipped for no more turns in a row than the cap, whether or not the flow
\* is armed again in between.
THEOREM FlowIsReleased == Spec => []FlowReleased
<1>1. Init => FlowInv
  BY ScriptAssumption DEF Init, NoReply, Fresh, NoFlow, FlowInv
<1>2. FlowInv => FlowReleased
  BY DEF FlowInv, FlowReleased
<1> QED
  BY <1>1, <1>2, InitInv, NextInv, NextFlow, PTL DEF Spec

-----------------------------------------------------------------------------
(* The wish that waits for identification. *)

\* A pending intent, unlike the mark of the pre-question, passes the router's first steps.
LEMMA WishPasses ==
  ASSUME Inv, session.pending_intent \in Intent, NEW m \in UserMessage, NEW s \in Continued(m)
  PROVE  s.pending_intent = session.pending_intent
<1>1. Released \in Session /\ Released.pending_intent = session.pending_intent
  BY ReleasedKeeps
<1>2. ASSUME NEW x \in Opened(m)
      PROVE  x.pending_intent = session.pending_intent
  <2>1. x = Released \/ x = ContractResolved
    BY <1>2 DEF Opened
  <2>2. ContractResolved.pending_intent = Released.pending_intent
    BY <1>1 DEF ContractResolved, Session
  <2> QED
    BY <1>1, <2>1, <2>2
<1>3. \A x \in Opened(m) : ~PrequestionPending(x)
  BY <1>2, ScriptFacts DEF PrequestionPending
<1>4. s \in Opened(m)
  BY <1>3 DEF Continued
<1> QED
  BY <1>2, <1>4

\* What a turn does with a wish.
WishStays == session'.pending_intent # None \/ session.pending_intent \in reply'.renders

LEMMA EmitKeepsWish ==
  ASSUME NEW m, NEW s \in Session, NEW i \in Intent, NEW captured,
         s.pending_intent = session.pending_intent, session.pending_intent \in Intent,
         Script[session.pending_intent].text # {}, Emit(m, s, i, captured)
  PROVE  WishStays
<1>1. None \notin Intent
  BY ScriptFacts
<1>2. CASE EmitGate(m, s, i)
  <2>1. session'.pending_intent = i
    BY <1>2 DEF EmitGate, Session
  <2> QED
    BY <1>1, <2>1 DEF WishStays
<1>3. CASE EmitAskAgain(m, s, i, captured) \/ EmitNotIdentified(m, s, i, captured)
  BY <1>1, <1>3 DEF EmitAskAgain, EmitNotIdentified, WishStays
<1>4. CASE EmitAnswer(m, s, i, captured)
  <2>1. session'.pending_intent = s.pending_intent
    BY <1>4 DEF EmitAnswer, Armed, Session
  <2> QED
    BY <1>1, <2>1 DEF WishStays
<1>5. CASE EmitIdentified(m, s, i, captured)
  <2> DEFINE p == session.pending_intent
  <2>1. CASE p = i
    <3>1. ~Answerable(p, i)
      BY <2>1 DEF Answerable
    <3>2. reply'.renders = {i}
      BY <1>5, <3>1 DEF EmitIdentified, Says
    <3> QED
      BY <2>1, <3>2 DEF WishStays
  <2>2. CASE p # i
    <3>1. Answerable(p, i)
      BY <2>2 DEF Answerable
    <3>2. reply'.renders = {p}
      BY <1>5, <3>1 DEF EmitIdentified, Says
    <3> QED
      BY <3>2 DEF WishStays
  <2> QED
    BY <2>1, <2>2
<1> QED
  BY <1>2, <1>3, <1>4, <1>5 DEF Emit

\* The turns the router does not emit an intent in leave a wish as it is.
LEMMA OthersKeepWish ==
  ASSUME Inv, session.pending_intent \in Intent, NEW m \in UserMessage,
         \/ TurnBypassed(m) \/ TurnDate(m) \/ TurnContractNumber(m) \/ TurnContractFails(m)
         \/ TurnPrequestionNo(m) \/ TurnHoliday(m) \/ TurnOutOfHours(m) \/ TurnKeywordFlow(m)
         \/ TurnScripted(m) \/ TurnPrequestion(m) \/ TurnClassifiedFlow(m) \/ TurnGenerated(m)
  PROVE  WishStays
<1>1. None \notin Intent /\ "comprobante" # None
  BY ScriptAssumption
<1>2. /\ session \in Session
      /\ Released \in Session /\ Released.pending_intent = session.pending_intent
  BY ReleasedKeeps DEF Inv, TypeOK
<1>3. ASSUME NEW s, NEW bypassed, s \in Session, s.pending_intent = session.pending_intent,
             Generate(m, s, bypassed)
      PROVE  WishStays
  <2>1. session' = s \/ session' = [s EXCEPT !.llm_flow = NoFlow]
    BY <1>3 DEF Generate
  <2>2. session'.pending_intent = session.pending_intent
    BY <1>3, <2>1 DEF Session
  <2> QED
    BY <1>1, <2>2 DEF WishStays
<1>4. CASE TurnBypassed(m)
  <2> DEFINE s == [session EXCEPT !.llm_flow.turns = @ + 1]
  <2>1. /\ session.llm_flow.on /\ session.llm_flow.turns + 1 \in 0..MaxFlowTurns
    BY <1>2, <1>4, ScriptAssumption DEF TurnBypassed, Bypassed, Session
  <2>2. [session.llm_flow EXCEPT !.turns = @ + 1] \in [on : BOOLEAN, turns : 0..MaxFlowTurns]
    BY <1>2, <2>1 DEF Session
  <2>3. s \in Session /\ s.pending_intent = session.pending_intent
    BY <1>2, <2>2 DEF Session
  <2>4. Generate(m, s, reply.bypassed + 1)
    BY <1>4 DEF TurnBypassed
  <2> HIDE DEF s
  <2> QED
    BY <1>3, <2>3, <2>4
<1>5. CASE TurnDate(m) \/ TurnContractNumber(m) \/ TurnContractFails(m)
  <2>1. \/ session' = [Released EXCEPT !.pending_date = FALSE]
        \/ \E b \in BOOLEAN :
             session' = [Released EXCEPT !.expecting_contrato = FALSE, !.pending_contrato = b]
        \/ session' = ContractFailed
    BY <1>5 DEF TurnDate, TurnContractNumber, TurnContractFails
  <2>2. session'.pending_intent = session.pending_intent
    BY <1>2, <2>1 DEF ContractFailed, Session
  <2> QED
    BY <1>1, <2>2 DEF WishStays
<1>6. CASE TurnPrequestionNo(m)
  <2>1. PICK s \in Opened(m) : PrequestionPending(s) /\ m.word = "no"
    BY <1>6 DEF TurnPrequestionNo
  <2>2. s = Released
    BY <2>1 DEF Opened
  <2> QED
    BY <1>2, <2>1, <2>2, ScriptFacts DEF PrequestionPending
<1>7. CASE TurnHoliday(m) \/ TurnOutOfHours(m) \/ TurnScripted(m)
  <2>1. session' \in Continued(m)
    BY <1>7 DEF TurnHoliday, TurnOutOfHours, TurnScripted
  <2> QED
    BY <1>1, <2>1, WishPasses DEF WishStays
<1>8. CASE TurnPrequestion(m)
  <2>1. PICK s \in Continued(m) : session' = [s EXCEPT !.pending_intent = "comprobante"]
    BY <1>8 DEF TurnPrequestion
  <2>2. s \in Session
    BY <1>8, RouterIdle DEF TurnPrequestion, Missed, Idle
  <2>3. session'.pending_intent = "comprobante"
    BY <2>1, <2>2 DEF Session
  <2> QED
    BY <1>1, <2>3 DEF WishStays
<1>9. CASE TurnKeywordFlow(m) \/ TurnClassifiedFlow(m) \/ TurnGenerated(m)
  <2>1. PICK s \in Continued(m) : Generate(m, InFlow(s), 0) \/ Generate(m, s, 0)
    BY <1>9 DEF TurnKeywordFlow, TurnClassifiedFlow, TurnGenerated
  <2>2. Idle(s)
    BY <1>9, RouterIdle DEF TurnKeywordFlow, TurnClassifiedFlow, TurnGenerated, Missed
  <2>3. s.pending_intent = session.pending_intent
    BY WishPasses
  <2>4. [on |-> TRUE, turns |-> 0] \in [on : BOOLEAN, turns : 0..MaxFlowTurns]
    BY ScriptAssumption
  <2>5. /\ s \in Session /\ InFlow(s) \in Session
        /\ InFlow(s).pending_intent = session.pending_intent
    BY <2>2, <2>3, <2>4 DEF Idle, InFlow, Session
  <2> QED
    BY <1>3, <2>1, <2>3, <2>5
<1> QED
  BY <1>4, <1>5, <1>6, <1>7, <1>8, <1>9

\* A wish the gate held back stays until another replaces it or the turn that identifies the
\* customer answers it.
THEOREM WishIsAnswered == Spec => WishAnswered
<1> DEFINE Kept ==
      LET p == session.pending_intent IN
      p \in Intent /\ Script[p].text # {} /\ reply' # NoReply
        => session'.pending_intent # None \/ p \in reply'.renders
<1>1. Inv /\ [Next]_vars => [Kept]_vars
  <2> SUFFICES ASSUME Inv, Next, session.pending_intent \in Intent,
                      Script[session.pending_intent].text # {}, reply' # NoReply
               PROVE  WishStays
    BY DEF WishStays
  <2>1. ASSUME NEW m \in UserMessage, TurnKeyword(m) \/ TurnClassified(m)
        PROVE  WishStays
    <3>1. Routed
      BY <2>1 DEF TurnKeyword, TurnClassified, Missed
    <3>2. PICK s \in Continued(m), i \in Intent, captured \in BOOLEAN : Emit(m, s, i, captured)
      <4>1. CASE TurnKeyword(m)
        <5>1. PICK s \in Continued(m), i \in KeywordMatch(m) : Emit(m, s, i, TRUE)
          BY <4>1 DEF TurnKeyword
        <5>2. i \in Intent
          BY <5>1 DEF KeywordMatch, identity_opening_intents, UserMessage
        <5> QED
          BY <5>1, <5>2
      <4>2. CASE TurnClassified(m)
        BY <4>2 DEF TurnClassified, Classifiable
      <4> QED
        BY <2>1, <4>1, <4>2
    <3>3. s \in Session /\ s.pending_intent = session.pending_intent
      BY <3>1, RouterIdle, WishPasses DEF Idle
    <3> QED
      BY <3>2, <3>3, EmitKeepsWish
  <2>2. CASE TokenResolves
    BY <2>2, ScriptFacts DEF TokenResolves, WishStays
  <2>3. CASE Restart
    BY <2>3 DEF Restart
  <2> QED
    BY <2>1, <2>2, <2>3, OthersKeepWish DEF Next
<1> QED
  BY <1>1, InitInv, NextInv, PTL DEF Spec, WishAnswered

=============================================================================
