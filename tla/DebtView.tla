------------------------------ MODULE DebtView ------------------------------
(***************************************************************************)
(* What one conversation tells a customer about the debt.  The profile is  *)
(* read once, at identification, and kept; the credit state and the        *)
(* overdue charges are derived from it turn by turn, while days pass,      *)
(* payments reach the lake and the lake comes and goes.  A step is a whole *)
(* turn of the conversation or one event outside it.                       *)
(***************************************************************************)
EXTENDS DebtSource

CONSTANTS
  TenantConfig, \* what the tenants' settings may say: [source, fallback]
  MaxDay        \* the calendar ends here

ASSUME DebtViewAssumption ==
  /\ TenantConfig \subseteq [source : {"mock", "doris"}, fallback : BOOLEAN]
  /\ MaxDay \in Nat
  /\ None \notin Profile

VARIABLES
  tenant,  \* the settings, read once
  lake,    \* the lake, and the date: [paid, today, online]
  profile, \* conv.debt_context; None before identification
  state,   \* session_state["credit_state"]; "unset" when absent
  reply,   \* the answer to the last turn
  seen     \* history: the lake at identification, whose number it was, the day of the last
           \* classification, and whether the profile came from the lake

vars == <<tenant, lake, profile, state, reply, seen>>

NoReply == [kind |-> "none"]

Init ==
  /\ tenant \in TenantConfig
  /\ lake = [paid |-> [c \in Credit |-> {}], today |-> 0, online |-> TRUE]
  /\ profile = None
  /\ state = "unset"
  /\ reply = NoReply
  /\ seen = [lake |-> lake, dni |-> None, classified |-> 0, live |-> FALSE]

-----------------------------------------------------------------------------
(* Outside the conversation. *)

Outside == UNCHANGED <<tenant, profile, state, reply, seen>>

NextDay ==
  /\ lake.today < MaxDay
  /\ lake' = [lake EXCEPT !.today = @ + 1]
  /\ Outside

\* The tenant's batches bring a payment, not always of the oldest installment.
Pay(c, n) ==
  /\ n \in Unpaid(c, lake)
  /\ lake' = [lake EXCEPT !.paid[c] = @ \cup {n}]
  /\ Outside

Outage ==
  /\ lake' = [lake EXCEPT !.online = ~@]
  /\ Outside

-----------------------------------------------------------------------------
(* The start of a turn. *)

\* _try_canned: state and, for a credit in arrears, the missing moratoria fields.
Classified(p) ==
  LET cs == classify_credit_state(p, lake.today)
  IN  [p EXCEPT !.credit_state = cs,
         !.amortizacion = IF cs = "vencido" /\ @ = 0
                          THEN get_moratoria_fields(p.credit, tenant, lake) ELSE @]

\* A turn of a sticky flow goes past the router, and with it past the classification.
Start(p, sticky) == IF sticky \/ p = None THEN p ELSE Classified(p)

StateOf(p, sticky) == IF sticky \/ p = None THEN state ELSE p.credit_state

\* The conversation and the history after a turn that started with profile p.
Opens(p, sticky) ==
  /\ profile' = Start(p, sticky)
  /\ state' = StateOf(profile', sticky)
  /\ UNCHANGED <<tenant, lake>>

SeenAt(s, p, sticky) == [s EXCEPT !.classified = IF sticky \/ p = None THEN @ ELSE lake.today]

\* What a reply about the debt shows: a curated one fills a template and runs the tool for
\* the side panel, the model's own has the tool's answer only.
DebtReplies(p, sticky) ==
  {[kind |-> "model", panel |-> consultar_deuda(p)]} \cup
  IF sticky THEN {} ELSE {[kind |-> "curated", panel |-> consultar_deuda(p), text |-> build_variables(p)]}

AskDebt(sticky) ==
  /\ profile # None
  /\ Opens(profile, sticky)
  /\ seen' = SeenAt(seen, profile, sticky)
  /\ reply' \in DebtReplies(profile', sticky)

\* consultar_cronograma: the schedule, or the offer of an adviser.
AskSchedule(sticky) ==
  /\ profile # None
  /\ Opens(profile, sticky)
  /\ seen' = SeenAt(seen, profile, sticky)
  /\ reply' = [kind |-> "schedule", of |-> get_cronograma(profile.credit, tenant, lake)]

\* The contract and DNI pair typed into the dialogue.  The profile it yields is put aside
\* in the session, where nothing reads it.
AskContract(c, d) ==
  /\ Opens(profile, FALSE)
  /\ seen' = SeenAt(seen, profile, FALSE)
  /\ reply' = [kind |-> "contract", credit |-> c, dni |-> d,
               found |-> resolve_contrato(c, d, tenant, lake)]

-----------------------------------------------------------------------------
(* Identification. *)

\* The new profile p was read for document number d.
Identifies(p, d) ==
  seen' = [lake |-> lake, dni |-> d, classified |-> lake.today,
           live |-> tenant.source = "doris" /\ lake.online /\ CreditsOf(d) # {}]

\* identificar_cliente, from the router or by the model, also of an identified customer.
\* The new profile replaces the old one after the turn's classification.  In the same turn
\* the model may go on to ask for the debt, or the wish held back be shown.
Identify(d, sticky) ==
  /\ state' = StateOf(Start(profile, sticky), sticky)
  /\ UNCHANGED <<tenant, lake>>
  /\ \/ /\ resolve_dni(d, tenant, lake) = {}
        /\ profile' = Start(profile, sticky)
        /\ seen' = SeenAt(seen, profile, sticky)
        /\ reply' = [kind |-> "not_found", dni |-> d]
     \/ /\ profile' \in resolve_dni(d, tenant, lake)
        /\ Identifies(profile', d)
        /\ reply' \in {[kind |-> "identified"],
                      [kind |-> "model", panel |-> consultar_deuda(profile')],
                      [kind |-> "wish", text |-> build_variables(profile')]}

\* A campaign token opens the gate before the turn; a token that does not resolve is a
\* turn without identity.
IdentifyByToken(t, sticky) ==
  /\ profile = None
  /\ \/ /\ resolve_token(t, tenant, lake) = {}
        /\ reply' = [kind |-> "not_found", dni |-> TokenDni[t]]
        /\ UNCHANGED <<tenant, lake, profile, state, seen>>
     \/ \E p \in resolve_token(t, tenant, lake) :
          /\ Opens(p, sticky)
          /\ Identifies(p, TokenDni[t])
          /\ reply' \in DebtReplies(profile', sticky)

Next ==
  \/ NextDay
  \/ \E c \in Credit : \E n \in Installment(c) : Pay(c, n)
  \/ Outage
  \/ \E sticky \in BOOLEAN :
       \/ AskDebt(sticky) \/ AskSchedule(sticky)
       \/ \E d \in Dni : Identify(d, sticky)
       \/ \E t \in Token : IdentifyByToken(t, sticky)
  \/ \E c \in Credit, d \in Dni : AskContract(c, d)

Spec == Init /\ [][Next]_vars

-----------------------------------------------------------------------------
(* Properties. *)

Panel == [status : {"al_dia", "en_mora"}, cuotas_vencidas : Nat,
          charges : [penalidad : Int, interes : [of : Nat, days : Nat]]]

Lake == [paid : [Credit -> SUBSET UNION {Installment(c) : c \in Credit}], today : Nat,
         online : BOOLEAN]

\* Every variable stays in its type, and only installments a credit has are paid.
TypeOK ==
  /\ tenant \in TenantConfig
  /\ lake \in Lake
  /\ \A c \in Credit : lake.paid[c] \subseteq Installment(c)
  /\ profile \in Profile \cup {None}
  /\ state \in CreditState \cup {"unset"}
  /\ seen \in [lake : Lake, dni : Dni \cup {None}, classified : Nat, live : BOOLEAN]
  /\ reply.kind \in {"model", "curated"} => reply.panel \in Panel

\* The profile was read from the lake, and an installment was still to be paid then.
OpenCredit == profile # None /\ seen.live /\ Unpaid(profile.credit, seen.lake) # {}

\* The row the profile query selects and the counts it aggregates beside it speak of the
\* same installment: the oldest unpaid one, counted as overdue from its due date on, while
\* the days overdue start on the day after.
SnapshotSound ==
  OpenCredit =>
    /\ \E n \in Unpaid(profile.credit, seen.lake) : profile.next_due = Due[profile.credit][n]
    /\ \A n \in Unpaid(profile.credit, seen.lake) : profile.next_due <= Due[profile.credit][n]
    /\ profile.cuotas_vencidas > 0 <=> profile.next_due <= seen.lake.today
    /\ profile.days_overdue > 0 <=> profile.cuotas_vencidas > 0 /\ profile.next_due # seen.lake.today

\* The credit state follows the calendar: vencido when an unpaid installment was due at
\* identification, else por_vencer when the next one comes within the window counted from
\* the last classification; the session agrees with the profile.
StateOfSnapshot ==
  OpenCredit /\ profile.credit_state # "unset" =>
    LET unpaid == {Due[profile.credit][n] : n \in Unpaid(profile.credit, seen.lake)}
        overdue == \E due \in unpaid : due <= seen.lake.today
    IN  /\ state = profile.credit_state
        /\ profile.credit_state = "vencido" <=> overdue
        /\ profile.credit_state = "por_vencer" <=>
             /\ ~overdue
             /\ \E due \in unpaid :
                  /\ due \in (seen.classified + 1)..(seen.classified + WindowDays)
                  /\ \A other \in unpaid : due <= other

\* The two texts of one turn, the template and the side panel, charge the same although
\* only one of them asks for the credit state; and the interest is never computed from
\* an installment that was paid, or due earlier than the one whose days are counted,
\* when the profile was read.
ChargesAgree ==
  /\ reply.kind = "curated" => reply.text = reply.panel
  /\ OpenCredit /\ profile.amortizacion # 0 =>
       /\ profile.amortizacion \in Unpaid(profile.credit, seen.lake)
       /\ Due[profile.credit][profile.amortizacion] >= profile.next_due

\* "prod fail-closed", as _resolve_dni_credits has it: where the settings do not allow the
\* fixture, whoever is identified was found in the lake while it answered, on a credit of
\* their own, with a campaign token or without.  The module's docstring says otherwise:
\* FixtureWhenAway.
FailClosed ==
  profile # None /\ tenant.source = "doris" /\ ~tenant.fallback =>
    /\ seen.lake.online
    /\ \E r \in Party : r.credit = profile.credit /\ r.dni = seen.dni

\* "On ANY connection/query error this module falls back to the tenant's seeded fixture so
\* the demo never breaks (FALLBACK CONTRACT - non-negotiable)": a customer of the fixture
\* who asks while the lake is away is not told that nobody was found.
NotFound == reply.kind = "not_found"

FixtureWhenAway ==
  [][tenant.source = "doris" /\ ~lake.online /\ lake' = lake /\ NotFound' =>
       reply'.dni \notin DOMAIN Borrower]_vars

\* "This runs on every canned turn so the value stays current": after a classification the
\* state is the one the lake gives now, unless a payment came in between.
StateStaysCurrent ==
  /\ profile # None /\ seen.live /\ profile.credit_state # "unset"
  /\ seen.classified = lake.today /\ seen.lake.paid = lake.paid
  => state = classify_credit_state(_row_to_profile(profile.credit, lake), lake.today)

\* "cuotas_vencidas == 0 means al-día — no scary "vencido" shown": a debt without overdue
\* installments is not shown in arrears.
NoArrearsWithoutOverdue ==
  reply.kind \in {"model", "curated"} /\ reply.panel.cuotas_vencidas = 0 /\ seen.live =>
    reply.panel.status = "al_dia"

\* "Penalty amount ceiled to nearest tenth": no penalty exceeds the exact amount by a whole
\* tenth.
PenaltyIsLeastTenth ==
  reply.kind = "curated" /\ reply.panel.charges.penalidad > 0 =>
    LET rate == IF profile.days_overdue <= Week THEN Rate1 ELSE Rate2
    IN  (reply.panel.charges.penalidad - 1) * Scale < Capital[profile.credit] * rate

=============================================================================
