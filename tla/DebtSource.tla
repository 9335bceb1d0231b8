----------------------------- MODULE DebtSource -----------------------------
(***************************************************************************)
(* What a customer's debt is: the queries of doris_debt_source and         *)
(* mock_debt_source over the lake, the credit state, the overdue charges.  *)
(*                                                                         *)
(* A lake is [paid, today, online]: the paid installments of every credit, *)
(* CURDATE(), and whether the database answers.  Due dates never change.   *)
(* Days are numbers; amounts of penalty are tenths of the currency.        *)
(***************************************************************************)
EXTENDS Integers, FiniteSets

CONSTANTS
  Credit, Dni,
  Role,        \* contractual positions
  Authorized,  \* authorized_roles
  Party,       \* batch_asignacion: who is named on which credit, in which role
  Last,        \* the number of installments of each credit
  Due,         \* the due date of each installment
  Capital,     \* the principal disbursed for each credit
  Borrower,    \* the fixture: the profile stored for some document numbers
  TokenDni,    \* the fixture's campaign tokens and whose they are
  WindowDays,  \* proxima_vencer_window_days
  Week,        \* days in a week
  Rate1, Rate2, \* penalty rates of the first and the later weeks, in 1/Scale of a tenth
  Scale,
  RoundsUp,    \* products of capital and rate whose double lies just above the exact value
  None

Token == DOMAIN TokenDni
Installment(c) == 1..Last[c]

ASSUME DebtSourceAssumption ==
  /\ IsFiniteSet(Credit) /\ None \notin Credit \cup Dni
  /\ Authorized \subseteq Role
  /\ Party \subseteq [credit : Credit, dni : Dni, role : Role]
  /\ Last \in [Credit -> Nat \ {0}]
  /\ \A c \in Credit : Due[c] \in [Installment(c) -> Nat]
  /\ \A c \in Credit : \A m, n \in Installment(c) : m < n => Due[c][m] < Due[c][n]
  /\ Capital \in [Credit -> Nat]
  /\ \A pair \in RoundsUp : pair[1] > 0
  /\ \A d \in DOMAIN Borrower :
       /\ d \in Dni
       /\ Borrower[d] \in [credit : Credit, next_due : Nat, days_overdue : Nat]
  /\ \A t \in Token : TokenDni[t] \in DOMAIN Borrower
  /\ {WindowDays, Rate1, Rate2} \subseteq Nat /\ {Week, Scale} \subseteq Nat \ {0}
  /\ Rate1 <= Rate2

CreditState == {"al_dia", "por_vencer", "vencido"}

-----------------------------------------------------------------------------
(* The profile query. *)

Unpaid(c, lake) == Installment(c) \ lake.paid[c]

\* Mutant: the first installment is selected whether it is paid or not.
pagos_sel_any(c, lake) == CHOOSE n \in Installment(c) :
                            \A m \in Installment(c) : Due[c][n] <= Due[c][m]

\* The row the profile is built from: unpaid rows first, then the oldest due date.  A
\* credit without unpaid rows still has a first row.
pagos_sel(c, lake) ==
  LET rows == IF Unpaid(c, lake) = {} THEN Installment(c) ELSE Unpaid(c, lake)
  IN  CHOOSE n \in rows : \A m \in rows : Due[c][n] <= Due[c][m]

\* The unpaid installments whose due date has come, the day itself included.
Vencidas(c, lake) == {n \in Unpaid(c, lake) : Due[c][n] <= lake.today}

\* Mutant: GREATEST is missing.
DaysOverdue_signed(c, lake) == lake.today - Due[c][pagos_sel(c, lake)]

\* GREATEST(DATEDIFF(CURDATE(), due), 0)
DaysOverdue(c, lake) ==
  LET due == Due[c][pagos_sel(c, lake)]
  IN  IF lake.today > due THEN lake.today - due ELSE 0

\* A profile; amortizacion is the installment whose amortization it carries, 0 for none.
Profile == [credit : Credit, next_due : Nat, days_overdue : Nat, cuotas_vencidas : Nat,
            credit_state : CreditState \cup {"unset"}, amortizacion : Nat]

_row_to_profile(c, lake) ==
  [credit |-> c, next_due |-> Due[c][pagos_sel(c, lake)],
   days_overdue |-> DaysOverdue(c, lake), cuotas_vencidas |-> Cardinality(Vencidas(c, lake)),
   credit_state |-> "unset", amortizacion |-> 0]

StatusLabel(p) == IF p.days_overdue = 0 THEN "al_dia" ELSE "en_mora"

\* The fixture stores no overdue installments and never ages.
FixtureProfile(d) ==
  [credit |-> Borrower[d].credit, next_due |-> Borrower[d].next_due,
   days_overdue |-> Borrower[d].days_overdue, cuotas_vencidas |-> 0,
   credit_state |-> "unset", amortizacion |-> 0]

\* mock_debt_source.resolve_dni
FixtureOf(d) == IF d \in DOMAIN Borrower THEN {FixtureProfile(d)} ELSE {}

\* The credits a document number is named on, in any role, each by its latest batch.
CreditsOf(d) == {r.credit : r \in {q \in Party : q.dni = d}}

-----------------------------------------------------------------------------
(* Resolution.  A tenant is [source, fallback]. *)

\* Mutant: the fixture is tried whenever the query has no answer.
_resolve_dni_credits_open(d, tenant, lake) ==
  IF lake.online THEN {_row_to_profile(c, lake) : c \in CreditsOf(d)} ELSE FixtureOf(d)

_resolve_dni_credits(d, tenant, lake) ==
  IF lake.online THEN {_row_to_profile(c, lake) : c \in CreditsOf(d)}
  ELSE IF tenant.fallback THEN FixtureOf(d) ELSE {}

\* debt_source.resolve_dni: the first row of a query without an order, any credit of the
\* person.
resolve_dni(d, tenant, lake) ==
  IF tenant.source = "mock" THEN FixtureOf(d) ELSE _resolve_dni_credits(d, tenant, lake)

\* resolve_token: the fixture says whose token it is and which credit to prefer.
resolve_token(t, tenant, lake) ==
  LET fixture == FixtureProfile(TokenDni[t])
      credits == resolve_dni(TokenDni[t], tenant, lake)
      preferred == {p \in credits : p.credit = fixture.credit}
  IN  IF preferred # {} THEN preferred
      ELSE IF credits # {} THEN credits
      ELSE IF tenant.fallback THEN {fixture} ELSE {}

\* Whether the calls that always go to Doris get an answer.
Answers(tenant, lake) == tenant.source = "doris" /\ lake.online

\* resolve_contrato: one answer for an unknown contract, a stranger and an outage.
resolve_contrato(c, d, tenant, lake) ==
  /\ Answers(tenant, lake)
  /\ \E r \in Party : r.credit = c /\ r.dni = d /\ r.role \in Authorized

\* get_cronograma: a live query; the empty schedule when it fails.
get_cronograma(c, tenant, lake) ==
  IF Answers(tenant, lake)
  THEN [n \in Installment(c) |-> IF n \in lake.paid[c] THEN "pagada" ELSE "pendiente"]
  ELSE <<>>

\* get_moratoria_fields: the first unpaid installment now, by number.
get_moratoria_fields(c, tenant, lake) ==
  IF Answers(tenant, lake) /\ Unpaid(c, lake) # {}
  THEN CHOOSE n \in Unpaid(c, lake) : \A m \in Unpaid(c, lake) : n <= m
  ELSE 0

-----------------------------------------------------------------------------
(* The credit state and the charges. *)

\* Mutant: the window counts the due date as a day ahead.
classify_credit_state_window(p, today) ==
  IF p.cuotas_vencidas >= 1 \/ p.days_overdue > 0 THEN "vencido"
  ELSE IF p.next_due - today \in 0..WindowDays THEN "por_vencer" ELSE "al_dia"

classify_credit_state(p, today) ==
  IF p.cuotas_vencidas >= 1 \/ p.days_overdue > 0 THEN "vencido"
  ELSE IF p.next_due - today \in 1..WindowDays THEN "por_vencer" ELSE "al_dia"

CeilDiv(a, b) == (a + b - 1) \div b

\* calcular_penalidad, in tenths: the week's rate, rounded up.  The product of two doubles
\* may exceed a round value by an ulp, and is then rounded up to the next tenth.
calcular_penalidad(capital, days) ==
  LET rate == IF CeilDiv(days, Week) <= 1 THEN Rate1 ELSE Rate2
      ulp == IF <<capital, rate>> \in RoundsUp THEN 1 ELSE 0
  IN  CeilDiv(capital * rate + ulp, Scale)

NoCharges == [penalidad |-> -1, interes |-> [of |-> 0, days |-> 0]]

\* The penalty and the installment and days the interest is computed from; -1 is None.
Charges(p) ==
  [penalidad |-> calcular_penalidad(Capital[p.credit], p.days_overdue),
   interes |-> IF p.amortizacion = 0 THEN NoCharges.interes
               ELSE [of |-> p.amortizacion, days |-> p.days_overdue]]

\* The keys the tool's answer has: none unless the profile is marked vencido.
consultar_deuda(p) ==
  [status |-> StatusLabel(p), cuotas_vencidas |-> p.cuotas_vencidas,
   charges |-> IF p.credit_state = "vencido" /\ p.days_overdue > 0 THEN Charges(p)
               ELSE NoCharges]

\* Mutant: the template charges by the state alone and forgets the due day.
build_variables_by_state(p) ==
  [status |-> StatusLabel(p), cuotas_vencidas |-> p.cuotas_vencidas,
   charges |-> IF p.credit_state = "vencido" THEN Charges(p) ELSE NoCharges]

\* build_variables: what a template of the same profile shows; it does not ask for the state.
build_variables(p) ==
  [status |-> StatusLabel(p), cuotas_vencidas |-> p.cuotas_vencidas,
   charges |-> IF p.days_overdue > 0 THEN Charges(p) ELSE NoCharges]

=============================================================================
