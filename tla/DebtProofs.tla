----------------------------- MODULE DebtProofs -----------------------------
(***************************************************************************)
(* What TLAPS proves of DebtView, for every number of credits,             *)
(* installments and days and every tenant: its invariants, from one        *)
(* inductive invariant that says where each figure of the profile comes    *)
(* from; and that the penalty never falls as days pass.                    *)
(***************************************************************************)
EXTENDS DebtView, FiniteSetTheorems, WellFoundedInduction, TLAPS

-----------------------------------------------------------------------------
(* Arithmetic. *)

LEMMA Steps ==
  ASSUME NEW d \in Nat, NEW x \in Int, NEW y \in Int, x >= y + 1
  PROVE  d * x >= d * y + d
BY SMTT(20)

LEMMA DivBounds ==
  ASSUME NEW d \in Nat \ {0}, NEW a \in Int
  PROVE  a \div d \in Int /\ d * (a \div d) <= a /\ a < d * (a \div d) + d
BY SMTT(20)

LEMMA DivMonotone ==
  ASSUME NEW d \in Nat \ {0}, NEW a \in Int, NEW b \in Int, a <= b
  PROVE  a \div d <= b \div d
<1> DEFINE x == a \div d
           y == b \div d
<1>1. x \in Int /\ y \in Int /\ d * x <= a /\ b < d * y + d
  BY DivBounds
<1> HIDE DEF x, y
<1>2. ASSUME x >= y + 1 PROVE FALSE
  <2>1. d * x >= d * y + d
    BY <1>1, <1>2, Steps
  <2>2. d * x \in Int /\ d * y \in Int
    BY <1>1
  <2> QED BY <2>1, <2>2, <1>1
<1>3. x <= y
  BY <1>1, <1>2
<1> QED BY <1>3 DEF x, y

USE DebtSourceAssumption, DebtViewAssumption

-----------------------------------------------------------------------------
(* The queries. *)

\* Every nonempty set of numbers has a least one.
LEMMA MinExists ==
  ASSUME NEW S \in SUBSET Nat, S # {}
  PROVE  \E n \in S : \A m \in S : n <= m
<1>1. PICK n \in S : \A m \in S : <<m, n>> \notin OpToRel(<, Nat)
  BY NatLessThanWellFounded, WFMin, Zenon
<1>2. \A m \in S : ~(m < n)
  BY <1>1, Zenon DEF OpToRel
<1> QED BY <1>2

\* A lake of the right type whose payments are of installments that exist.
GoodLake(L) == L \in Lake /\ \A c \in Credit : L.paid[c] \subseteq Installment(c)

\* The schedule is a set of numbers with dates that grow with them.
LEMMA Schedule ==
  ASSUME NEW c \in Credit
  PROVE  /\ Installment(c) \subseteq Nat /\ Installment(c) # {} /\ 0 \notin Installment(c)
         /\ \A n \in Installment(c) : Due[c][n] \in Nat
         /\ \A m, n \in Installment(c) : m <= n => Due[c][m] <= Due[c][n]
<1>1. Last[c] \in Nat \ {0}
  OBVIOUS
<1>2. \A n \in Installment(c) : n \in Nat \ {0}
  BY <1>1 DEF Installment
<1>3. 1 \in Installment(c)
  BY <1>1 DEF Installment
<1>4. \A n \in Installment(c) : Due[c][n] \in Nat
  OBVIOUS
<1>5. ASSUME NEW m \in Installment(c), NEW n \in Installment(c), m <= n
      PROVE  Due[c][m] <= Due[c][n]
  <2>1. CASE m = n
    BY <2>1, <1>4
  <2>2. CASE m < n
    <3>1. Due[c][m] < Due[c][n]
      BY <2>2
    <3> QED BY <3>1, <1>4
  <2>3. m \in Nat /\ n \in Nat /\ m <= n
    BY <1>2, <1>5
  <2>4. m = n \/ m < n
    BY <2>3
  <2> QED BY <2>1, <2>2, <2>4
<1> QED BY <1>2, <1>3, <1>4, <1>5

\* The row the profile query selects exists; among open installments it is the one due first.
LEMMA Selected ==
  ASSUME NEW c \in Credit, NEW L
  PROVE  /\ pagos_sel(c, L) \in Installment(c)
         /\ Unpaid(c, L) # {} =>
              /\ pagos_sel(c, L) \in Unpaid(c, L)
              /\ \A m \in Unpaid(c, L) : Due[c][pagos_sel(c, L)] <= Due[c][m]
<1> DEFINE rows == IF Unpaid(c, L) = {} THEN Installment(c) ELSE Unpaid(c, L)
<1>1. rows \in SUBSET Nat /\ rows # {} /\ rows \subseteq Installment(c)
  BY Schedule DEF Unpaid
<1>2. PICK n \in rows : \A m \in rows : n <= m
  BY <1>1, MinExists
<1>3. \A m \in rows : Due[c][n] <= Due[c][m]
  BY <1>1, <1>2, Schedule
<1>4. pagos_sel(c, L) = CHOOSE x \in rows : \A m \in rows : Due[c][x] <= Due[c][m]
  BY DEF pagos_sel
<1> HIDE DEF rows
<1>5. pagos_sel(c, L) \in rows /\ \A m \in rows : Due[c][pagos_sel(c, L)] <= Due[c][m]
  BY <1>3, <1>4
<1> QED BY <1>1, <1>5 DEF rows

\* The number of overdue installments is a number, and none exactly when there are none.
LEMMA Counted ==
  ASSUME NEW c \in Credit, NEW L
  PROVE  /\ Cardinality(Vencidas(c, L)) \in Nat
         /\ Cardinality(Vencidas(c, L)) > 0 <=> Vencidas(c, L) # {}
<1>1. Last[c] \in Int
  OBVIOUS
<1>2. IsFiniteSet(Installment(c))
  BY <1>1, FS_Interval DEF Installment
<1>3. Vencidas(c, L) \in SUBSET Installment(c)
  BY DEF Vencidas, Unpaid
<1>4. IsFiniteSet(Vencidas(c, L))
  BY <1>2, <1>3, FS_Subset
<1>5. Cardinality(Vencidas(c, L)) \in Nat
  BY <1>4, FS_CardinalityType
<1>6. Cardinality(Vencidas(c, L)) = 0 <=> Vencidas(c, L) = {}
  BY <1>4, FS_EmptySet
<1> QED BY <1>5, <1>6

\* A profile read from the lake is a profile.
LEMMA RowType ==
  ASSUME NEW c \in Credit, NEW L, L.today \in Nat
  PROVE  _row_to_profile(c, L) \in Profile
<1>1. Due[c][pagos_sel(c, L)] \in Nat
  BY Selected, Schedule
<1>2. DaysOverdue(c, L) \in Nat
  BY <1>1 DEF DaysOverdue
<1> QED BY <1>1, <1>2, Counted DEF _row_to_profile, Profile

LEMMA FixtureType ==
  ASSUME NEW d \in DOMAIN Borrower
  PROVE  FixtureProfile(d) \in Profile
BY DEF FixtureProfile, Profile

\* What an identification finds: a profile; in the lake, while it answers, that of a
\* credit of the person's own; otherwise the fixture's, where it is allowed.
LEMMA Resolved ==
  ASSUME NEW d \in Dni, tenant \in TenantConfig, lake.today \in Nat, lake.online \in BOOLEAN,
         NEW p \in resolve_dni(d, tenant, lake)
  PROVE  /\ p \in Profile
         /\ tenant.source = "doris" /\ lake.online =>
              /\ p = _row_to_profile(p.credit, lake)
              /\ \E r \in Party : r.credit = p.credit /\ r.dni = d
         /\ tenant.source = "doris" /\ ~lake.online => tenant.fallback
         /\ p.credit_state = "unset" /\ p.amortizacion = 0
<1>1. \A q \in FixtureOf(d) : /\ q \in Profile
                              /\ q.credit_state = "unset" /\ q.amortizacion = 0
  BY FixtureType DEF FixtureOf, FixtureProfile
<1>2. ASSUME NEW q \in {_row_to_profile(c, lake) : c \in CreditsOf(d)}
      PROVE  /\ q \in Profile
             /\ q = _row_to_profile(q.credit, lake)
             /\ \E r \in Party : r.credit = q.credit /\ r.dni = d
             /\ q.credit_state = "unset" /\ q.amortizacion = 0
  <2>1. PICK c \in CreditsOf(d) : q = _row_to_profile(c, lake)
    BY <1>2
  <2>2. PICK r \in Party : r.dni = d /\ r.credit = c
    BY DEF CreditsOf
  <2>3. c \in Credit
    BY <2>2
  <2>4. q.credit = c /\ q.credit_state = "unset" /\ q.amortizacion = 0
    BY <2>1 DEF _row_to_profile
  <2> QED BY <2>1, <2>2, <2>3, <2>4, RowType
<1>3. tenant.source \in {"mock", "doris"} /\ tenant.fallback \in BOOLEAN
  OBVIOUS
<1>4. CASE tenant.source = "mock"
  BY <1>1, <1>4 DEF resolve_dni
<1>5. CASE tenant.source # "mock" /\ lake.online
  <2>1. p \in {_row_to_profile(c, lake) : c \in CreditsOf(d)}
    BY <1>5 DEF resolve_dni, _resolve_dni_credits
  <2> QED BY <2>1, <1>2, <1>5
<1>6. CASE tenant.source # "mock" /\ ~lake.online
  <2>1. tenant.fallback /\ p \in FixtureOf(d)
    BY <1>6, <1>3 DEF resolve_dni, _resolve_dni_credits
  <2> QED BY <2>1, <1>1, <1>6
<1> QED BY <1>4, <1>5, <1>6

\* The same of a campaign token.
LEMMA TokenResolved ==
  ASSUME NEW t \in Token, tenant \in TenantConfig, lake.today \in Nat, lake.online \in BOOLEAN,
         NEW p \in resolve_token(t, tenant, lake)
  PROVE  \/ p \in resolve_dni(TokenDni[t], tenant, lake)
         \/ /\ p = FixtureProfile(TokenDni[t])
            /\ tenant.fallback
            /\ resolve_dni(TokenDni[t], tenant, lake) = {}
<1> DEFINE fixture == FixtureProfile(TokenDni[t])
           credits == resolve_dni(TokenDni[t], tenant, lake)
           preferred == {q \in credits : q.credit = fixture.credit}
<1>1. resolve_token(t, tenant, lake) =
        IF preferred # {} THEN preferred
        ELSE IF credits # {} THEN credits
        ELSE IF tenant.fallback THEN {fixture} ELSE {}
  BY DEF resolve_token
<1> HIDE DEF credits
<1> QED BY <1>1 DEF credits

\* What the moratoria query brings is an installment that is unpaid now.
LEMMA Moratoria ==
  ASSUME NEW c \in Credit, NEW T, NEW L
  PROVE  LET n == get_moratoria_fields(c, T, L)
         IN  n \in Nat /\ (n # 0 => n \in Unpaid(c, L))
<1> DEFINE n == get_moratoria_fields(c, T, L)
<1>1. Unpaid(c, L) \in SUBSET Nat
  BY Schedule DEF Unpaid
<1>2. CASE Answers(T, L) /\ Unpaid(c, L) # {}
  <2>1. \E k \in Unpaid(c, L) : \A m \in Unpaid(c, L) : k <= m
    BY <1>1, <1>2, MinExists
  <2>2. n = CHOOSE k \in Unpaid(c, L) : \A m \in Unpaid(c, L) : k <= m
    BY <1>2 DEF get_moratoria_fields
  <2>3. n \in Unpaid(c, L)
    BY <2>1, <2>2
  <2> QED BY <2>3, <1>1
<1>3. CASE ~(Answers(T, L) /\ Unpaid(c, L) # {})
  BY <1>3 DEF get_moratoria_fields
<1> QED BY <1>2, <1>3

\* What classification leaves alone, and what it sets.
LEMMA ClassifiedEffect ==
  ASSUME NEW p \in Profile
  PROVE  LET q == Classified(p)
         IN  /\ q \in Profile
             /\ q.credit = p.credit /\ q.next_due = p.next_due
             /\ q.days_overdue = p.days_overdue /\ q.cuotas_vencidas = p.cuotas_vencidas
             /\ q.credit_state = classify_credit_state(p, lake.today)
             /\ q.credit_state = classify_credit_state(q, lake.today)
             /\ q.credit_state \in CreditState
             /\ \/ q.amortizacion = p.amortizacion
                \/ q.amortizacion = get_moratoria_fields(p.credit, tenant, lake)
<1> DEFINE cs == classify_credit_state(p, lake.today)
           am == IF cs = "vencido" /\ p.amortizacion = 0
                 THEN get_moratoria_fields(p.credit, tenant, lake) ELSE p.amortizacion
           q == Classified(p)
<1>1. p.credit \in Credit /\ p.amortizacion \in Nat
  BY DEF Profile
<1>2. cs \in CreditState
  BY DEF classify_credit_state, CreditState
<1>3. am \in Nat
  BY <1>1, Moratoria
<1>4. q = [p EXCEPT !.credit_state = cs, !.amortizacion = am]
  BY DEF Classified
<1> HIDE DEF cs, am
<1>5. /\ q \in Profile
      /\ q.credit = p.credit /\ q.next_due = p.next_due
      /\ q.days_overdue = p.days_overdue /\ q.cuotas_vencidas = p.cuotas_vencidas
      /\ q.credit_state = cs /\ q.amortizacion = am
  BY <1>2, <1>3, <1>4 DEF Profile
<1>6. classify_credit_state(q, lake.today) = cs
  BY <1>5 DEF classify_credit_state, cs
<1> HIDE DEF q
<1> QED BY <1>2, <1>5, <1>6 DEF am, cs, q

\* In a classified profile days overdue mean vencido, so that a template and the panel agree.
LEMMA TextsAgree ==
  ASSUME NEW p \in Profile, p.credit_state = classify_credit_state(p, lake.today)
  PROVE  build_variables(p) = consultar_deuda(p)
<1>1. p.days_overdue > 0 => p.credit_state = "vencido"
  BY DEF classify_credit_state
<1> QED BY <1>1 DEF build_variables, consultar_deuda

\* A panel is a panel.
LEMMA PanelType ==
  ASSUME NEW p \in Profile
  PROVE  consultar_deuda(p) \in Panel
<1>1. /\ p.credit \in Credit /\ p.days_overdue \in Nat /\ p.amortizacion \in Nat
      /\ p.cuotas_vencidas \in Nat
  BY DEF Profile
<1> DEFINE pen == calcular_penalidad(Capital[p.credit], p.days_overdue)
<1>2. pen \in Int
  <2>1. Capital[p.credit] \in Nat
    BY <1>1
  <2>2. ASSUME NEW rate \in Nat, NEW ulp \in {0, 1}
        PROVE  CeilDiv(Capital[p.credit] * rate + ulp, Scale) \in Int
    <3>1. Capital[p.credit] * rate \in Int
      BY <2>1
    <3>2. \A k \in Int : CeilDiv(k, Scale) \in Int
      BY DEF CeilDiv
    <3> QED BY <3>1, <3>2
  <2> QED BY <2>2 DEF calcular_penalidad
<1> HIDE DEF pen
<1>3. Charges(p) \in [penalidad : Int, interes : [of : Nat, days : Nat]]
  BY <1>1, <1>2 DEF Charges, NoCharges, pen
<1>4. NoCharges \in [penalidad : Int, interes : [of : Nat, days : Nat]]
  BY DEF NoCharges
<1>5. StatusLabel(p) \in {"al_dia", "en_mora"}
  BY DEF StatusLabel
<1> HIDE DEF Charges
<1> QED BY <1>1, <1>3, <1>4, <1>5 DEF consultar_deuda, Panel

-----------------------------------------------------------------------------
(* The inductive invariant.  Each conjunct says where a figure comes from. *)

TypeCore ==
  /\ tenant \in TenantConfig
  /\ lake \in Lake
  /\ \A c \in Credit : lake.paid[c] \subseteq Installment(c)
  /\ profile \in Profile \cup {None}
  /\ state \in CreditState \cup {"unset"}
  /\ seen \in [lake : Lake, dni : Dni \cup {None}, classified : Nat, live : BOOLEAN]

\* A live profile still is the row that was read, on a credit of the person's own.
FromSeen ==
  profile # None /\ seen.live =>
    LET row == _row_to_profile(profile.credit, seen.lake)
    IN  /\ profile.next_due = row.next_due
        /\ profile.days_overdue = row.days_overdue
        /\ profile.cuotas_vencidas = row.cuotas_vencidas

\* Payments are never undone.
PaidStays == \A c \in Credit : seen.lake.paid[c] \subseteq lake.paid[c]

\* The amortization is of an installment that was unpaid when the profile was read.
AmortizationUnpaid ==
  profile # None /\ profile.amortizacion # 0 =>
    \/ profile.amortizacion \in Unpaid(profile.credit, seen.lake)
    \/ ~seen.live

\* The state is that of the last classification, in the session and in the profile.
StateKept ==
  profile # None /\ profile.credit_state # "unset" =>
    /\ state = profile.credit_state
    /\ profile.credit_state = classify_credit_state(profile, seen.classified)

IdentifiedInLake ==
  profile # None /\ tenant.source = "doris" /\ ~tenant.fallback =>
    /\ seen.lake.online
    /\ \E r \in Party : r.credit = profile.credit /\ r.dni = seen.dni

Core == TypeCore /\ FromSeen /\ PaidStays /\ AmortizationUnpaid /\ StateKept /\ IdentifiedInLake

ReplyOK ==
  /\ reply.kind \in {"model", "curated"} => reply.panel \in Panel
  /\ reply.kind = "curated" => reply.text = reply.panel

IInv == Core /\ ReplyOK

LEMMA Initially == Init => IInv
<1> SUFFICES ASSUME Init PROVE IInv
  OBVIOUS
<1>1. lake \in Lake
  BY DEF Init, Lake
<1>2. TypeCore
  BY <1>1 DEF Init, TypeCore
<1>3. profile = None /\ reply.kind = "none" /\ seen.lake = lake
  BY DEF Init, NoReply
<1> QED BY <1>2, <1>3 DEF IInv, Core, FromSeen, PaidStays, AmortizationUnpaid, StateKept,
                          IdentifiedInLake, ReplyOK

\* What happens outside the conversation.
LEMMA CoreOutside ==
  ASSUME Core, NextDay \/ (\E c \in Credit : \E n \in Installment(c) : Pay(c, n)) \/ Outage
  PROVE  Core' /\ reply' = reply
<1>1. UNCHANGED <<tenant, profile, state, reply, seen>>
  BY DEF NextDay, Pay, Outage, Outside
<1>2. /\ lake' \in Lake
      /\ \A c \in Credit : lake.paid[c] \subseteq lake'.paid[c] /\ lake'.paid[c] \subseteq Installment(c)
  <2>1. /\ lake \in Lake
        /\ \A c \in Credit : lake.paid[c] \subseteq Installment(c)
    BY DEF Core, TypeCore
  <2>2. CASE NextDay
    BY <2>1, <2>2 DEF NextDay, Lake
  <2>3. CASE Outage
    BY <2>1, <2>3 DEF Outage, Lake
  <2>4. ASSUME NEW c \in Credit, NEW n \in Installment(c), Pay(c, n)
        PROVE  <1>2!1 /\ <1>2!2
    <3>1. lake' = [lake EXCEPT !.paid[c] = @ \cup {n}]
      BY <2>4 DEF Pay
    <3> DEFINE paid == [lake.paid EXCEPT ![c] = @ \cup {n}]
    <3>2. paid \in [Credit -> SUBSET UNION {Installment(k) : k \in Credit}]
      BY <2>1 DEF Lake
    <3>3. lake' = [lake EXCEPT !.paid = paid]
      BY <3>1, <2>1 DEF Lake
    <3>4. lake' \in Lake /\ lake'.paid = paid
      BY <3>2, <3>3, <2>1 DEF Lake
    <3> QED BY <3>4, <2>1 DEF Lake
  <2> QED BY <2>2, <2>3, <2>4
<1>3. TypeCore'
  BY <1>1, <1>2 DEF Core, TypeCore
<1>4. PaidStays'
  BY <1>1, <1>2 DEF Core, PaidStays
<1>5. (FromSeen /\ AmortizationUnpaid /\ StateKept /\ IdentifiedInLake)'
  <2>1. FromSeen'
    BY <1>1 DEF Core, FromSeen
  <2>2. AmortizationUnpaid'
    BY <1>1 DEF Core, AmortizationUnpaid
  <2>3. StateKept'
    BY <1>1 DEF Core, StateKept
  <2>4. IdentifiedInLake'
    BY <1>1 DEF Core, IdentifiedInLake
  <2> QED BY <2>1, <2>2, <2>3, <2>4
<1> QED BY <1>1, <1>3, <1>4, <1>5 DEF Core

\* A turn that keeps the profile it starts with.
LEMMA CoreTurn ==
  ASSUME Core, NEW sticky \in BOOLEAN, Opens(profile, sticky),
         seen' = SeenAt(seen, profile, sticky)
  PROVE  Core'
<1>1. /\ tenant' = tenant /\ lake' = lake
      /\ profile' = Start(profile, sticky) /\ state' = StateOf(profile', sticky)
      /\ seen'.lake = seen.lake /\ seen'.dni = seen.dni /\ seen'.live = seen.live
  BY DEF Opens, SeenAt, Core, TypeCore
<1>2. CASE sticky \/ profile = None
  <2>1. profile' = profile /\ state' = state /\ seen' = seen
    BY <1>1, <1>2 DEF Start, StateOf, SeenAt, Core, TypeCore
  <2> QED BY <2>1, <1>1 DEF Core, TypeCore, FromSeen, PaidStays, AmortizationUnpaid, StateKept,
                            IdentifiedInLake
<1>3. CASE ~sticky /\ profile # None
  <2>1. profile \in Profile /\ lake.today \in Nat
    BY <1>3 DEF Core, TypeCore, Lake
  <2>2. profile' = Classified(profile)
    BY <1>1, <1>3 DEF Start
  <2>3. /\ profile' \in Profile /\ profile'.credit = profile.credit
        /\ profile'.next_due = profile.next_due /\ profile'.days_overdue = profile.days_overdue
        /\ profile'.cuotas_vencidas = profile.cuotas_vencidas
        /\ profile'.credit_state \in CreditState
        /\ profile'.credit_state = classify_credit_state(profile', lake.today)
        /\ \/ profile'.amortizacion = profile.amortizacion
           \/ profile'.amortizacion = get_moratoria_fields(profile.credit, tenant, lake)
    BY <2>1, <2>2, ClassifiedEffect
  <2>4. state' = profile'.credit_state
    BY <1>1, <1>3, <2>3 DEF StateOf
  <2>5. seen' = [seen EXCEPT !.classified = lake.today]
    BY <1>3 DEF SeenAt
  <2>6. TypeCore'
    BY <1>1, <2>1, <2>3, <2>4, <2>5 DEF Core, TypeCore
  <2>7. seen'.classified = lake.today
    BY <2>5 DEF Core, TypeCore
  <2>8. StateKept'
    BY <2>3, <2>4, <2>7 DEF StateKept
  <2>9. AmortizationUnpaid'
    <3>1. profile.credit \in Credit
      BY <2>1 DEF Profile
    <3>2. Unpaid(profile.credit, lake) \subseteq Unpaid(profile.credit, seen.lake)
      BY <3>1 DEF Core, PaidStays, Unpaid
    <3>3. LET n == get_moratoria_fields(profile.credit, tenant, lake)
          IN  n # 0 => n \in Unpaid(profile.credit, seen.lake)
      BY <3>1, <3>2, Moratoria
    <3>4. CASE profile'.amortizacion = profile.amortizacion
      BY <3>4, <1>1, <1>3, <2>3 DEF Core, AmortizationUnpaid, Unpaid
    <3>5. CASE profile'.amortizacion = get_moratoria_fields(profile.credit, tenant, lake)
      BY <3>5, <3>3, <1>1, <2>3 DEF AmortizationUnpaid, Unpaid
    <3> QED BY <2>3, <3>4, <3>5
  <2>10. (FromSeen /\ PaidStays /\ IdentifiedInLake)'
    <3>1. PaidStays'
      BY <1>1 DEF Core, PaidStays
    <3>2. FromSeen'
      BY <1>1, <1>3, <2>3 DEF Core, FromSeen
    <3>3. IdentifiedInLake'
      BY <1>1, <1>3, <2>3 DEF Core, IdentifiedInLake
    <3> QED BY <3>1, <3>2, <3>3
  <2> QED BY <2>6, <2>8, <2>9, <2>10 DEF Core
<1> QED BY <1>2, <1>3

\* What a new profile p for the document number d is.
Found(p, d) ==
  /\ p \in Profile /\ p.credit_state = "unset" /\ p.amortizacion = 0
  /\ tenant.source = "doris" /\ lake.online /\ CreditsOf(d) # {} =>
       /\ p = _row_to_profile(p.credit, lake)
       /\ \E r \in Party : r.credit = p.credit /\ r.dni = d
  /\ tenant.source = "doris" /\ ~(lake.online /\ CreditsOf(d) # {}) => tenant.fallback

LEMMA FoundByNumber ==
  ASSUME TypeCore, NEW d \in Dni, NEW p \in resolve_dni(d, tenant, lake)
  PROVE  Found(p, d)
<1>1. tenant \in TenantConfig /\ lake.today \in Nat /\ lake.online \in BOOLEAN
  BY DEF TypeCore, Lake
<1>2. tenant.source = "doris" /\ lake.online => CreditsOf(d) # {}
  BY DEF resolve_dni, _resolve_dni_credits
<1> QED BY <1>1, <1>2, Resolved DEF Found

LEMMA FoundByToken ==
  ASSUME TypeCore, NEW t \in Token, NEW p \in resolve_token(t, tenant, lake)
  PROVE  TokenDni[t] \in Dni /\ Found(p, TokenDni[t])
<1>1. tenant \in TenantConfig /\ lake.today \in Nat /\ lake.online \in BOOLEAN
  BY DEF TypeCore, Lake
<1>2. TokenDni[t] \in DOMAIN Borrower /\ TokenDni[t] \in Dni
  OBVIOUS
<1>3. CASE p \in resolve_dni(TokenDni[t], tenant, lake)
  BY <1>2, <1>3, FoundByNumber
<1>4. CASE /\ p = FixtureProfile(TokenDni[t])
           /\ tenant.fallback
           /\ resolve_dni(TokenDni[t], tenant, lake) = {}
  <2>1. p \in Profile /\ p.credit_state = "unset" /\ p.amortizacion = 0
    BY <1>2, <1>4, FixtureType DEF FixtureProfile
  <2>2. tenant.source = "doris" /\ lake.online => CreditsOf(TokenDni[t]) = {}
    BY <1>4 DEF resolve_dni, _resolve_dni_credits
  <2> QED BY <2>1, <2>2, <1>4 DEF Found
<1> QED BY <1>1, <1>2, <1>3, <1>4, TokenResolved

\* A turn that opens with a new profile, classified unless a sticky flow runs.
LEMMA CoreNewProfile ==
  ASSUME TypeCore, NEW d \in Dni, NEW p, Found(p, d), NEW sticky \in BOOLEAN,
         tenant' = tenant, lake' = lake,
         profile' = Start(p, sticky),
         state' \in CreditState \cup {"unset"}, ~sticky => state' = profile'.credit_state,
         Identifies(profile', d)
  PROVE  Core'
<1> DEFINE live == tenant.source = "doris" /\ lake.online /\ CreditsOf(d) # {}
<1>1. /\ seen' = [lake |-> lake, dni |-> d, classified |-> lake.today, live |-> live]
      /\ live \in BOOLEAN /\ lake \in Lake /\ lake.today \in Nat
  BY DEF Identifies, TypeCore, Lake
<1>2. p \in Profile /\ p # None /\ p.credit \in Credit
  BY DEF Found, Profile
<1>3. /\ profile' \in Profile /\ profile' # None /\ profile'.credit = p.credit
      /\ profile'.next_due = p.next_due /\ profile'.days_overdue = p.days_overdue
      /\ profile'.cuotas_vencidas = p.cuotas_vencidas
      /\ profile'.credit_state # "unset" =>
           state' = profile'.credit_state
           /\ profile'.credit_state = classify_credit_state(profile', lake.today)
      /\ \/ profile'.amortizacion = 0
         \/ profile'.amortizacion = get_moratoria_fields(p.credit, tenant, lake)
  <2>1. CASE sticky
    BY <2>1, <1>2 DEF Start, Found
  <2>2. CASE ~sticky
    <3>1. profile' = Classified(p)
      BY <2>2, <1>2 DEF Start
    <3>2. p.amortizacion = 0
      BY DEF Found
    <3>3. LET q == Classified(p)
          IN  /\ q \in Profile
              /\ q.credit = p.credit /\ q.next_due = p.next_due
              /\ q.days_overdue = p.days_overdue /\ q.cuotas_vencidas = p.cuotas_vencidas
              /\ q.credit_state = classify_credit_state(q, lake.today)
              /\ \/ q.amortizacion = p.amortizacion
                 \/ q.amortizacion = get_moratoria_fields(p.credit, tenant, lake)
      BY <1>2, ClassifiedEffect
    <3>4. profile' # None
      BY <3>1, <3>3
    <3> QED BY <3>1, <3>2, <3>3, <3>4, <2>2
  <2> QED BY <2>1, <2>2
<1> HIDE DEF live
<1>4. TypeCore'
  BY <1>1, <1>3 DEF TypeCore
<1>5. seen'.lake = lake /\ seen'.classified = lake.today /\ seen'.dni = d /\ seen'.live = live
  BY <1>1
<1>6. FromSeen'
  BY <1>3, <1>5 DEF FromSeen, Found, live
<1>7. PaidStays'
  BY <1>5 DEF PaidStays
<1>8. AmortizationUnpaid'
  <2>1. LET n == get_moratoria_fields(p.credit, tenant, lake)
        IN  n # 0 => n \in Unpaid(p.credit, lake)
    BY <1>2, Moratoria
  <2> QED BY <2>1, <1>3, <1>5 DEF AmortizationUnpaid
<1>9. StateKept'
  BY <1>3, <1>5 DEF StateKept
<1>10. IdentifiedInLake'
  <2>1. ~tenant.fallback /\ tenant.source = "doris" =>
          lake.online /\ \E r \in Party : r.credit = p.credit /\ r.dni = d
    BY DEF Found
  <2> QED BY <2>1, <1>3, <1>5 DEF IdentifiedInLake
<1> QED BY <1>4, <1>6, <1>7, <1>8, <1>9, <1>10 DEF Core

\* Identification by document number, found or not.
LEMMA CoreIdentify ==
  ASSUME Core, NEW d \in Dni, NEW sticky \in BOOLEAN, Identify(d, sticky)
  PROVE  Core' /\ ReplyOK'
<1>1. state' = StateOf(Start(profile, sticky), sticky) /\ tenant' = tenant /\ lake' = lake
  BY DEF Identify
<1>2. CASE /\ profile' = Start(profile, sticky)
           /\ seen' = SeenAt(seen, profile, sticky)
           /\ reply' = [kind |-> "not_found", dni |-> d]
  <2>1. Opens(profile, sticky)
    BY <1>1, <1>2 DEF Opens
  <2>2. Core'
    BY <2>1, <1>2, CoreTurn
  <2> QED BY <2>2, <1>2 DEF ReplyOK
<1>3. CASE /\ profile' \in resolve_dni(d, tenant, lake)
           /\ Identifies(profile', d)
           /\ reply' \in {[kind |-> "identified"],
                         [kind |-> "model", panel |-> consultar_deuda(profile')],
                         [kind |-> "wish", text |-> build_variables(profile')]}
  <2>1. TypeCore
    BY DEF Core
  <2>2. Found(profile', d)
    BY <1>3, <2>1, FoundByNumber
  <2>3. profile' \in Profile
    BY <2>2 DEF Found
  <2>4. profile' = Start(profile', TRUE)
    BY DEF Start
  <2>5. state' \in CreditState \cup {"unset"}
    <3>1. CASE sticky \/ profile = None
      BY <3>1, <1>1, <2>1 DEF StateOf, Start, TypeCore
    <3>2. CASE ~sticky /\ profile # None
      <4>1. profile \in Profile
        BY <3>2, <2>1 DEF TypeCore
      <4>2. LET q == Classified(profile) IN q \in Profile /\ q.credit_state \in CreditState
        BY <4>1, ClassifiedEffect
      <4>3. Start(profile, sticky) = Classified(profile)
        BY <3>2 DEF Start
      <4>4. Classified(profile) # None
        BY <4>2
      <4> QED BY <4>2, <4>3, <4>4, <3>2, <1>1 DEF StateOf
    <3> QED BY <3>1, <3>2
  <2>6. Core'
    BY <1>1, <1>3, <2>1, <2>2, <2>4, <2>5, CoreNewProfile
  <2>7. consultar_deuda(profile') \in Panel
    BY <2>3, PanelType
  <2> QED BY <2>6, <2>7, <1>3 DEF ReplyOK
<1> QED BY <1>2, <1>3 DEF Identify

\* What a reply about the debt may be, of a profile a turn has opened with.
LEMMA DebtReplyOK ==
  ASSUME NEW p, p \in Profile, NEW sticky \in BOOLEAN, NEW r \in DebtReplies(p, sticky),
         ~sticky => p.credit_state = classify_credit_state(p, lake.today)
  PROVE  /\ r.kind \in {"model", "curated"} /\ r.panel \in Panel
         /\ r.kind = "curated" => r.text = r.panel
<1>1. consultar_deuda(p) \in Panel
  BY PanelType
<1>2. ~sticky => build_variables(p) = consultar_deuda(p)
  BY TextsAgree
<1>3. \/ r = [kind |-> "model", panel |-> consultar_deuda(p)]
      \/ ~sticky /\ r = [kind |-> "curated", panel |-> consultar_deuda(p), text |-> build_variables(p)]
  BY DEF DebtReplies
<1> QED BY <1>1, <1>2, <1>3

\* What a turn opens with, when there is a profile.
LEMMA Started ==
  ASSUME NEW p \in Profile, NEW sticky \in BOOLEAN
  PROVE  /\ Start(p, sticky) \in Profile /\ Start(p, sticky) # None
         /\ ~sticky => LET q == Start(p, sticky)
                       IN  q.credit_state = classify_credit_state(q, lake.today)
                           /\ q.credit_state \in CreditState
<1>1. p # None
  OBVIOUS
<1>2. CASE sticky
  BY <1>1, <1>2 DEF Start
<1>3. CASE ~sticky
  <2>1. Start(p, sticky) = Classified(p)
    BY <1>1, <1>3 DEF Start
  <2>2. LET q == Classified(p)
        IN  /\ q \in Profile /\ q.credit_state = classify_credit_state(q, lake.today)
            /\ q.credit_state \in CreditState
    BY ClassifiedEffect
  <2> QED BY <2>1, <2>2
<1> QED BY <1>2, <1>3

LEMMA CoreToken ==
  ASSUME Core, NEW t \in Token, NEW sticky \in BOOLEAN, IdentifyByToken(t, sticky)
  PROVE  Core' /\ ReplyOK'
<1>1. CASE /\ reply' = [kind |-> "not_found", dni |-> TokenDni[t]]
           /\ UNCHANGED <<tenant, lake, profile, state, seen>>
  BY <1>1 DEF Core, TypeCore, FromSeen, PaidStays, AmortizationUnpaid, StateKept,
              IdentifiedInLake, ReplyOK
<1>2. ASSUME NEW p \in resolve_token(t, tenant, lake), Opens(p, sticky),
             Identifies(p, TokenDni[t]), reply' \in DebtReplies(profile', sticky)
      PROVE  Core' /\ ReplyOK'
  <2>1. TypeCore
    BY DEF Core
  <2>2. TokenDni[t] \in Dni /\ Found(p, TokenDni[t])
    BY <2>1, FoundByToken
  <2>3. p \in Profile
    BY <2>2 DEF Found
  <2>4. /\ profile' = Start(p, sticky) /\ state' = StateOf(profile', sticky)
        /\ tenant' = tenant /\ lake' = lake
    BY <1>2 DEF Opens
  <2>5. /\ profile' \in Profile /\ profile' # None
        /\ ~sticky => profile'.credit_state = classify_credit_state(profile', lake.today)
                      /\ profile'.credit_state \in CreditState
    BY <2>3, <2>4, Started
  <2>6. /\ state' \in CreditState \cup {"unset"}
        /\ ~sticky => state' = profile'.credit_state
    BY <2>1, <2>4, <2>5 DEF StateOf, TypeCore
  <2>7. Identifies(profile', TokenDni[t])
    BY <1>2 DEF Identifies
  <2>8. Core'
    BY <2>1, <2>2, <2>4, <2>6, <2>7, CoreNewProfile
  <2>9. reply'.kind \in {"model", "curated"} /\ reply'.panel \in Panel
        /\ (reply'.kind = "curated" => reply'.text = reply'.panel)
    BY <1>2, <2>5, DebtReplyOK
  <2> QED BY <2>8, <2>9 DEF ReplyOK
<1> QED BY <1>1, <1>2 DEF IdentifyByToken

LEMMA CoreAsk ==
  ASSUME Core, NEW sticky \in BOOLEAN,
         AskDebt(sticky) \/ AskSchedule(sticky) \/ (\E c \in Credit, d \in Dni : AskContract(c, d))
  PROVE  Core' /\ ReplyOK'
<1>1. CASE AskDebt(sticky)
  <2>1. profile \in Profile /\ profile' = Start(profile, sticky) /\ reply' \in DebtReplies(profile', sticky)
    BY <1>1 DEF AskDebt, Opens, Core, TypeCore
  <2>2. /\ profile' \in Profile
        /\ ~sticky => profile'.credit_state = classify_credit_state(profile', lake.today)
    BY <2>1, Started
  <2>3. reply'.kind \in {"model", "curated"} /\ reply'.panel \in Panel
        /\ (reply'.kind = "curated" => reply'.text = reply'.panel)
    BY <2>1, <2>2, DebtReplyOK
  <2>4. Core'
    BY <1>1, CoreTurn DEF AskDebt
  <2> QED BY <2>3, <2>4 DEF ReplyOK
<1>2. CASE AskSchedule(sticky)
  <2>1. Core'
    BY <1>2, CoreTurn DEF AskSchedule
  <2>2. reply'.kind = "schedule"
    BY <1>2 DEF AskSchedule
  <2> QED BY <2>1, <2>2 DEF ReplyOK
<1>3. ASSUME NEW c \in Credit, NEW d \in Dni, AskContract(c, d)
      PROVE  Core' /\ ReplyOK'
  <2>1. Opens(profile, FALSE) /\ seen' = SeenAt(seen, profile, FALSE)
    BY <1>3 DEF AskContract
  <2>2. Core'
    BY <2>1, CoreTurn
  <2>3. reply'.kind = "contract"
    BY <1>3 DEF AskContract
  <2> QED BY <2>2, <2>3 DEF ReplyOK
<1> QED BY <1>1, <1>2, <1>3

LEMMA Inductive == IInv /\ [Next]_vars => IInv'
<1> SUFFICES ASSUME IInv, [Next]_vars PROVE IInv'
  OBVIOUS
<1>1. Core /\ ReplyOK
  BY DEF IInv
<1>2. CASE UNCHANGED vars
  BY <1>1, <1>2 DEF vars, IInv, Core, TypeCore, FromSeen, PaidStays, AmortizationUnpaid, StateKept,
              IdentifiedInLake, ReplyOK
<1>3. CASE NextDay \/ (\E c \in Credit : \E n \in Installment(c) : Pay(c, n)) \/ Outage
  <2>1. Core' /\ reply' = reply
    BY <1>1, <1>3, CoreOutside
  <2> QED BY <2>1, <1>1 DEF IInv, ReplyOK
<1>4. ASSUME NEW sticky \in BOOLEAN, AskDebt(sticky) \/ AskSchedule(sticky)
      PROVE  IInv'
  BY <1>1, <1>4, CoreAsk DEF IInv
<1>5. ASSUME NEW sticky \in BOOLEAN, NEW d \in Dni, Identify(d, sticky)
      PROVE  IInv'
  BY <1>1, <1>5, CoreIdentify DEF IInv
<1>6. ASSUME NEW sticky \in BOOLEAN, NEW t \in Token, IdentifyByToken(t, sticky)
      PROVE  IInv'
  BY <1>1, <1>6, CoreToken DEF IInv
<1>7. CASE \E c \in Credit, d \in Dni : AskContract(c, d)
  <2>1. FALSE \in BOOLEAN
    OBVIOUS
  <2> QED BY <1>1, <1>7, <2>1, CoreAsk DEF IInv
<1> QED BY <1>2, <1>3, <1>4, <1>5, <1>6, <1>7 DEF Next

LEMMA Invariant == Spec => []IInv
<1>1. Init => IInv
  BY Initially
<1>2. IInv /\ [Next]_vars => IInv'
  BY Inductive
<1> QED BY <1>1, <1>2, PTL DEF Spec

-----------------------------------------------------------------------------
(* The theorems. *)

\* DebtView.TypeOK, for every catalogue of credits and people.
THEOREM TypeCorrect == Spec => []TypeOK
<1>1. IInv => TypeOK
  BY DEF IInv, Core, TypeCore, ReplyOK, TypeOK
<1> QED BY <1>1, Invariant, PTL

\* What an open credit's profile says of the lake it was read from.
LEMMA OpenFacts ==
  ASSUME IInv, OpenCredit
  PROVE  /\ profile \in Profile /\ profile.credit \in Credit /\ profile.next_due \in Nat
         /\ profile.days_overdue \in Nat /\ profile.cuotas_vencidas \in Nat
         /\ seen.lake.today \in Nat /\ seen.classified \in Nat
         /\ \A n \in Unpaid(profile.credit, seen.lake) : Due[profile.credit][n] \in Nat
         /\ \E n \in Unpaid(profile.credit, seen.lake) : profile.next_due = Due[profile.credit][n]
         /\ \A n \in Unpaid(profile.credit, seen.lake) : profile.next_due <= Due[profile.credit][n]
         /\ profile.cuotas_vencidas > 0 <=> profile.next_due <= seen.lake.today
         /\ profile.days_overdue > 0 <=> profile.next_due < seen.lake.today
<1> DEFINE c == profile.credit
           L == seen.lake
           sel == pagos_sel(c, L)
<1>1. /\ profile \in Profile /\ c \in Credit /\ L.today \in Nat /\ Unpaid(c, L) # {}
      /\ profile.next_due \in Nat /\ profile.days_overdue \in Nat
      /\ profile.cuotas_vencidas \in Nat /\ seen.classified \in Nat
  BY DEF IInv, Core, TypeCore, OpenCredit, Profile, Lake
<1>2. sel \in Unpaid(c, L) /\ \A m \in Unpaid(c, L) : Due[c][sel] <= Due[c][m]
  BY <1>1, Selected
<1>3. \A n \in Unpaid(c, L) : Due[c][n] \in Nat
  BY <1>1, Schedule DEF Unpaid
<1>4. /\ profile.next_due = Due[c][sel]
      /\ profile.cuotas_vencidas = Cardinality(Vencidas(c, L))
      /\ profile.days_overdue = DaysOverdue(c, L)
  BY DEF IInv, Core, FromSeen, OpenCredit, _row_to_profile
<1> HIDE DEF c, L, sel
<1>5. Vencidas(c, L) # {} <=> Due[c][sel] <= L.today
  BY <1>1, <1>2, <1>3 DEF Vencidas
<1>6. profile.cuotas_vencidas > 0 <=> profile.next_due <= L.today
  BY <1>1, <1>4, <1>5, Counted
<1>7. profile.days_overdue > 0 <=> profile.next_due < L.today
  BY <1>1, <1>2, <1>3, <1>4 DEF DaysOverdue, sel
<1> QED BY <1>1, <1>2, <1>3, <1>4, <1>6, <1>7 DEF c, L

\* DebtView.SnapshotSound: the row the profile query selects and the counts aggregated
\* beside it speak of the same installment, the oldest unpaid one.
THEOREM SnapshotIsSound == Spec => []SnapshotSound
<1>1. IInv => SnapshotSound
  <2> SUFFICES ASSUME IInv, OpenCredit PROVE SnapshotSound
    BY DEF SnapshotSound
  <2>1. /\ profile.next_due \in Nat /\ seen.lake.today \in Nat
        /\ profile.cuotas_vencidas > 0 <=> profile.next_due <= seen.lake.today
        /\ profile.days_overdue > 0 <=> profile.next_due < seen.lake.today
    BY OpenFacts
  <2>2. profile.days_overdue > 0 <=> profile.cuotas_vencidas > 0 /\ profile.next_due # seen.lake.today
    <3>1. \A d, t \in Nat : d < t <=> d <= t /\ d # t
      OBVIOUS
    <3>2. profile.next_due < seen.lake.today <=>
            profile.next_due <= seen.lake.today /\ profile.next_due # seen.lake.today
      BY <2>1, <3>1
    <3> QED BY <2>1, <3>2
  <2>3. /\ \E n \in Unpaid(profile.credit, seen.lake) : profile.next_due = Due[profile.credit][n]
        /\ \A n \in Unpaid(profile.credit, seen.lake) : profile.next_due <= Due[profile.credit][n]
    BY OpenFacts
  <2> QED BY <2>1, <2>2, <2>3 DEF SnapshotSound
<1> QED BY <1>1, Invariant, PTL

\* DebtView.StateOfSnapshot: the credit state is decided by the unpaid installments at
\* identification and by the day of the last classification, and by nothing else.
THEOREM StateIsOfSnapshot == Spec => []StateOfSnapshot
<1>1. IInv => StateOfSnapshot
  <2> SUFFICES ASSUME IInv, OpenCredit, profile.credit_state # "unset" PROVE StateOfSnapshot
    BY DEF StateOfSnapshot
  <2> DEFINE unpaid == {Due[profile.credit][n] : n \in Unpaid(profile.credit, seen.lake)}
             overdue == \E due \in unpaid : due <= seen.lake.today
             window == (seen.classified + 1)..(seen.classified + WindowDays)
             next == profile.next_due
  <2>1. /\ next \in unpaid /\ unpaid \subseteq Nat
        /\ \A due \in unpaid : next <= due
    BY OpenFacts
  <2>2. /\ next \in Nat /\ seen.lake.today \in Nat /\ seen.classified \in Nat
        /\ profile.days_overdue \in Nat /\ profile.cuotas_vencidas \in Nat
        /\ profile.cuotas_vencidas > 0 <=> next <= seen.lake.today
        /\ profile.days_overdue > 0 <=> next < seen.lake.today
    BY OpenFacts
  <2> HIDE DEF unpaid
  <2>3. overdue <=> next <= seen.lake.today
    BY <2>1, <2>2
  <2>4. /\ state = profile.credit_state
        /\ profile.credit_state = classify_credit_state(profile, seen.classified)
    BY DEF IInv, Core, StateKept, OpenCredit
  <2>5. (profile.cuotas_vencidas >= 1 \/ profile.days_overdue > 0) <=> overdue
    BY <2>2, <2>3
  <2>6. next - seen.classified \in 1..WindowDays <=> next \in window
    BY <2>2
  <2>7. next \in window <=> \E due \in unpaid : due \in window /\ \A other \in unpaid : due <= other
    <3>1. ASSUME NEW due \in unpaid, \A other \in unpaid : due <= other
          PROVE  due = next
      <4>1. due <= next /\ next <= due
        BY <2>1, <3>1
      <4>2. due \in Nat /\ next \in Nat
        BY <2>1, <2>2
      <4> QED BY <4>1, <4>2
    <3> QED BY <2>1, <3>1
  <2> HIDE DEF overdue, window, next
  <2>8. profile.credit_state = "vencido" <=> overdue
    BY <2>4, <2>5 DEF classify_credit_state
  <2>9. profile.credit_state = "por_vencer" <=> ~overdue /\ next \in window
    BY <2>4, <2>5, <2>6 DEF classify_credit_state, next
  <2> QED BY <2>4, <2>7, <2>8, <2>9 DEF StateOfSnapshot, overdue, window, unpaid
<1> QED BY <1>1, Invariant, PTL

\* DebtView.ChargesAgree: the two texts of a turn charge the same, and the interest is of
\* an installment that was open when the profile was read.
THEOREM ChargesAlwaysAgree == Spec => []ChargesAgree
<1>1. IInv => ChargesAgree
  <2> SUFFICES ASSUME IInv PROVE ChargesAgree
    OBVIOUS
  <2>1. reply.kind = "curated" => reply.text = reply.panel
    BY DEF IInv, ReplyOK
  <2>2. ASSUME OpenCredit, profile.amortizacion # 0
        PROVE  /\ profile.amortizacion \in Unpaid(profile.credit, seen.lake)
               /\ Due[profile.credit][profile.amortizacion] >= profile.next_due
    <3>1. profile.amortizacion \in Unpaid(profile.credit, seen.lake)
      BY <2>2 DEF IInv, Core, AmortizationUnpaid, OpenCredit
    <3>2. \A n \in Unpaid(profile.credit, seen.lake) :
            Due[profile.credit][n] \in Nat /\ profile.next_due <= Due[profile.credit][n]
      BY <2>2, OpenFacts
    <3>3. profile.next_due \in Nat
      BY <2>2, OpenFacts
    <3> QED BY <3>1, <3>2, <3>3
  <2> QED BY <2>1, <2>2 DEF ChargesAgree
<1> QED BY <1>1, Invariant, PTL

\* DebtView.FailClosed: without the fixture nobody is identified but by the lake, while it
\* answered and on a credit of their own.
THEOREM FailsClosed == Spec => []FailClosed
<1>1. IInv => FailClosed
  BY DEF IInv, Core, IdentifiedInLake, FailClosed
<1> QED BY <1>1, Invariant, PTL

-----------------------------------------------------------------------------
(* The penalty. *)

\* calcular_penalidad: another day overdue never lowers the penalty, neither within a week
\* nor where the rate of the first week gives way to that of the later ones, whatever the
\* rounding of the doubles adds.
THEOREM PenaltyNeverFalls ==
  ASSUME NEW capital \in Nat, NEW m \in Nat, NEW n \in Nat, m <= n
  PROVE  calcular_penalidad(capital, m) <= calcular_penalidad(capital, n)
<1> DEFINE rate(k) == IF CeilDiv(k, Week) <= 1 THEN Rate1 ELSE Rate2
           ulp(k) == IF <<capital, rate(k)>> \in RoundsUp THEN 1 ELSE 0
           exact(k) == capital * rate(k) + ulp(k)
<1>1. CeilDiv(m, Week) \in Int /\ CeilDiv(n, Week) \in Int /\ CeilDiv(m, Week) <= CeilDiv(n, Week)
  <2>1. m + Week - 1 \in Int /\ n + Week - 1 \in Int /\ m + Week - 1 <= n + Week - 1
    OBVIOUS
  <2> QED BY <2>1, DivBounds, DivMonotone DEF CeilDiv
<1>2. rate(m) \in Nat /\ rate(n) \in Nat /\ rate(m) <= rate(n)
  BY <1>1
<1>3. capital = 0 => ulp(m) = 0 /\ ulp(n) = 0
  OBVIOUS
<1>4. rate(m) = rate(n) => ulp(m) = ulp(n)
  OBVIOUS
<1>5. ulp(m) \in {0, 1} /\ ulp(n) \in {0, 1}
  OBVIOUS
<1> HIDE DEF rate, ulp
<1>6. capital * rate(m) \in Int /\ capital * rate(n) \in Int
  BY <1>2
<1>7. exact(m) <= exact(n)
  <2>1. CASE rate(m) = rate(n)
    BY <2>1, <1>4, <1>5, <1>6
  <2>2. CASE capital = 0
    BY <2>2, <1>2, <1>3
  <2>3. CASE capital # 0 /\ rate(m) # rate(n)
    <3>1. capital >= 1
      BY <2>3
    <3>2. rate(n) >= rate(m) + 1
      <4>1. rate(m) # rate(n)
        BY <2>3
      <4> QED BY <4>1, <1>2
    <3>3. capital * rate(n) >= capital * rate(m) + capital
      <4>1. \A x, y \in Int : x >= y + 1 => capital * x >= capital * y + capital
        BY Steps
      <4>2. rate(n) \in Int /\ rate(m) \in Int
        BY <1>2
      <4> QED BY <3>2, <4>1, <4>2
    <3> QED BY <3>1, <3>3, <1>5, <1>6
  <2> QED BY <2>1, <2>2, <2>3
<1>8. exact(m) \in Int /\ exact(n) \in Int
  BY <1>5, <1>6
<1> HIDE DEF exact
<1>9. /\ exact(m) + Scale - 1 \in Int /\ exact(n) + Scale - 1 \in Int
      /\ exact(m) + Scale - 1 <= exact(n) + Scale - 1
  BY <1>7, <1>8
<1>10. CeilDiv(exact(m), Scale) <= CeilDiv(exact(n), Scale)
  BY <1>9, DivMonotone DEF CeilDiv
<1> QED BY <1>10 DEF calcular_penalidad, exact, rate, ulp

=============================================================================
