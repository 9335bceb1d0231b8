# Verification of the collections chatbot service

TLA+ models, TLC runs and TLAPS proofs for the agent service in `src/apps/agent`:
a FastAPI process that talks to borrowers on the web and on WhatsApp, resolves who
they are, answers from curated responses or a language model, and records how each
conversation ended.

The process is one uvicorn worker with one event loop. Concurrency is therefore
interleaving at `await`: everything between two awaits is one step. Every module
below takes exactly those steps as its actions.

## 1. Inventory

| Component | State | Operations | Hard behaviour |
|---|---|---|---|
| Gestion tracking (`api/wiring.py`, `features/analytics/gestion_*.py`, `shared/persistence/persistence.py`, `features/cobranza/commitment.py`) | tables `gestiones` (snapshot) and `gestion_events` (journal), Doris copy | hook after each web turn, commitment registration, inactivity sweep | fire-and-forget hooks overlap; read-then-write over several statements; errors swallowed halfway; restarts |
| Rate limiting (`shared/rate_limit.py`, `api/middleware.py`) | time lists per address, block, daily cost, daily counters | check per chat message, upload and identification; cost accrual | windows pruned only on access; limits that shadow each other; check before the turn, accrual after it |
| Web chat turn and store (`api/routers/conversations.py`, `features/conversation/persistence`) | cached `ConversationState` objects, `conversations`, `visitors`, `debtors` tables | POST chat, GET messages | two loads of one conversation; whole-row saves; values read before an await and used after it |
| Curated router (`features/conversation/responses.py`, `agent.py`) | `session_state` flags | layers 0 to 2 of a reply, identity gate, date gate, voucher and credit-number dialogues | one dialogue's flag consumed by another over a sequence of turns |
| Tool registry (`api/tool_registry.py`) | identity of the turn | gated tools, identification | snapshot of the identity at the start of the turn |
| Vouchers (`features/comprobantes`, `api/routers/cobranza.py`) | JSON file, image files | registration from form, dialogue and photo | a file written back whole; failed and cut writes; duplicates by different keys |
| Debt rules (`features/cobranza/scenario.py`, `horario.py`, `shared/debt_math.py`) | none | classification, penalty, hours | three boundaries that must fit together; doubles |
| Collections tools (`features/cobranza/tools.py`) | claims file, certificates | claims, certificates, documents, schedules | folios over a file that may be lost; what an answer says arrived |
| Debt sources (`doris_debt_source.py`, `mock_debt_source.py`) | the lake, read only | profile, token, contract and schedule queries | a profile read once while days pass and payments arrive; outages; fail-closed |
| Messaging (`api/routers/chathub.py`, `webhooks.py`, `features/messaging`) | conversation store, visitors | inbound turns, outbound messages | redelivery, background tasks, a filter that looks at a history appended to later |
| Record capture (`record.py`, `hooks.py`) | collected fields | update, level | merge rules |
| Analytics, prompts, providers, tenancy, configuration, front end | none that decides anything | - | - |

Interaction. A web message passes the middleware window, the session and CSRF
checks, the address limits and the daily limit; the handler then loads or finds the
`ConversationState`, appends the message and saves, resolves a campaign token, builds
a tool registry with a copy of the identity, and calls the agent. The agent consults
the curated router and otherwise the language model, whose tool calls go through the
registry. The handler then accrues cost, schedules the analytics and the gestion hook
(both fire-and-forget), appends and saves the reply, counts the message and projects
the debtor. ChatHub and WhatsApp turns use the same store, registry and agent but
neither the address limits nor the gestion hook. The sweep runs beside all of it.

What makes each component correct:

- Gestion: one verdict per conversation, kept for ever; journal and snapshot agree;
  Doris never ahead of Postgres; every conversation closed in the end.
- Rate limiting: no stretch of time exceeds a limit; no more than the permitted
  number of distinct documents resolved per hour; blocks are not cut short.
- Chat turn: histories do not mix, a stored history only grows, the model sees exactly
  the earlier messages, the identity gate opens only on proof and stays open, daily
  limits hold.
- Curated router: the next message is read as the answer of the last question and of no
  other, a wish held back by the gate is answered after it, a sticky flow lets go, gated
  data only after identification, the customer sees the question that is awaited.
- Vouchers and claims: an image is registered once for a credit, no record is lost, what a
  call reports as received has its record; folios have no gap within a year.
- Debt: what a customer is told is what the lake said at identification, and the texts of
  one turn agree; where the settings do not allow the fixture nobody is identified who is
  not in the lake.
- Channels: one answer per delivery, none to what must be skipped or has not passed the
  leads filter, and every queued message is worked off to an answer that is handed over.

## 2. Plan

| Order | Module | Subject | Abstract specification | Status |
|---|---|---|---|---|
| 1 | `GestionCatalog`, `Gestion` | gestion tracking | `GestionLifecycle` (one verdict, kept) | modelled, checked, safety proved |
| 2 | `RateLimiter` | the middleware and the address limits | - (history properties) | modelled, checked, safety proved |
| 3 | `ChatTurn` | web turn, store, limits | `MessageLog` (a log that only grows) | modelled, checked, safety proved |
| 4 | `ResponseGuard`, `DialogueFlow` | curated router, identity and date gates, sticky flow, response guard | - (one open question at a time) | modelled, checked, safety proved |
| 5 | `DebtSource`, `DebtView` | debt queries and rules, what a conversation shows of them | - (the calendar and the lake at identification) | modelled, checked, safety proved |
| 6 | `Registers`, `Delivery` | vouchers, images, claims, documents sent | - (registers that only grow) | modelled, checked, safety proved |
| 7 | `Inbound` | Evolution webhook with its background task, ChatHub turns | - (one answer per delivery) | modelled, checked, safety proved |

Every safety property that a passing run checks, invariant, action property or refinement,
now has a theorem (section 10). The liveness properties are checked only. What is
left: properties of the delivery tools, of which only the refuted one is stated so far, and
strengthenings of the theorems that assume one turn at a time to what the code promises
between overlapping turns of different conversations.

## 3. Gestion tracking

`GestionCatalog` holds the pure part: the enumerations of
`gestion_catalog.py`, the intent bindings (a constant `Binding`) and
`derive_outcome`. `Gestion` is the state machine.

State. `row` is `gestiones` by primary key (`Conv` and the empty id, under which the
commitment gate writes); `journal` is `gestion_events` in `event_id` order; `doris` the
rows loaded so far; `task[t]` a turn with its hook, `pc` naming the next statement;
`datePending` the session flag of the date gate; `sweep` the rows the sweep's UPDATE
returned and has not reported. A row carries `stale`, which stands for
`updated_at` being behind the tenant's TTL, and `tenant`, whether a tenant id is set.

Actions. `TurnCanned`, `TurnGenerated`, `TurnCommits`, `TurnRefusesDate` are the
request part, reduced to the intent it resolves and whether it escalated.
`CommitUpsert`, `CommitEvent`, `CommitFails` are `register_commitment`. `HookReads`,
`HookJournalsCapability`, `HookJournalsTerminal`, `HookMergesCapabilities`,
`HookUpserts`, `HookReplicates`, `HookFails` are `_emit_gestion` statement by
statement, the read inside `upsert_gestion` being a step of its own. `Expire`,
`SweepUpdate`, `SweepJournals`, `SweepReplicates`, `SweepRowFails` are the sweep.
`Restart` loses everything in memory.

Constants select what a run asks: `HookHasPool` (is the store the hook holds
connected), `Overlap`, `Faults`. The bindings of the runs (`MCGestion`) are five
intents of the deployed tenant, one per shape of binding: a plain capability, a
hand-off, an escalating capability, a question for a payment date, an identification
without binding.

| Run | Instance | Shows |
|---|---|---|
| `gestion` | 2 conversations, 2 turns, overlap, faults | type invariant, `VerdictIffClosed`, `VerdictJournalled`, `CapabilitiesJournalled`, `DorisNeverAhead`, `RegisteredIsJournalled`, refinement of `GestionLifecycle` |
| `gestion_serial` | 1 conversation, 3 turns, no overlap, no faults, fairness | `JournalReplays`, `EveryConversationCloses` |
| `gestion_deployed` | the same with `HookHasPool = FALSE` | violated: `TerminalTurnRecorded`; an ending turn is never journalled |
| `gestion_commitment` | two turns | violated: a commitment is not on its conversation's row |

Two conversations show that keys do not mix; two overlapping turns are enough for
every race over one row, because a hook reads twice and writes once, and the sweep
is a third writer. The serial run has three turns so that a turn follows a closed
conversation's second one.

`HookHasPool = FALSE` is the program as deployed: `api/wiring.py` and `api/main.py`
each hold a `store`, startup replaces the second only, and the hook uses the first.
`gestion_deployed` is that program, and in it no web turn is ever recorded.
The other runs take the hook's store as connected, as its comments intend and its
tests patch it, because that is the code whose statements are worth checking.

Fairness (`gestion_serial`): weak fairness of every step of a started turn, hook and
sweep row, because the event loop resumes every ready coroutine; of `Expire`, because
time passes; of `SweepUpdate`, because `start_sweep_loop` never ends. No fault is ever
obliged to happen, and that run has none.

The refinement mapping takes a conversation's verdict to be its `outcome` once
`closed_at` is set. `GestionLifecycle` allows one step per conversation from open to a
verdict; the overlapping writers, which each apply `COALESCE`, implement it.

## 4. Rate limiting

`RateLimiter` models one address; the program keeps independent state per address and
runs each check under one lock without awaiting. `window` holds the three time lists of
the same shape, `attempts` and `dnis` the lists of `check_identification`, `served` and
`resolved` are history variables: what was let through. `limit` is chosen at the start
from `Config`, so one run covers settings with the limits in different orders and with
a limit of 0, which switches a check off together with its look at the block.

A request is two steps. The middleware counts it (`Admitted`) or refuses it
(`RefusedByMiddleware`); then the body is read, which takes as long as the client likes;
then the handler drops it for its session, CSRF token or body (`Dropped`), refuses it
(`RefusedBy`) or lets it through (`Chat`, `UploadMalformed`, `Upload`). `admitted` counts
the requests between the two. Requests of two minutes may therefore reach the handler
together, and its chat limit trips although the middleware's is smaller (10 against 12 by
default): the model can do this, and no property says otherwise.

Properties are stated on the histories, so that they do not depend on how the lists are
pruned: `WindowsHold`, `FewNumbersResolved`. `ShadowedLimits` is about identification
alone, where one call under one lock judges both limits: the attempts it counts are for
different numbers, so with the shipped defaults (5 distinct numbers, judged first, against 6
new identities) `ident_per_hour` never refuses.

| Run | Instance | Shows |
|---|---|---|
| `rate_limiter` | 3 documents, 4 requests in 5 ticks; a minute of 2 ticks, an hour of 4, a block of 2; 3 settings | `WindowsHold`, `FewNumbersResolved`, `ShadowedLimits`, `BlockHolds` |

A block expires while the numbers that caused it are still listed, which is the case the
defaults (15 minutes, 1 hour) have too. `MaxTime` and `MaxRequests` end a behaviour, hence
`CHECK_DEADLOCK FALSE`.

Not claimed: that a repeated number is never refused, as `check_identification` says: after a
block expires a repeat trips the sweep again (`RepeatNeverRefused`, section 11). Nor that
waiting `Retry-After` is enough. The code truncates to seconds, and a
refused identification is itself recorded.

## 5. The chat turn and the conversation store

`ChatTurn` follows POST `/api/v1/chat` from the cost check to the debtor projection, and
GET messages, which shares `get_or_create_async`. `object` holds the
`ConversationState` objects, named after the turn that created them, so that two loads
of one conversation are two objects; `cache` is the store's dictionary; `stored` the
history column; `task[t].payload` the copy a pending save will write. `visitor` is the
client's row with its message count, `spent` the cost bucket of its address. `proved` and
`tally` are history variables; `tally` has the replies given and the counts lost on the
database's date, and the cost charged on the UTC date.

Three calendars turn by steps of their own (`clock`): the check compares the row's date with
the server's (`date.today()`), the increment with the database's (`CURRENT_DATE`), and the
cost is kept by UTC date. `ServerAhead` says whether the server's date may run before the
database's; then the check takes the count of a date that is not over for an old one, and
more replies than the limit are given on it. The runs and the theorem exclude that
(`ServerAhead = FALSE`, which a server in the database's time zone meets); a server that is
behind is included.

| Run | Instance | Shows |
|---|---|---|
| `chat_overlap` | 2 conversations, 3 overlapping turns, failing reads, restarts | `HistoriesCoherent`, `GateNeedsProof` |
| `chat_serial` | 1 conversation, 3 turns one after the other, failing writes, restarts, 2 days | `PromptExact`, `LimitsHold`, `OneProjection`, `GateStaysOpen`, `StoredLogGrows` |

`LimitsHold` counts replies, not the program's counter: on no date more than the limit and
those whose count was lost, none being lost unless a write fails; and a cost of at most
one turn over the cap. An increment that fails, or finds no row, is logged and the reply
given all the same, which is why the second term is there.

The properties of `chat_serial` are those that fail once turns of one client overlap or
loads fail; the code has no lock that would prevent it, the browser widget's habit of
waiting for the reply does. `ChatTurnPrompt.cfg`, `ChatTurnLimit.cfg` and
`ChatTurnDebtors.cfg` show what two overlapping turns do to `PromptExact`, `LimitsHold` and
`OneProjection` (section 11); `chat_overlap` shows what survives. In it writes do not fail, to keep the instance small,
turns cost nothing and no day ends (`MaxDay = 0`), since none of its properties looks at
limits.

## 6. The curated dialogue

`DialogueFlow` is one conversation, a step being a whole turn: the browser waits for the
reply, and what overlapping turns do to the store is `ChatTurn`'s subject. It takes the
catalogue as a constant: `Script[i]` is the entry of intent `i` in `responses.json`
reduced to the flags the engine reads, and its text as a set of sentences.
`ResponseGuard` is `guard_response` on such sets, each sentence told apart by the fields
whose pattern it matches; `DialogueFlow` passes every reply through it.

State. `session` is `conv.session_state`: the sticky flow with its turns, the wish that
the gate keeps (`pending_intent`, which also marks a pending pre-question), the three
flags that say how the next message is read, and the count of failed contracts.
`collected` and `asked` are what the guard looks at; `reply` is the last reply, with the
intents whose template it renders, the tools that ran, and the sentences left.

Actions are the exits of `_try_canned` in their order: bypass, date, contract number,
DNI, pre-question, then the keyword router with its holiday and out-of-hours gates, the
classifier, and the language model. `Emit` is `_emit_intent` followed by
`_canned_result`: gate, ask again, answer, or identify. The choice of an exit depends on
the message only through a bare yes or no, an 8-digit number and the keyword match, so a
message is a record of these and of the contact data it tells.

| Run | Instance | Shows |
|---|---|---|
| `dialogue` | 18 intents, sticky flow of 2 turns, 2 failures | `WaitsForLastQuestion`, `OneQuestionAtATime` (a date only from identified customers included), `AccountDataNeedsIdentity`, `FlowReleased`, `WishAnswered` |
| `dialogue_question` | the same, customers telling their phone | violated: the DNI question is stripped from the message that asks it |

The catalogue of the runs has one entry of tenants/prestamype for every combination of
flags the engine tells apart; the sentences carry the fields that the guard's patterns
find in the Spanish text ("número" is one of the words for a phone). Caps of 2 instead
of 6 and 3 let a flow and the contract dialogue begin, continue and end. In `dialogue`
nobody tells a phone number, which only the guard would notice.

What the model made visible beside the violated property and `ToolBeforeReply`
(section 11): the answer "sí" to the
pre-question is remembered but starts no flow, because `comprobante_reportar` renders
empty, and "sí" is then routed like any message; a keyword reaches that flow without
the pre-question; a pre-question left unanswered still claims a later "no"; a wish for
the voucher flow held back by the gate has no canned answer and is dropped after
identification, which `WishAnswered` excepts; the profile that the contract dialogue
resolves is stored and never read; the holiday answers come before the identity gate,
which `AccountDataNeedsIdentity` excepts.

Not in the model: variants and their memory, chips, the credit selector and the
two-strike counter (nothing calls them), response mode `llm` (every turn is
`TurnGenerated`), a tool that raises, and the chaining of a partial payment, since no
shipped intent runs `validar_comprobante`.

## 7. The debt and what is told of it

`DebtSource` is the pure part: the profile query over a lake of installments
(`pagos_sel`, the aggregates beside it, `DaysOverdue`), resolution by document number,
token and contract with the fixture as a fallback, the schedule, the credit state, the
penalty and the two places that decide whether charges are shown, `consultar_deuda` and
`build_variables`. Days are numbers; penalties are tenths; the products of capital and
rate that a double represents above their exact value are a constant (`RoundsUp`).

`DebtView` is one conversation over it. `lake` changes outside it: a day passes, a payment
arrives (not always of the oldest installment), the database goes away and returns.
`profile` is `conv.debt_context`, read at identification and kept; `state` the credit
state in the session. `Start` is what a turn does before it is routed: derive the state
again and, in arrears, fetch the missing fields; a turn of a sticky flow goes past it.
`AskDebt`, `AskSchedule`, `AskContract`, `Identify` and `IdentifyByToken` are whole turns.
`seen` is a history variable: the lake at identification.

| Run | Instance | Shows |
|---|---|---|
| `debt` | 2 credits with 2 and 1 installments, 3 people, 5 days, the settings of a mock, a Doris and a mixed tenant | `SnapshotSound`, `StateOfSnapshot`, `ChargesAgree`, `FailClosed` |

`FailClosed` is the rule of `_resolve_dni_credits`: under settings that do not allow the
fixture, an outage identifies nobody, by number or by token. The module's own docstring and
that of `resolve_token` promise the opposite, the fixture on any error
(`FixtureWhenAway`). The settings decide in the code; `DebtFallback.cfg` shows the
disagreement (section 11).

Two installments are needed for a payment out of order, two credits for a person with a
choice between them, a window and a week of two days so that every band has an inside, a
boundary and an outside within five days. The fixture knows a shared credit under another
state, and a person who is not in the lake. All rules fit together at their boundaries,
although the due day counts as overdue for the number of installments and not for the
days; `DebtProofs` shows it for every lake.

## 8. The registers

`Registers` holds the JSON lists of vouchers and claims and the images stored beside the
vouchers. No handler awaits between reading a file and writing it back, so a step is a
whole call; the faults are those of the write itself: it may fail before it begins
(`AfterFailure`: the old file), be cut short (`CutFile`, read as an empty list ever after,
so that the next save discards what was in it), or the process may die before the answer.
`registrar_comprobante_foto`, `validar_comprobante` and `upload_comprobante` are the three
ways to a record, keyed by photo url, by nothing and by the image's hash.
`registrar_reclamo` numbers claims by `_next_folio`; `Redeploy` loses them, because they
are in `/tmp`, and keeps the vouchers, which are on a volume.

`Delivery` has the two sending tools as operators, with the services under them; their
answer carries what really left. They change no register, and `Deliver` offers every
answer they can give.

| Run | Instance | Shows |
|---|---|---|
| `registers` | 2 credits, 2 images, 1 url, 2 vouchers, 2 claims, 2 years | `AuditTrail`, `ClaimsInOrder` |

`AuditTrail` is about the register: what was registered stays as it was unless a write is cut,
an image or photo is there once for a credit, and what a call reports as received, a
duplicate included, has its record. It says nothing of the image files. They are named by
document and operation number, and a later upload under the same number replaces or cuts the
file that an earlier record was made from; the register's comment says that a repeated
number is flagged, and `RegistersNumber.cfg` shows that it is not (section 11).

Two records are enough for a duplicate and for a third call after it; two years and two
claims for a folio that starts again. One operation number makes the second upload
overwrite the first image. The amounts are nothing and one within 2% of a balance; the
weekdays a Friday and a Sunday.

Seen on the way, and not against anything the repository says: the tool path records an amount of zero as a partial payment; a photo with text
makes one record for the photo and one for what is typed; a redeploy starts the folios
again; `enviar_info` says "Listo" for WhatsApp even when the post failed.

## 9. The inbound channels

`Inbound` follows every delivery, on the Evolution webhook and on ChatHub, as a job. A
webhook event is filtered (`Ignored`), looked up in the address book (`ContactChecked`),
passed by the leads filter and handed to a background task, which checks the daily limit,
appends and saves the message, greets the visitor, runs the engine, appends and saves the
answer, counts and sends. A ChatHub turn is checked, opens its conversation, resolves its
token, may register a photo, runs the engine and answers in its response. Both use
`get_or_create_async`, whose read of the row is a step (`Load`) after which the new object
replaces whatever is cached. A redelivered event is one more job with the same event:
nothing compares message ids. `shown` is what reached a screen; a send that timed out may
have arrived, and nobody looks at its result.

| Run | Instance | Shows |
|---|---|---|
| `inbound` | 2 overlapping jobs, 3 numbers and a ChatHub conversation, 16 kinds of event, daily limit 1, faults, restarts | `OnlyDueAnswers`, `QueuedIsWorkedOff` |

`OnlyDueAnswers` has two halves: at most one answer per delivery and none to what the
webhook must skip (our own messages, groups, receipts, foreign instances, excluded
numbers); and behind the leads filter, nothing is given to the engine nor kept in the store
of a number that has not sent a trigger phrase. Two jobs are enough for every race the
handlers have over one conversation; the theorem covers any number.

Fairness: weak, of every job's steps together (`Work(j)`). The event loop resumes what is
ready; the language model's client and every Evolution call have time limits, and their
errors are caught where the step says so. The database has none: neither pool is created
with a limit for a statement or for a free connection, so a job may wait for it for ever
(`Hangs`, whose statement may have been executed or not). Nothing obliges a delivery to
arrive, a day to end, a process to stay up or the database to return, hence `lost` and
`hung` in `QueuedIsWorkedOff`: a background task dies with its process, or waits, though its
webhook has answered "queued". What the property promises is that otherwise the engine's
answer, or the text of the daily limit, is handed to Evolution or to ChatHub's response;
whether it is shown (`shown`) the service does not look at.

`OnlyDueAnswers` counts per delivery, so a redelivered event is answered twice without
violating it; the code does nothing against that, and nothing in the repository promises it.

## 10. What is proved

`GestionProofs` proves, for all conversations, turns, bindings and constants satisfying
`GestionAssumption` and `BindingAssumption` (no finiteness is needed):

| Theorem | States |
|---|---|
| `TypeCorrect` | `Spec => []TypeOK` |
| `VerdictIffClosedHolds` | a snapshot has a verdict iff it is closed |
| `VerdictJournalledHolds` | a verdict the sweep did not give is in the journal |
| `CapabilitiesJournalledHolds` | every capability of a snapshot has its event |
| `DorisNeverAheadHolds` | Doris shows nothing Postgres does not have |
| `RegisteredIsJournalledHolds` | a confirmed commitment has its event |
| `FirstCloseWinsHolds` | `Spec` implements `GestionLifecycle` |
| `JournalRebuilds` | with no overlap and no fault, the journal of a conversation at rest rebuilds its row |

The properties are not inductive by themselves. The inductive invariant `Inv` adds
`ConvKnown` (a started turn has a conversation), `HookTold` and `SweepTold`: whatever a
hook is about to write was journalled before, and whatever it or the sweep is about to
replicate was written before. The argument rests on three monotonicity facts, proved as
lemmas for every action: the journal only grows, `closed` and the verdict of a closed
row never change, and a row's capabilities only ever come from a hook's list. The proof
has one lemma per action and conjunct that the action can disturb; the refinement
follows from `Inv` and the same lemmas.

`JournalRebuilds` has the hypotheses `~Overlap` and `~Faults`; overlapping hooks can journal
two verdicts of which the row keeps one. Its invariant `SerialInv` says what holds between
two statements: one turn is under way or the sweep is, a hook past its events has the
journal ahead of the row by exactly what it will write (`Halfway`), the sweep has it behind
until it reports the row (`SweptOnly`), and every other row is level with its journal
(`Full`). TLC checked `SerialInv` on the instance of `gestion_serial` first. An open row
without a reason is part of it: only then is the reason the upsert keeps the event's.

`DialogueProofs` proves, for every catalogue satisfying `ScriptAssumption` (what the
shipped ones have in common) and every cap:

| Theorem | States |
|---|---|
| `GuardNeverSilences` | the guard only drops sentences, and never all of them |
| `GuardIdempotent` | a guarded message passes the guard unchanged |
| `TypeCorrect` | `Spec => []TypeOK` |
| `QuestionsAwaited` | the dialogue awaits the answer of its last question and of no other |
| `OneThingAwaited` | one question is open at a time, a date only from identified customers |
| `AccountDataGated` | account data is rendered to identified customers only, the holiday answers apart |
| `FlowIsReleased` | a sticky flow keeps the router out for no more turns in a row than the cap |
| `WishIsAnswered` | a wish held back by the gate is kept, replaced, or answered at identification |

`WaitsForLastQuestion` is not inductive: identification renders whatever wish it finds,
and only because every wish was held back by the gate (`WishGated`) is it never the
contract question, which nothing would then await. The proof rests on `RouterIdle`: past
the pending questions the router runs with nothing awaited and no flow on, whichever of
them let the turn through; each action then leaves exactly the wait its reply asks for
(`Leaves`). `AccountDataGated` needs no strengthening: every reply passes the gate or
checks the identity in the same turn, path by path. `FlowInv` relates the turns in a row
that skipped the router to the flow's own counter, which starts again whenever the flow is
armed. `WishIsAnswered` is an action property: each exit of a turn either leaves
`pending_intent` alone, sets it anew, or renders what it held.

`DebtProofs` proves, for every lake, calendar, set of parties, fixture, window and pair of
rates satisfying `DebtSourceAssumption` and `DebtViewAssumption`:

| Theorem | States |
|---|---|
| `TypeCorrect` | `Spec => []TypeOK` |
| `SnapshotIsSound` | the selected row and the counts beside it speak of the oldest unpaid installment |
| `StateIsOfSnapshot` | the credit state is the calendar's, for what was unpaid at identification |
| `ChargesAlwaysAgree` | template and panel agree, interest is never of a paid installment |
| `FailsClosed` | where the fixture is not allowed, whoever is identified was found in the lake while it answered, on a credit of their own |
| `PenaltyNeverFalls` | a later day never has a smaller penalty |

The first lemmas show that the `CHOOSE` of a query finds an earliest row, because a
finite set of naturals has one. The inductive part is that the profile is, up to the two
fields a turn may fill in, `_row_to_profile` of `seen.lake`, and that the paid sets only
grow from `seen.lake` to `lake`: hence the installment the interest is computed from, which
is fetched on a later turn, was unpaid at identification too. The credit state depends on
the day of the last classification, which `seen` records.

`InboundProofs` proves, for any number of deliveries, numbers and conversations satisfying
`InboundAssumption`:

| Theorem | States |
|---|---|
| `TypeCorrect` | `Spec => []TypeOK`, and whoever holds a conversation object holds one of its own customer |
| `OnlyDueAnswersLeave` | one answer per delivery, and only to what is due one |

Neither half is inductive. `JobShape` says which objects and events a job may have at each
of its steps, `ShownShape` that nothing is shown before the last steps, and `LeadsShape`
that a job past the filter, and a non-empty history of a filtered number in the store or in
any object, comes after a trigger phrase of that number. The proof has one lemma per
kind of step (`Load`, an opening, a plain move of one job), which most actions share.

`ChatTurnProofs` proves, for any number of conversations and turns, overlapping or not, with
failing reads and writes and restarts, from `ChatTurnAssumption`:

| Theorem | States |
|---|---|
| `TypeCorrect` | `Spec => []TypeOK`, and a cached object is one of its conversation |
| `HistoriesStayCoherent` | a history holds its own messages, each once, no reply before its message |
| `GateIsEarned` | the gate is open only where an identity was resolved since the process started |

`HistoriesCoherent` speaks of the objects and the rows, but a turn writes a row from the copy
it took before an `await`, so `Clean` is asked of those payloads too; and it adds that only
turns that have begun, or answered, are in a history: this is why what a turn appends is
new. `Shape` keeps the turn's own message in the object it works on, which makes the reply
follow it even when a reload has replaced that object in the cache. `GateNeedsProof` looks
at the cache and at prepared turns; `Gates` extends it to every object a turn still holds.
One lemma per kind of step (starting, saying something, verifying, reading, quiet ones)
is shared by the actions.

`ChatTurnSerialProofs` proves what holds for a client that waits for each answer, again for
any number of conversations and turns, with restarts and failing writes:

| Theorem | Hypotheses | States |
|---|---|---|
| `PromptIsExact` | `~Overlap` | the model is given what was said before the message, and nothing else |
| `ProjectedOnce` | `~Overlap` | one row in the debtors table at most |
| `GateKeptOpen` | `~Overlap` | an identified conversation stays so until a restart |
| `LimitsAreHeld` | `~Overlap`, `~ReadFaults`, `~ServerAhead`, `DailyLimit > 0` | replies on a date are no more than the limit and those whose count a failed write lost; cost is at most one turn over the cap |
| `StoredHistoriesGrow` | `~Overlap`, `~ReadFaults` | the stored histories implement `MessageLog` |

Each hypothesis is needed: without it TLC finds a counterexample (set the constant in
`ChatTurnSerial.cfg`; for `OneProjection` also `DailyLimit = 3`, without restarts). Overlap
breaks all five. A server whose date is ahead of the database's forgets a count of today. A failing read of the daily count lets the turn in, and a load that fails
is answered by a fresh object, whose history is then saved over the stored one. With a limit
of no message a visitor nobody knows is let in all the same, because the check looks at a
row that does not exist yet.

`SerialInv` says what a turn that is alone
can rely on (`Own`): its object is the cached one, its message is the last of that history,
its row is not yet inserted. `LimitInv` carries the result of the check to the count that
follows it, and says that the row and the cost bucket know of all that was replied and spent
on their dates, but for the counts that were lost; `StoredInv` says that what is in memory begins with what is stored, and that
every pending write is longer than the row it replaces, which makes the map to `MessageLog`
one append or a stutter.

`RateLimiterProofs` proves, for all limits, lengths of time, document numbers and any number
of requests satisfying `RateLimiterAssumption`:

| Theorem | States |
|---|---|
| `TypeCorrect` | `Spec => []TypeOK`, a refusal names a wait of at least a second |
| `WindowsCap` | no stretch of time of a window's length has more than its limit let through |
| `BlocksHold` | during a block nothing is resolved, no chat message passes, the block stands |
| `FewResolved` | no more than the permitted number of distinct documents resolved within an hour |
| `LimitsShadowed` | new-identity attempts of an hour are for different numbers, so their rate never trips behind a sweep limit not larger |

The lists of the program are related to the histories by `Tracks`: a list is the tail of
what was served, only expired entries are missing from it, and any `n + 1` successive
entries of the history span the window. `ResolvedKnown` does the same for the numbers, as
far as they are of the last hour, so that counting distinct numbers on the list counts those
of the history. `LimitsShadowed` needs that successive attempts within an hour were for
different numbers (`Known`: there is a naming of the attempts by numbers on the list that
repeats none within an hour), hence are no more than the distinct numbers counted before
them.

`RegistersProofs` proves, for any credits, images, photos and any number of vouchers, claims
and years satisfying `RegistersAssumption` (a year and a working day at least):

| Theorem | States |
|---|---|
| `TypeCorrect` | `Spec => []TypeOK` |
| `BookInOrder` | the folios of a year run from 1 without a gap, a deadline is the day on which the mandated working days have passed |
| `TrailKept` | `AuditTrail`: nothing registered is lost, changed or doubled but by a cut write, and what a call reports as received has its record |

The invariant keeps the vouchers of a whole file distinct by source, credit and key, a file
that was cut empty, the last answer backed by a record, and the sequence number of a claim
equal to the number of claims of its year up to it; the next folio continues that because
the claims before it are counted the same way. The deadline is a loop over days: the
recursive function exists because the day it lands on can be stated without recursion
(`LandsOn`: the first day by which enough working days have passed, found because one of
any three days in a row is a working day), and it is the only one because the least day at
which two such functions differ leads to a smaller one. That makes it possible without
induction over data.

Only model-checked, because liveness and ENABLED are out of the prover's reach:
`EveryConversationCloses` and `QueuedIsWorkedOff`. The properties
that the code does not keep (section 11) are refuted by TLC. The bodies of `classify_tipo`
and of the delivery tools are evaluated by TLC over the instance's values; the theorems
about `Registers` hold whatever they return.

## 11. Disagreements with the documentation

Three runs show a statement of a comment, a test or a document that the code does not keep:
`gestion_commitment`, `gestion_deployed` and `dialogue_question`. Further such statements
are stated in the modules and fail in the same way. To see a counterexample, run the
configuration given, or name the property alone in it where it is not one made for it:

| Property | Configuration | What the code does |
|---|---|---|
| `CapabilitiesAccumulate` | `GestionOverlap.cfg` | overlapping hooks drop a stored capability |
| `RepeatNeverRefused` | `RateLimiterRepeat.cfg` | after a block a repeated number starts the next one |
| `PromptExact` | `ChatTurnPrompt.cfg` | the prompt misses another message and holds the turn's own |
| `LimitsHold` | `ChatTurnLimit.cfg` | turns sent together all pass the daily limit |
| `OneProjection` | `ChatTurnDebtors.cfg` | two turns insert two rows for one conversation |
| `FixtureWhenAway` | `DebtFallback.cfg` | an error does not fall back to the fixture unless the settings allow it |
| `RepeatedNumberFlagged` | `RegistersNumber.cfg` | another image under a registered operation number is a second voucher |
| `NoFakeSuccess` | `RegistersDelivery.cfg` | a document that never left is reported as delivered |
| `ToolBeforeReply` | named in `DialogueQuestion.cfg` | a wish answered after identification is rendered without its tool |
| `StateStaysCurrent` | named in `DebtView.cfg` | a due date that passes in the conversation is not noticed |
| `NoArrearsWithoutOverdue` | named in `DebtView.cfg` | a settled credit is shown in arrears |
| `PenaltyIsLeastTenth` | named in `DebtView.cfg` | 1.20 is rounded up to 1.30 |
| `RespondsToTriggered` | named in `Inbound.cfg` with `Job = {j1, j2, j3}`, `Inbox <- Leads`, `Faults = FALSE` | a message admitted by a history that `/nuevo` then empties |

`PROJECT.json` quotes the statements with their lines.

## 12. Not modelled

The Doris copy of the journal (append-only, one row per event, never read back); rows
without a tenant beyond the sweep's condition; data columns without influence on a
decision (channel, timestamps, promised date); parsing of payment dates; the content
of messages; signatures and tokens; the amount of the interest and the business hours
(`horario.py`), pure functions without a rule to compare them with but their own; PDF and
mail bodies; buttons, lists and the ChatHub web publisher. Components without a module are listed in
`PROJECT.json` with the reason.
