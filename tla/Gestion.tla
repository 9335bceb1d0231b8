------------------------------ MODULE Gestion ------------------------------
(***************************************************************************)
(* Layer-3 gestion tracking: what happens to the Postgres snapshot table   *)
(* (gestiones), the journal (gestion_events) and the Doris copy when chat  *)
(* turns, their fire-and-forget hooks, commitment replies and the          *)
(* inactivity sweep run interleaved on one event loop.                     *)
(*                                                                         *)
(* A turn t runs its request part (resolve an intent, or register a        *)
(* commitment date) and then its hook, _emit_gestion.  Every `await` on    *)
(* the database is a step boundary: pc[t] names the next statement.        *)
(***************************************************************************)
EXTENDS GestionCatalog, Naturals, Sequences

CONSTANTS
  Conv,         \* conversation ids
  NoId,         \* the id "" that the commitment gate writes under
  Turn,         \* chat turns (bounds the number of turns of a behaviour)
  CommitIntent, \* the intents whose answer asks for a payment date
  ChainIntent,  \* the intents whose tool may end in that question (abono, identification)
  EscalatingIntent, \* the intents whose tool is escalate_to_human
  HandoffIntent,    \* derivar_asesor
  HookHasPool,  \* does api.wiring.store hold the connection pool?
  Overlap,      \* may turns, hooks and the sweep overlap in time?
  Faults        \* may database calls raise and the process restart?

ASSUME GestionAssumption ==
  /\ NoId \notin Conv
  /\ CommitIntent \subseteq Intent /\ ChainIntent \subseteq Intent
  /\ EscalatingIntent \subseteq Intent /\ HandoffIntent \in EscalatingIntent
  /\ None \notin Conv
  /\ HookHasPool \in BOOLEAN /\ Overlap \in BOOLEAN /\ Faults \in BOOLEAN

Key == Conv \cup {NoId}      \* primary keys of gestiones

VARIABLES
  row,         \* the gestiones table
  journal,     \* the gestion_events table, per conversation in event_id order
  doris,       \* the bot_gestiones rows loaded so far
  task,        \* the turns with their hooks
  datePending, \* session_state["compromiso_pago_pending_date"]
  sweep        \* the rows the sweep's UPDATE returned and still has to report

vars == <<row, journal, doris, task, datePending, sweep>>

-----------------------------------------------------------------------------
(* The tables. *)

Absent == [exists |-> FALSE, tenant |-> FALSE, outcome |-> None, reason |-> None,
           caps |-> {}, escalated |-> FALSE, commitment |-> None,
           closed |-> FALSE, stale |-> FALSE]

Row == [exists : BOOLEAN, tenant : BOOLEAN, outcome : Outcome \cup {None},
        reason : OutcomeReason \cup {None}, caps : SUBSET Capability,
        escalated : BOOLEAN, commitment : Conv \cup {None},
        closed : BOOLEAN, stale : BOOLEAN]

EventType == {"capability_used", "terminal", "commitment"}

Event == [type : EventType, cap : Capability \cup {None},
          outcome : Outcome \cup {None}, reason : OutcomeReason \cup {None},
          by : Conv \cup {None}]

Snapshot == [conv : Key, outcome : Outcome \cup {None}, reason : OutcomeReason \cup {None},
             caps : SUBSET Capability, escalated : BOOLEAN, closed : BOOLEAN]

Coalesce(a, b) == IF a # None THEN a ELSE b

append_gestion_event(k, e) == journal' = [journal EXCEPT ![k] = Append(@, e)]

\* Mutant: the statement's value wins, as it does for the other columns.
KeepFirst_last(old, new) == new

KeepFirst(old, new) == Coalesce(old, new)

\* The upsert statement.  `closed`, `outcome` and `reason` keep the stored value
\* when there is one, each on its own; the other columns take the given value
\* unless it is NULL.  `caps` is the merged list ({} when none is given).
upsert_gestion(k, f) ==
  row' = [row EXCEPT ![k] =
    [exists     |-> TRUE,
     tenant     |-> f.tenant \/ @.tenant,
     outcome    |-> KeepFirst(@.outcome, f.outcome),
     reason     |-> KeepFirst(@.reason, f.reason),
     caps       |-> IF f.caps = {} THEN @.caps ELSE f.caps,
     escalated  |-> f.escalated \/ @.escalated,
     commitment |-> Coalesce(f.commitment, @.commitment),
     closed     |-> @.closed \/ f.closed,
     stale      |-> FALSE]]

-----------------------------------------------------------------------------
(* The turns. *)

Idle == [pc |-> "idle", conv |-> None, intent |-> None, escalated |-> FALSE,
         closed |-> FALSE, caps |-> {}, registered |-> FALSE]

PC == {"idle", "commitUpsert", "commitEvent", "read", "capEvent", "terminal",
       "merge", "upsert", "snapshot", "done"}

Task == [pc : PC, conv : Conv \cup {None}, intent : Intent \cup {None},
         escalated : BOOLEAN, closed : BOOLEAN, caps : SUBSET Capability,
         registered : BOOLEAN]

InFlight(t) == task[t].pc \notin {"idle", "done"}

Quiet == \A t \in Turn : ~InFlight(t)

Unswept == [pc |-> "none", caps |-> {}]

SweepIdle == \A k \in Key : sweep[k].pc = "none"

Bind(t) == intent_binding(task[t].intent)

\* Nothing sets identity_gate_exhausted or max_dni_retries_reached in a session.
IdentityGateExhausted == FALSE

Terminal(t) ==
  IdentityGateExhausted \/ task[t].escalated \/ Bind(t).signal # None

Verdict(t) ==
  derive_outcome(Bind(t).signal, Bind(t).reason, task[t].escalated, IdentityGateExhausted)

Goto(t, pc) == task' = [task EXCEPT ![t].pc = pc]

Init ==
  /\ row = [k \in Key |-> Absent]
  /\ journal = [k \in Key |-> <<>>]
  /\ doris = {}
  /\ task = [t \in Turn |-> Idle]
  /\ datePending = [c \in Conv |-> FALSE]
  /\ sweep = [k \in Key |-> Unswept]

CanStart(t) == task[t].pc = "idle" /\ (Overlap \/ (Quiet /\ SweepIdle))

\* The turn is answered and its hook is scheduled with the resolved intent.
Answered(c, intent, escalated, registered) ==
  [pc |-> "read", conv |-> c, intent |-> intent, escalated |-> escalated,
   closed |-> FALSE, caps |-> {}, registered |-> registered]

Answer(t, c, intent, escalated, registered) ==
  task' = [task EXCEPT ![t] = Answered(c, intent, escalated, registered)]

\* A canned turn.  The escalate_to_human tool of an escalating intent may fail.
TurnCanned(t, c) ==
  /\ CanStart(t)
  /\ \E i \in Intent, escalated, asksDate \in BOOLEAN :
       /\ escalated => i \in EscalatingIntent
       /\ asksDate => i \in CommitIntent \cup ChainIntent
       /\ i \in CommitIntent => asksDate
       /\ Answer(t, c, i, escalated, FALSE)
       /\ datePending' = [datePending EXCEPT ![c] = @ \/ asksDate]
  /\ UNCHANGED <<row, journal, doris, sweep>>

\* A turn the language model answers: no intent; it may call escalate_to_human.
TurnGenerated(t, c) ==
  /\ CanStart(t)
  /\ \E escalated \in BOOLEAN : Answer(t, c, None, escalated, FALSE)
  /\ UNCHANGED <<row, journal, doris, datePending, sweep>>

\* The date gate with a date inside the window: register_commitment starts writing.
\* The pending flag is read here and cleared only after the writes.
TurnCommits(t, c) ==
  /\ CanStart(t)
  /\ datePending[c]
  /\ task' = [task EXCEPT ![t] = [Idle EXCEPT !.pc = "commitUpsert", !.conv = c]]
  /\ UNCHANGED <<row, journal, doris, datePending, sweep>>

\* Escalation answer of the date gate: derivar_asesor, whose tool may fail.
AnswerEscalating(t, c) ==
  /\ \E escalated \in BOOLEAN : Answer(t, c, HandoffIntent, escalated, FALSE)
  /\ datePending' = [datePending EXCEPT ![c] = FALSE]

\* The date gate with a date that does not parse, is past or beyond the window.
TurnRefusesDate(t, c) ==
  /\ CanStart(t)
  /\ datePending[c]
  /\ AnswerEscalating(t, c)
  /\ UNCHANGED <<row, journal, doris, sweep>>

CommitFields(t) ==
  [tenant |-> FALSE, outcome |-> "payment_commitment_registered", reason |-> None,
   caps |-> {}, escalated |-> FALSE, commitment |-> task[t].conv, closed |-> FALSE]

\* register_commitment, first write.  The gate takes the conversation id from an
\* attribute the tool registry does not have, so the row is the one keyed "".
CommitUpsert(t) ==
  /\ task[t].pc = "commitUpsert"
  /\ upsert_gestion(NoId, CommitFields(t))
  /\ Goto(t, "commitEvent")
  /\ UNCHANGED <<journal, doris, datePending, sweep>>

\* register_commitment, second write, and the confirmation, whose intent binds nothing.
CommitEvent(t) ==
  /\ task[t].pc = "commitEvent"
  /\ append_gestion_event(NoId,
       [type |-> "commitment", cap |-> None, outcome |-> None, reason |-> None,
        by |-> task[t].conv])
  /\ Answer(t, task[t].conv, None, FALSE, TRUE)
  /\ datePending' = [datePending EXCEPT ![task[t].conv] = FALSE]
  /\ UNCHANGED <<row, doris, sweep>>

\* Mutant: a database error is swallowed and the customer gets the confirmation.
CommitFails_confirms(t) ==
  /\ Faults
  /\ task[t].pc \in {"commitUpsert", "commitEvent"}
  /\ Answer(t, task[t].conv, None, FALSE, TRUE)
  /\ UNCHANGED <<row, journal, doris, datePending, sweep>>

\* Either write raises: reason "db_error", the customer is sent to an agent.
CommitFails(t) ==
  /\ Faults
  /\ task[t].pc \in {"commitUpsert", "commitEvent"}
  /\ AnswerEscalating(t, task[t].conv)
  /\ UNCHANGED <<row, journal, doris, sweep>>

-----------------------------------------------------------------------------
(* The hook: _emit_gestion. *)

AfterCapability(t, closed) ==
  IF Terminal(t) /\ ~closed THEN "terminal" ELSE "merge"

\* Mutant: the first-close-wins guard is dropped.
AlreadyClosed_ignored(r) == FALSE

AlreadyClosed(r) == r.closed

\* Mutant: the capability is appended without testing that the intent has one.
NewCaps_null(t, r) == r.caps \cup {Bind(t).capability}

NewCaps(t, r) == r.caps \cup ({Bind(t).capability} \ {None})

\* Mutant: a hook that finds the row closed skips the capability event.
AfterRead_skips_when_closed(t, closed) ==
  IF Bind(t).capability # None /\ ~closed THEN "capEvent" ELSE AfterCapability(t, closed)

AfterRead(t, closed) ==
  IF Bind(t).capability # None THEN "capEvent" ELSE AfterCapability(t, closed)

\* Without a pool the hook is a silent no-op.  With one, the first-close-wins guard
\* and the capabilities are read here, once.
HookReads(t) ==
  LET r == row[task[t].conv]
      known == [task EXCEPT ![t].closed = AlreadyClosed(r),
                            ![t].caps = NewCaps(t, r),
                            ![t].pc = AfterRead(t, AlreadyClosed(r))]
  IN
  /\ task[t].pc = "read"
  /\ task' = IF HookHasPool THEN known ELSE [task EXCEPT ![t].pc = "done"]
  /\ UNCHANGED <<row, journal, doris, datePending, sweep>>

HookJournalsCapability(t) ==
  /\ task[t].pc = "capEvent"
  /\ append_gestion_event(task[t].conv,
       [type |-> "capability_used", cap |-> Bind(t).capability, outcome |-> None,
        reason |-> None, by |-> None])
  /\ Goto(t, AfterCapability(t, task[t].closed))
  /\ UNCHANGED <<row, doris, datePending, sweep>>

HookJournalsTerminal(t) ==
  /\ task[t].pc = "terminal"
  /\ append_gestion_event(task[t].conv,
       [type |-> "terminal", cap |-> Bind(t).capability, outcome |-> Verdict(t).outcome,
        reason |-> Verdict(t).reason, by |-> None])
  /\ Goto(t, "merge")
  /\ UNCHANGED <<row, doris, datePending, sweep>>

\* upsert_gestion's own read: union the stored capabilities before the statement.
HookMergesCapabilities(t) ==
  /\ task[t].pc = "merge"
  /\ task' = [task EXCEPT ![t].pc = "upsert",
                          ![t].caps = IF @ = {} THEN {} ELSE @ \cup row[task[t].conv].caps]
  /\ UNCHANGED <<row, journal, doris, datePending, sweep>>

Closes(t) == Terminal(t) /\ ~task[t].closed

HookFields(t) ==
  [tenant |-> TRUE, outcome |-> IF Closes(t) THEN Verdict(t).outcome ELSE None,
   reason |-> IF Closes(t) THEN Verdict(t).reason ELSE None, caps |-> task[t].caps,
   escalated |-> task[t].escalated, commitment |-> None, closed |-> Closes(t)]

HookUpserts(t) ==
  /\ task[t].pc = "upsert"
  /\ upsert_gestion(task[t].conv, HookFields(t))
  /\ Goto(t, "snapshot")
  /\ UNCHANGED <<journal, doris, datePending, sweep>>

\* record_gestion never raises: the row is loaded or silently lost.
Replicate(s) == doris' = doris \cup {s} \/ (Faults /\ UNCHANGED doris)

HookSnapshot(t) ==
  LET f == HookFields(t) IN
  [conv |-> task[t].conv, caps |-> f.caps, outcome |-> f.outcome, reason |-> f.reason,
   escalated |-> f.escalated, closed |-> f.closed]

\* The Doris row is built from the fields given to the upsert, not from the table.
HookReplicates(t) ==
  /\ task[t].pc = "snapshot"
  /\ Replicate(HookSnapshot(t))
  /\ Goto(t, "done")
  /\ UNCHANGED <<row, journal, datePending, sweep>>

\* Mutant: a failed upsert is swallowed on the spot and the Doris row is still sent.
HookFails_sends_snapshot(t) ==
  /\ Faults
  /\ task[t].pc \in {"read", "capEvent", "terminal", "merge", "upsert"}
  /\ Goto(t, IF task[t].pc = "upsert" THEN "snapshot" ELSE "done")
  /\ UNCHANGED <<row, journal, doris, datePending, sweep>>

\* Mutant: a failed terminal event is swallowed on the spot and the row still closed.
HookFails_closes_anyway(t) ==
  /\ Faults
  /\ task[t].pc \in {"read", "capEvent", "terminal", "merge", "upsert"}
  /\ Goto(t, IF task[t].pc = "terminal" THEN "merge" ELSE "done")
  /\ UNCHANGED <<row, journal, doris, datePending, sweep>>

\* Any awaited statement raises: the hook is abandoned and the error swallowed.
HookFails(t) ==
  /\ Faults
  /\ task[t].pc \in {"read", "capEvent", "terminal", "merge", "upsert"}
  /\ Goto(t, "done")
  /\ UNCHANGED <<row, journal, doris, datePending, sweep>>

-----------------------------------------------------------------------------
(* The inactivity sweep, the passage of time and restarts. *)

\* A row's updated_at falls behind the tenant's TTL.
Expire(k) ==
  /\ row[k].exists /\ ~row[k].stale
  /\ row' = [row EXCEPT ![k].stale = TRUE]
  /\ UNCHANGED <<journal, doris, task, datePending, sweep>>

\* Mutant: the UPDATE loses its closed_at IS NULL condition.
Sweepable_closed_too(k) == row[k].exists /\ row[k].tenant /\ row[k].stale

\* Mutant: only conversations that used a capability are swept.
Sweepable_used_only(k) ==
  row[k].exists /\ ~row[k].closed /\ row[k].tenant /\ row[k].stale /\ row[k].caps # {}

Sweepable(k) == row[k].exists /\ ~row[k].closed /\ row[k].tenant /\ row[k].stale

\* One UPDATE closes every stale open row of the tenant, whatever its outcome was.
SweepUpdate ==
  LET S == {k \in Key : Sweepable(k)} IN
  /\ SweepIdle
  /\ S # {}
  /\ Overlap \/ Quiet
  /\ row' = [k \in Key |->
               IF k \in S THEN [row[k] EXCEPT !.outcome = "unresolved", !.closed = TRUE,
                                              !.stale = FALSE]
                          ELSE row[k]]
  /\ sweep' = [k \in Key |-> IF k \in S THEN [pc |-> "journal", caps |-> row[k].caps]
                                        ELSE Unswept]
  /\ UNCHANGED <<journal, doris, task, datePending>>

\* The returned rows are reported one after the other.
SweepTurn(k) == sweep[k].pc = "journal" /\ \A d \in Key : sweep[d].pc # "snapshot"

SweepJournals(k) ==
  /\ SweepTurn(k)
  /\ append_gestion_event(k, [type |-> "terminal", cap |-> None, outcome |-> "unresolved",
                              reason |-> None, by |-> None])
  /\ sweep' = [sweep EXCEPT ![k].pc = "snapshot"]
  /\ UNCHANGED <<row, doris, task, datePending>>

SweepReplicates(k) ==
  /\ sweep[k].pc = "snapshot"
  /\ Replicate([conv |-> k, caps |-> sweep[k].caps, outcome |-> "unresolved",
                reason |-> None, escalated |-> FALSE, closed |-> TRUE])
  /\ sweep' = [sweep EXCEPT ![k] = Unswept]
  /\ UNCHANGED <<row, journal, task, datePending>>

\* The journal write of one row raises: it is logged and the next row is processed.
SweepRowFails(k) ==
  /\ Faults
  /\ SweepTurn(k)
  /\ sweep' = [sweep EXCEPT ![k] = Unswept]
  /\ UNCHANGED <<row, journal, doris, task, datePending>>

\* The process restarts: running turns, the session flags and the sweep's list are
\* lost; nothing resumes them.
Restart ==
  /\ Faults
  /\ task' = [t \in Turn |-> IF InFlight(t) THEN [task[t] EXCEPT !.pc = "done"] ELSE task[t]]
  /\ datePending' = [c \in Conv |-> FALSE]
  /\ sweep' = [k \in Key |-> Unswept]
  /\ UNCHANGED <<row, journal, doris>>

-----------------------------------------------------------------------------

TurnStep(t, c) ==
  TurnCanned(t, c) \/ TurnGenerated(t, c) \/ TurnCommits(t, c) \/ TurnRefusesDate(t, c)

CommitStep(t) == CommitUpsert(t) \/ CommitEvent(t) \/ CommitFails(t)

HookStep(t) ==
  \/ HookReads(t) \/ HookJournalsCapability(t)
  \/ HookJournalsTerminal(t) \/ HookMergesCapabilities(t) \/ HookUpserts(t)
  \/ HookReplicates(t) \/ HookFails(t)

SweepStep(k) == SweepJournals(k) \/ SweepReplicates(k) \/ SweepRowFails(k)

Next ==
  \/ \E t \in Turn, c \in Conv : TurnStep(t, c)
  \/ \E t \in Turn : CommitStep(t)
  \/ \E t \in Turn : HookStep(t)
  \/ \E k \in Key : Expire(k)
  \/ SweepUpdate
  \/ \E k \in Key : SweepStep(k)
  \/ Restart

Spec == Init /\ [][Next]_vars

\* The event loop runs every started turn, hook and sweep row to its end; time passes;
\* start_sweep_loop runs for ever.  Faults are never obliged to happen.
Fairness ==
  /\ \A t \in Turn :
       /\ WF_vars(CommitUpsert(t) \/ CommitEvent(t))
       /\ WF_vars(HookReads(t) \/ HookJournalsCapability(t)
                  \/ HookJournalsTerminal(t) \/ HookMergesCapabilities(t)
                  \/ HookUpserts(t) \/ HookReplicates(t))
  /\ \A k \in Key : WF_vars(Expire(k)) /\ WF_vars(SweepJournals(k) \/ SweepReplicates(k))
  /\ WF_vars(SweepUpdate)

FairSpec == Spec /\ Fairness

-----------------------------------------------------------------------------
(* Properties. *)

Events == [k \in Key |-> {journal[k][i] : i \in 1..Len(journal[k])}]

TerminalJournalled(k, o) == \E e \in Events[k] : e.type = "terminal" /\ e.outcome = o

UseJournalled(k, x) == \E e \in Events[k] : e.type = "capability_used" /\ e.cap = x

Terminals(k) == {i \in DOMAIN journal[k] : journal[k][i].type = "terminal"}

OneTerminal(k, o, r) ==
  \E i \in Terminals(k) :
    Terminals(k) = {i} /\ journal[k][i].outcome = o /\ journal[k][i].reason = r

\* Every variable stays in its type.
TypeOK ==
  /\ row \in [Key -> Row]
  /\ journal \in [Key -> Seq(Event)]
  /\ doris \subseteq Snapshot
  /\ task \in [Turn -> Task]
  /\ datePending \in [Conv -> BOOLEAN]
  /\ sweep \in [Key -> [pc : {"none", "journal", "snapshot"}, caps : SUBSET Capability]]

\* A customer's conversation has a verdict exactly when it is closed, however hooks,
\* restarts and the sweep interleave (the one statement of _emit_gestion and of the
\* sweep that sets closed_at also sets outcome).
VerdictIffClosed ==
  \A c \in Conv : row[c].closed <=> row[c].outcome # None

\* The verdict of a closed conversation can be found in its journal, unless the
\* sweep closed it: _emit_gestion writes the terminal event before the snapshot, so
\* a failure or a restart between the two never leaves an unexplained close.
VerdictJournalled ==
  \A c \in Conv :
    row[c].closed => \/ row[c].outcome = "unresolved"
                     \/ TerminalJournalled(c, row[c].outcome)

\* Every capability in a snapshot has a capability_used event in the same journal,
\* although two hooks may merge capabilities over each other.
CapabilitiesJournalled ==
  \A k \in Key : \A x \in row[k].caps : UseJournalled(k, x)

\* Postgres is the source of truth: Doris never shows a conversation as closed, nor a
\* capability as used, that Postgres has not recorded.
DorisNeverAhead ==
  \A s \in doris :
    /\ s.closed => row[s.conv].closed
    /\ \A x \in s.caps : UseJournalled(s.conv, x)

\* A customer who was told the commitment is registered has a commitment event.
RegisteredIsJournalled ==
  \A t \in Turn :
    task[t].registered =>
      \E e \in Events[NoId] : e.type = "commitment" /\ e.by = task[t].conv

\* "First close wins": the snapshot table implements the life cycle in which each
\* conversation receives one verdict and keeps it.
Lifecycle == INSTANCE GestionLifecycle WITH
  Conversation <- Conv,
  FinalVerdict <- Outcome,
  Open <- None,
  verdict <- [c \in Conv |-> IF row[c].closed THEN row[c].outcome ELSE None]

FirstCloseWins == Lifecycle!Spec

\* With no turn, hook or sweep row under way, and none ever overlapping or failing, the
\* journal of a conversation rebuilds its snapshot (spec.md, scenario R2-d).
JournalReplays ==
  Quiet /\ SweepIdle =>
    \A c \in Conv :
      /\ row[c].caps = {e.cap : e \in {x \in Events[c] : x.type = "capability_used"}}
      /\ IF row[c].closed THEN OneTerminal(c, row[c].outcome, row[c].reason)
                          ELSE Terminals(c) = {}

\* Every conversation that has a snapshot is closed in the end (spec.md, R4 and R5).
EveryConversationCloses ==
  \A c \in Conv : row[c].exists ~> row[c].closed

\* A turn that ends a conversation leaves a terminal event in its journal: what api/wiring.py
\* says of its store ("lifespan replaces them with DB-backed instances") promises, and what
\* the code as deployed (HookHasPool = FALSE) does not do.
TerminalTurnRecorded ==
  \A t \in Turn, c \in Conv :
    (task[t].pc = "read" /\ task[t].conv = c /\ Terminal(t))
      ~> (\E e \in Events[c] : e.type = "terminal")

\* The facts about turns and sweep rows under way that make the invariants inductive:
\* what a hook is about to write was journalled before, and what it is about to
\* replicate was written before.
Told(t) ==
  LET c == task[t].conv IN
  /\ task[t].pc \in {"merge", "upsert"} /\ Closes(t) =>
       TerminalJournalled(c, Verdict(t).outcome)
  /\ task[t].pc \in {"terminal", "merge", "upsert", "snapshot"} =>
       \A x \in task[t].caps : UseJournalled(c, x)
  /\ task[t].pc = "capEvent" =>
       \A x \in task[t].caps : UseJournalled(c, x) \/ x = Bind(t).capability
  /\ task[t].pc = "snapshot" /\ Closes(t) => row[c].closed

HookTold == \A t \in Turn : Told(t)

SweepTold ==
  \A k \in Key : sweep[k].pc # "none" =>
    row[k].closed /\ \A x \in sweep[k].caps : UseJournalled(k, x)

\* persistence.py: capabilities_used is "accumulated (union, no duplicates)".
CapabilitiesAccumulate ==
  [][\A c \in Conv : row[c].caps \subseteq row'[c].caps]_vars

\* A registered commitment is on the snapshot of the conversation that made it.
CommitmentOnOwnRow ==
  \A t \in Turn : task[t].registered => row[task[t].conv].commitment = task[t].conv

=============================================================================
