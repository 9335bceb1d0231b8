--------------------------- MODULE GestionProofs ---------------------------
(***************************************************************************)
(* Proofs about Gestion for every set of conversations, turns, intents and *)
(* capabilities, with overlapping hooks, faults and restarts.              *)
(***************************************************************************)
EXTENDS Gestion, TLAPS

-----------------------------------------------------------------------------
(* The journal only grows. *)

\* Appending an event adds exactly that event to the set of journalled events.
LEMMA AppendAddsEvent ==
  ASSUME NEW s \in Seq(Event), NEW e \in Event
  PROVE  /\ Append(s, e) \in Seq(Event)
         /\ {Append(s, e)[i] : i \in 1..Len(Append(s, e))} = {s[i] : i \in 1..Len(s)} \cup {e}
<1>1. Append(s, e) \in Seq(Event) /\ Len(Append(s, e)) = Len(s) + 1 /\ Len(s) \in Nat
  OBVIOUS
<1>2. \A i \in 1..Len(s) : Append(s, e)[i] = s[i]
  OBVIOUS
<1>3. Append(s, e)[Len(s) + 1] = e
  OBVIOUS
<1>4. \A i \in 1..(Len(s) + 1) : i \in 1..Len(s) \/ i = Len(s) + 1
  BY <1>1
<1>5. (Len(s) + 1) \in 1..(Len(s) + 1) /\ \A i \in 1..Len(s) : i \in 1..(Len(s) + 1)
  BY <1>1
<1> QED
  BY <1>1, <1>2, <1>3, <1>4, <1>5

\* append_gestion_event keeps every journalled event and adds the given one.
LEMMA AppendEffect ==
  ASSUME TypeOK, NEW k \in Key, NEW e \in Event, append_gestion_event(k, e)
  PROVE  /\ journal' \in [Key -> Seq(Event)]
         /\ Events' = [Events EXCEPT ![k] = @ \cup {e}]
<1>1. journal \in [Key -> Seq(Event)] /\ journal[k] \in Seq(Event)
  BY DEF TypeOK
<1>2. journal' = [journal EXCEPT ![k] = Append(journal[k], e)]
  BY DEF append_gestion_event
<1>3. Append(journal[k], e) \in Seq(Event)
  BY <1>1, AppendAddsEvent
<1>4. journal'[k] = Append(journal[k], e) /\ \A j \in Key \ {k} : journal'[j] = journal[j]
  BY <1>1, <1>2
<1>5. Events'[k] = Events[k] \cup {e}
  <2>1. {journal'[k][i] : i \in 1..Len(journal'[k])}
          = {journal[k][i] : i \in 1..Len(journal[k])} \cup {e}
    BY <1>1, <1>4, AppendAddsEvent
  <2> QED BY <2>1 DEF Events
<1>6. \A j \in Key \ {k} : Events'[j] = Events[j]
  BY <1>4 DEF Events
<1>7. /\ Events = [j \in Key |-> Events[j]] /\ Events' = [j \in Key |-> Events'[j]]
  BY DEF Events
<1>8. Events' = [Events EXCEPT ![k] = Events[k] \cup {e}]
  BY <1>5, <1>6, <1>7
<1> QED
  BY <1>1, <1>2, <1>3, <1>8

-----------------------------------------------------------------------------
(* Verdicts and upserts. *)

\* The binding of any resolved intent, or of none, is well formed.
LEMMA BindingType ==
  ASSUME NEW i \in Intent \cup {None}
  PROVE  intent_binding(i) \in BindingRecord
BY BindingAssumption DEF intent_binding, BindingRecord

\* derive_outcome always returns a catalogued outcome, never None.
LEMMA VerdictType ==
  ASSUME NEW b \in BindingRecord, NEW escalated \in BOOLEAN, NEW failed \in BOOLEAN
  PROVE  LET v == derive_outcome(b.signal, b.reason, escalated, failed) IN
           /\ v.outcome \in Outcome
           /\ v.reason \in OutcomeReason \cup {None}
BY DEF derive_outcome, BindingRecord, Outcome, OutcomeReason

\* What _emit_gestion derives for a turn of the right type.
LEMMA TaskVerdict ==
  ASSUME TypeOK, NEW t \in Turn
  PROVE  /\ Bind(t) \in BindingRecord
         /\ Verdict(t).outcome \in Outcome
         /\ Verdict(t).reason \in OutcomeReason \cup {None}
<1>1. task[t].intent \in Intent \cup {None} /\ task[t].escalated \in BOOLEAN
  BY DEF TypeOK, Task
<1>2. Bind(t) \in BindingRecord
  BY <1>1, BindingType DEF Bind
<1>3. IdentityGateExhausted \in BOOLEAN
  BY DEF IdentityGateExhausted
<1> QED
  BY <1>1, <1>2, <1>3, VerdictType DEF Verdict

Fields ==
  [tenant : BOOLEAN, outcome : Outcome \cup {None}, reason : OutcomeReason \cup {None},
   caps : SUBSET Capability, escalated : BOOLEAN, commitment : Conv \cup {None},
   closed : BOOLEAN]

\* The upsert statement changes one row only and never reopens it, never replaces a
\* stored outcome, and stores the given outcome when there was none.
LEMMA UpsertEffect ==
  ASSUME TypeOK, NEW k \in Key, NEW f \in Fields, upsert_gestion(k, f)
  PROVE  /\ row' \in [Key -> Row]
         /\ \A j \in Key \ {k} : row'[j] = row[j]
         /\ row'[k].closed = (row[k].closed \/ f.closed)
         /\ row'[k].outcome = IF row[k].outcome # None THEN row[k].outcome ELSE f.outcome
         /\ row'[k].reason = IF row[k].reason # None THEN row[k].reason ELSE f.reason
         /\ row'[k].caps = IF f.caps = {} THEN row[k].caps ELSE f.caps
         /\ row'[k].commitment = IF f.commitment # None THEN f.commitment ELSE row[k].commitment
<1>1. row \in [Key -> Row] /\ row[k] \in Row
  BY DEF TypeOK
<1> DEFINE new == [exists |-> TRUE, tenant |-> f.tenant \/ row[k].tenant,
                   outcome |-> KeepFirst(row[k].outcome, f.outcome),
                   reason |-> KeepFirst(row[k].reason, f.reason),
                   caps |-> IF f.caps = {} THEN row[k].caps ELSE f.caps,
                   escalated |-> f.escalated \/ row[k].escalated,
                   commitment |-> Coalesce(f.commitment, row[k].commitment),
                   closed |-> row[k].closed \/ f.closed, stale |-> FALSE]
<1>2. row' = [row EXCEPT ![k] = new]
  BY DEF upsert_gestion
<1>3. new \in Row
  BY <1>1 DEF Row, Fields, KeepFirst, Coalesce
<1>4. row'[k] = new /\ row' \in [Key -> Row] /\ \A j \in Key \ {k} : row'[j] = row[j]
  BY <1>1, <1>2, <1>3
<1> QED
  BY <1>4 DEF KeepFirst, Coalesce

\* The fields given to the upsert by the hook and by register_commitment are well typed.
LEMMA FieldsType ==
  ASSUME TypeOK, NEW t \in Turn
  PROVE  HookFields(t) \in Fields /\ CommitFields(t) \in Fields /\ Closes(t) \in BOOLEAN
<1>1. task[t] \in Task
  BY DEF TypeOK
<1>2. Closes(t) \in BOOLEAN
  BY <1>1 DEF Closes, Terminal, Task, IdentityGateExhausted
<1>3. HookFields(t) \in Fields
  BY <1>1, <1>2, TaskVerdict DEF HookFields, Fields, Task
<1>4. CommitFields(t) \in Fields
  BY <1>1 DEF CommitFields, Fields, Task, Outcome
<1> QED
  BY <1>2, <1>3, <1>4

-----------------------------------------------------------------------------
(* Type correctness. *)

ConvKnown == \A t \in Turn : task[t].pc # "idle" => task[t].conv \in Conv

\* Giving one turn a record of the right type keeps the turns well typed.
LEMMA TaskUpdate ==
  ASSUME TypeOK, ConvKnown, NEW t \in Turn, NEW r \in Task, r.conv \in Conv,
         task' = [task EXCEPT ![t] = r]
  PROVE  /\ task' \in [Turn -> Task] /\ ConvKnown'
         /\ task'[t] = r /\ \A u \in Turn \ {t} : task'[u] = task[u]
<1>1. task \in [Turn -> Task]
  BY DEF TypeOK
<1>2. task'[t] = r /\ \A u \in Turn \ {t} : task'[u] = task[u]
  BY <1>1
<1> QED
  BY <1>1, <1>2 DEF ConvKnown

\* Answering a turn gives it the record its hook starts from.
LEMMA AnswerType ==
  ASSUME TypeOK, ConvKnown, NEW t \in Turn, NEW c \in Conv, NEW i \in Intent \cup {None},
         NEW escalated \in BOOLEAN, NEW registered \in BOOLEAN,
         Answer(t, c, i, escalated, registered)
  PROVE  /\ task' \in [Turn -> Task] /\ ConvKnown'
         /\ task'[t] = Answered(c, i, escalated, registered)
         /\ \A u \in Turn \ {t} : task'[u] = task[u]
<1>1. Answered(c, i, escalated, registered) \in Task
  BY DEF Answered, Task, PC
<1>3. task' = [task EXCEPT ![t] = Answered(c, i, escalated, registered)]
  BY DEF Answer
<1> QED
  BY <1>1, <1>3, TaskUpdate DEF Answered

\* The escalation answer of the date gate keeps the turns and the flags well typed.
LEMMA EscalatingType ==
  ASSUME TypeOK, ConvKnown, NEW t \in Turn, NEW c \in Conv, AnswerEscalating(t, c)
  PROVE  /\ task' \in [Turn -> Task] /\ ConvKnown' /\ datePending' \in [Conv -> BOOLEAN]
         /\ \E escalated \in BOOLEAN :
              task'[t] = Answered(c, HandoffIntent, escalated, FALSE)
         /\ \A u \in Turn \ {t} : task'[u] = task[u]
<1>1. PICK escalated \in BOOLEAN : Answer(t, c, HandoffIntent, escalated, FALSE)
  BY DEF AnswerEscalating
<1>2. HandoffIntent \in Intent
  BY GestionAssumption
<1>3. datePending' \in [Conv -> BOOLEAN]
  BY DEF AnswerEscalating, TypeOK
<1> QED
  BY <1>1, <1>2, <1>3, AnswerType

\* Moving a turn to another statement changes its pc and nothing else.
LEMMA GotoType ==
  ASSUME TypeOK, ConvKnown, NEW t \in Turn, NEW pc \in PC, task[t].pc # "idle", Goto(t, pc)
  PROVE  /\ task' \in [Turn -> Task] /\ ConvKnown'
         /\ task'[t] = [task[t] EXCEPT !.pc = pc]
         /\ \A u \in Turn \ {t} : task'[u] = task[u]
<1>1. task \in [Turn -> Task] /\ task[t] \in Task /\ task[t].conv \in Conv
  BY DEF TypeOK, ConvKnown
<1>2. task' = [task EXCEPT ![t] = [task[t] EXCEPT !.pc = pc]]
  BY DEF Goto
<1>3. [task[t] EXCEPT !.pc = pc] \in Task /\ [task[t] EXCEPT !.pc = pc].conv \in Conv
  BY <1>1 DEF Task
<1> QED
  BY <1>2, <1>3, TaskUpdate

\* A Doris snapshot is appended or lost.
LEMMA ReplicateType ==
  ASSUME TypeOK, NEW s \in Snapshot, Replicate(s)
  PROVE  doris' \subseteq Snapshot
BY DEF TypeOK, Replicate

\* The empty tables and idle turns are well typed.
LEMMA TypeInit == Init => TypeOK /\ ConvKnown
BY DEF Init, TypeOK, ConvKnown, Row, Absent, Task, PC, Idle, Unswept

\* Every statement of every turn, hook and sweep keeps the types.
LEMMA TypeStep == TypeOK /\ ConvKnown /\ [Next]_vars => TypeOK' /\ ConvKnown'
<1> SUFFICES ASSUME TypeOK, ConvKnown, [Next]_vars PROVE TypeOK' /\ ConvKnown'
  OBVIOUS
<1>1. ASSUME NEW t \in Turn, NEW c \in Conv, TurnStep(t, c) PROVE TypeOK' /\ ConvKnown'
  <2>1. CASE TurnCanned(t, c)
    <3>1. PICK i \in Intent, escalated \in BOOLEAN, asksDate \in BOOLEAN :
            /\ Answer(t, c, i, escalated, FALSE)
            /\ datePending' = [datePending EXCEPT ![c] = @ \/ asksDate]
      BY <2>1 DEF TurnCanned
    <3>2. task' \in [Turn -> Task] /\ ConvKnown'
      BY <3>1, AnswerType
    <3>3. datePending' \in [Conv -> BOOLEAN]
      BY <3>1 DEF TypeOK
    <3> QED BY <2>1, <3>2, <3>3 DEF TurnCanned, TypeOK
  <2>2. CASE TurnGenerated(t, c)
    <3>1. PICK escalated \in BOOLEAN : Answer(t, c, None, escalated, FALSE)
      BY <2>2 DEF TurnGenerated
    <3>2. task' \in [Turn -> Task] /\ ConvKnown'
      BY <3>1, AnswerType
    <3> QED BY <2>2, <3>2 DEF TurnGenerated, TypeOK
  <2>3. CASE TurnCommits(t, c)
    <3>1. [Idle EXCEPT !.pc = "commitUpsert", !.conv = c] \in Task
      BY DEF Idle, Task, PC
    <3>2. task' \in [Turn -> Task] /\ ConvKnown'
      BY <2>3, <3>1, TaskUpdate DEF TurnCommits, Idle
    <3> QED BY <2>3, <3>2 DEF TurnCommits, TypeOK
  <2>4. CASE TurnRefusesDate(t, c)
    BY <2>4, EscalatingType DEF TurnRefusesDate, TypeOK
  <2> QED BY <1>1, <2>1, <2>2, <2>3, <2>4 DEF TurnStep
<1>2. ASSUME NEW t \in Turn, CommitStep(t) PROVE TypeOK' /\ ConvKnown'
  <2>0. task[t].pc # "idle" /\ task[t].conv \in Conv
    BY <1>2 DEF CommitStep, CommitUpsert, CommitEvent, CommitFails, ConvKnown
  <2>1. CASE CommitUpsert(t)
    <3>1. row' \in [Key -> Row]
      BY <2>1, FieldsType, UpsertEffect DEF CommitUpsert, CommitFields, Key
    <3>2. task' \in [Turn -> Task] /\ ConvKnown'
      BY <2>0, <2>1, GotoType DEF CommitUpsert, PC
    <3> QED BY <2>1, <3>1, <3>2 DEF CommitUpsert, TypeOK
  <2>2. CASE CommitEvent(t)
    <3>1. journal' \in [Key -> Seq(Event)]
      <4>1. [type |-> "commitment", cap |-> None, outcome |-> None, reason |-> None,
             by |-> task[t].conv] \in Event
        BY <2>0 DEF Event, EventType
      <4> QED BY <2>2, <4>1, AppendEffect DEF CommitEvent, Key
    <3>2. task' \in [Turn -> Task] /\ ConvKnown'
      BY <2>0, <2>2, AnswerType DEF CommitEvent
    <3>3. datePending' \in [Conv -> BOOLEAN]
      BY <2>0, <2>2 DEF CommitEvent, TypeOK
    <3> QED BY <2>2, <3>1, <3>2, <3>3 DEF CommitEvent, TypeOK
  <2>3. CASE CommitFails(t)
    BY <2>0, <2>3, EscalatingType DEF CommitFails, TypeOK
  <2> QED BY <1>2, <2>1, <2>2, <2>3 DEF CommitStep
<1>3. ASSUME NEW t \in Turn, HookStep(t) PROVE TypeOK' /\ ConvKnown'
  <2>0. /\ task[t].pc # "idle" /\ task[t].conv \in Conv /\ task[t].conv \in Key
        /\ task[t] \in Task /\ Bind(t) \in BindingRecord
    BY <1>3, TaskVerdict
    DEF HookStep, HookReads, HookJournalsCapability, HookJournalsTerminal, ConvKnown, TypeOK,
        HookMergesCapabilities, HookUpserts, HookReplicates, HookFails, Key
  <2>1. CASE HookReads(t)
    <3>1. row[task[t].conv] \in Row
      BY <2>0 DEF TypeOK
    <3>2. /\ AlreadyClosed(row[task[t].conv]) \in BOOLEAN
          /\ NewCaps(t, row[task[t].conv]) \in SUBSET Capability
          /\ AfterRead(t, AlreadyClosed(row[task[t].conv])) \in PC
      BY <2>0, <3>1 DEF AlreadyClosed, NewCaps, AfterRead, AfterCapability, PC, Row, BindingRecord
    <3> QED
      BY <2>0, <2>1, <3>2 DEF HookReads, TypeOK, ConvKnown, Task, PC
  <2>2. CASE HookJournalsCapability(t)
    <3>1. journal' \in [Key -> Seq(Event)]
      <4>1. [type |-> "capability_used", cap |-> Bind(t).capability, outcome |-> None,
             reason |-> None, by |-> None] \in Event
        BY <2>0 DEF Event, EventType, BindingRecord
      <4> QED BY <2>0, <2>2, <4>1, AppendEffect DEF HookJournalsCapability
    <3>2. task' \in [Turn -> Task] /\ ConvKnown'
      BY <2>0, <2>2, GotoType DEF HookJournalsCapability, AfterCapability, PC
    <3> QED BY <2>2, <3>1, <3>2 DEF HookJournalsCapability, TypeOK
  <2>3. CASE HookJournalsTerminal(t)
    <3>1. journal' \in [Key -> Seq(Event)]
      <4>1. [type |-> "terminal", cap |-> Bind(t).capability, outcome |-> Verdict(t).outcome,
             reason |-> Verdict(t).reason, by |-> None] \in Event
        BY <2>0, TaskVerdict DEF Event, EventType, BindingRecord
      <4> QED BY <2>0, <2>3, <4>1, AppendEffect DEF HookJournalsTerminal
    <3>2. task' \in [Turn -> Task] /\ ConvKnown'
      BY <2>0, <2>3, GotoType DEF HookJournalsTerminal, PC
    <3> QED BY <2>3, <3>1, <3>2 DEF HookJournalsTerminal, TypeOK
  <2>4. CASE HookMergesCapabilities(t)
    <3>1. row[task[t].conv].caps \in SUBSET Capability
      BY <2>0 DEF TypeOK, Row
    <3> QED
      BY <2>0, <2>4, <3>1 DEF HookMergesCapabilities, TypeOK, ConvKnown, Task, PC
  <2>5. CASE HookUpserts(t)
    <3>1. row' \in [Key -> Row]
      BY <2>0, <2>5, FieldsType, UpsertEffect DEF HookUpserts, HookFields
    <3>2. task' \in [Turn -> Task] /\ ConvKnown'
      BY <2>0, <2>5, GotoType DEF HookUpserts, PC
    <3> QED BY <2>5, <3>1, <3>2 DEF HookUpserts, TypeOK
  <2>6. CASE HookReplicates(t)
    <3>1. doris' \subseteq Snapshot
      <4>1. HookSnapshot(t) \in Snapshot
        BY <2>0, FieldsType DEF HookSnapshot, Snapshot, Fields
      <4>2. Replicate(HookSnapshot(t))
        BY <2>6 DEF HookReplicates
      <4> QED BY <4>1, <4>2, ReplicateType
    <3>2. task' \in [Turn -> Task] /\ ConvKnown'
      BY <2>0, <2>6, GotoType DEF HookReplicates, PC
    <3> QED BY <2>6, <3>1, <3>2 DEF HookReplicates, TypeOK
  <2>7. CASE HookFails(t)
    <3>1. task' \in [Turn -> Task] /\ ConvKnown'
      BY <2>0, <2>7, GotoType DEF HookFails, PC
    <3> QED BY <2>7, <3>1 DEF HookFails, TypeOK
  <2> QED
    BY <1>3, <2>1, <2>2, <2>3, <2>4, <2>5, <2>6, <2>7 DEF HookStep
<1>4. ASSUME NEW k \in Key, Expire(k) PROVE TypeOK' /\ ConvKnown'
  <2>1. row \in [Key -> Row] /\ [row[k] EXCEPT !.stale = TRUE] \in Row
    <3>1. row \in [Key -> Row] /\ row[k] \in Row
      BY DEF TypeOK
    <3>2. \A r \in Row, b \in BOOLEAN : [r EXCEPT !.stale = b] \in Row
      BY DEF Row
    <3> QED BY <3>1, <3>2
  <2>2. row' = [row EXCEPT ![k] = [row[k] EXCEPT !.stale = TRUE]]
    BY <1>4 DEF Expire
  <2>3. row' \in [Key -> Row]
    BY <2>1, <2>2
  <2> QED BY <1>4, <2>3 DEF Expire, TypeOK, ConvKnown
<1>5. CASE SweepUpdate
  <2>1. row' \in [Key -> Row]
    <3>1. \A k \in Key :
            /\ row[k] \in Row
            /\ [row[k] EXCEPT !.outcome = "unresolved", !.closed = TRUE, !.stale = FALSE] \in Row
      <4>1. \A r \in Row, o \in Outcome, b, d \in BOOLEAN :
              [r EXCEPT !.outcome = o, !.closed = b, !.stale = d] \in Row
        BY DEF Row
      <4>2. "unresolved" \in Outcome /\ \A k \in Key : row[k] \in Row
        BY DEF Outcome, TypeOK
      <4> QED BY <4>1, <4>2
    <3> QED BY <1>5, <3>1 DEF SweepUpdate
  <2>2. sweep' \in [Key -> [pc : {"none", "journal", "snapshot"}, caps : SUBSET Capability]]
    BY <1>5 DEF SweepUpdate, TypeOK, Row, Unswept
  <2> QED BY <1>5, <2>1, <2>2 DEF SweepUpdate, TypeOK, ConvKnown
<1>6. ASSUME NEW k \in Key, SweepStep(k) PROVE TypeOK' /\ ConvKnown'
  <2>1. CASE SweepJournals(k)
    <3>1. [type |-> "terminal", cap |-> None, outcome |-> "unresolved",
           reason |-> None, by |-> None] \in Event
      BY DEF Event, EventType, Outcome
    <3>2. journal' \in [Key -> Seq(Event)]
      BY <2>1, <3>1, AppendEffect DEF SweepJournals
    <3> QED BY <2>1, <3>2 DEF SweepJournals, TypeOK, ConvKnown
  <2>2. CASE SweepReplicates(k)
    <3> DEFINE s == [conv |-> k, caps |-> sweep[k].caps, outcome |-> "unresolved",
                     reason |-> None, escalated |-> FALSE, closed |-> TRUE]
    <3>1. s \in Snapshot
      BY DEF Snapshot, TypeOK, Outcome
    <3>2. Replicate(s)
      BY <2>2 DEF SweepReplicates
    <3>3. doris' \subseteq Snapshot
      BY <3>1, <3>2, ReplicateType
    <3> QED BY <2>2, <3>3 DEF SweepReplicates, TypeOK, ConvKnown, Unswept
  <2>3. CASE SweepRowFails(k)
    BY <2>3 DEF SweepRowFails, TypeOK, ConvKnown, Unswept
  <2> QED BY <1>6, <2>1, <2>2, <2>3 DEF SweepStep
<1>7. CASE Restart
  <2>1. \A t \in Turn :
          /\ task[t] \in Task /\ [task[t] EXCEPT !.pc = "done"] \in Task
          /\ [task[t] EXCEPT !.pc = "done"].conv = task[t].conv
    <3> TAKE t \in Turn
    <3>1. task[t] \in Task
      BY DEF TypeOK
    <3>2. "done" \in PC
      BY DEF PC
    <3> QED BY <3>1, <3>2 DEF Task
  <2>2. task' \in [Turn -> Task] /\ ConvKnown'
    BY <1>7, <2>1 DEF Restart, ConvKnown, InFlight
  <2> QED BY <1>7, <2>2 DEF Restart, TypeOK, Unswept
<1>8. CASE UNCHANGED vars
  BY <1>8 DEF vars, TypeOK, ConvKnown
<1> QED
  BY <1>1, <1>2, <1>3, <1>4, <1>5, <1>6, <1>7, <1>8 DEF Next

\* Every reachable state is well typed, and a turn that has started belongs to a
\* conversation.
THEOREM TypeCorrect == Spec => [](TypeOK /\ ConvKnown)
BY TypeInit, TypeStep, PTL DEF Spec

-----------------------------------------------------------------------------
(* The safety invariants.  Inv adds to them HookTold and SweepTold: without them *)
(* nothing is known of what a hook or the sweep, once started, is about to write. *)

Inv ==
  /\ TypeOK /\ ConvKnown
  /\ VerdictIffClosed /\ VerdictJournalled /\ CapabilitiesJournalled
  /\ HookTold /\ SweepTold /\ DorisNeverAhead /\ RegisteredIsJournalled

\* Inv without its type part.
Safe ==
  /\ VerdictIffClosed /\ VerdictJournalled /\ CapabilitiesJournalled
  /\ HookTold /\ SweepTold /\ DorisNeverAhead /\ RegisteredIsJournalled

\* Nothing journalled is lost, nothing closed is reopened.
Grows ==
  /\ \A k \in Key : Events[k] \subseteq Events'[k]
  /\ \A k \in Key : row[k].closed => row'[k].closed

\* A turn with the same intent and tool result has the same binding and verdict.
LEMMA SameVerdict ==
  ASSUME NEW t \in Turn, task'[t].intent = task[t].intent,
         task'[t].escalated = task[t].escalated
  PROVE  Bind(t)' = Bind(t) /\ Verdict(t)' = Verdict(t) /\ Terminal(t)' = Terminal(t)
<1>1. Bind(t)' = Bind(t)
  BY DEF Bind, intent_binding
<1> QED
  BY <1>1 DEF Verdict, Terminal, derive_outcome, IdentityGateExhausted

\* What is known of a turn that does not move stays known.
LEMMA ToldKept ==
  ASSUME TypeOK, ConvKnown, Grows, NEW t \in Turn, task'[t] = task[t], Told(t)
  PROVE  Told(t)'
<1>1. Bind(t)' = Bind(t) /\ Verdict(t)' = Verdict(t) /\ Closes(t)' = Closes(t)
  BY SameVerdict DEF Closes
<1>2. CASE task[t].pc = "idle"
  BY <1>2 DEF Told
<1>3. CASE task[t].pc # "idle"
  <2>1. task[t].conv \in Key
    BY <1>3 DEF ConvKnown, Key
  <2> QED
    BY <1>1, <2>1 DEF Told, Grows, UseJournalled, TerminalJournalled
<1> QED
  BY <1>2, <1>3

\* Of a turn whose hook has read nothing yet, or is over, nothing need be known.
LEMMA ToldFresh ==
  ASSUME NEW t \in Turn,
         task'[t].pc \in {"idle", "commitUpsert", "commitEvent", "read", "done"}
  PROVE  Told(t)'
BY DEF Told

\* The table invariants survive a step that keeps verdicts and capabilities.
LEMMA TablesKept ==
  ASSUME VerdictIffClosed, VerdictJournalled, CapabilitiesJournalled, Grows,
         \A k \in Key :
           /\ row'[k].closed = row[k].closed
           /\ row'[k].outcome = row[k].outcome /\ row'[k].caps = row[k].caps
  PROVE  VerdictIffClosed' /\ VerdictJournalled' /\ CapabilitiesJournalled'
BY DEF VerdictIffClosed, VerdictJournalled, CapabilitiesJournalled, Grows, Key,
       TerminalJournalled, UseJournalled

\* Doris stays behind Postgres when only Postgres moves.
LEMMA DorisKept ==
  ASSUME TypeOK, DorisNeverAhead, Grows, doris' = doris
  PROVE  DorisNeverAhead'
<1>1. \A s \in doris : s.conv \in Key
  BY DEF TypeOK, Snapshot
<1> QED
  BY <1>1 DEF DorisNeverAhead, Grows, UseJournalled

\* What the sweep has to report stays true while it reports other rows.
LEMMA SweepKept ==
  ASSUME SweepTold, Grows, \A k \in Key : sweep'[k].pc = "none" \/
           (sweep[k].pc # "none" /\ sweep'[k].caps = sweep[k].caps)
  PROVE  SweepTold'
BY DEF SweepTold, Grows, UseJournalled

\* A confirmed commitment stays journalled when no turn is newly confirmed.
LEMMA RegisteredKept ==
  ASSUME RegisteredIsJournalled, Grows,
         \A t \in Turn : task'[t].registered =>
           task[t].registered /\ task'[t].conv = task[t].conv
  PROVE  RegisteredIsJournalled'
BY DEF RegisteredIsJournalled, Grows, Key

\* One turn moves and what is known of it holds again: HookTold is preserved.
LEMMA ToldOne ==
  ASSUME TypeOK, ConvKnown, Grows, HookTold, NEW t \in Turn, Told(t)',
         \A u \in Turn \ {t} : task'[u] = task[u]
  PROVE  HookTold'
<1>1. \A u \in Turn \ {t} : Told(u)'
  BY ToldKept DEF HookTold
<1>2. \A u \in Turn : Told(u)'
  BY <1>1
<1> QED
  BY <1>2 DEF HookTold

\* A step that leaves the tables alone and moves one turn to a statement of which
\* nothing need be known.
LEMMA FreshStep ==
  ASSUME Inv, NEW t \in Turn, \A u \in Turn \ {t} : task'[u] = task[u],
         task'[t].pc \in {"idle", "commitUpsert", "commitEvent", "read", "done"},
         task'[t].registered => task[t].registered /\ task'[t].conv = task[t].conv,
         UNCHANGED <<row, journal, doris, sweep>>
  PROVE  /\ VerdictIffClosed' /\ VerdictJournalled' /\ CapabilitiesJournalled'
         /\ HookTold' /\ SweepTold' /\ DorisNeverAhead' /\ RegisteredIsJournalled'
<1>1. Grows
  BY DEF Grows, Events
<1>2. HookTold'
  BY <1>1, ToldFresh, ToldOne DEF Inv
<1>3. VerdictIffClosed' /\ VerdictJournalled' /\ CapabilitiesJournalled'
  BY <1>1, TablesKept DEF Inv
<1>4. SweepTold' /\ DorisNeverAhead'
  BY <1>1, SweepKept, DorisKept DEF Inv
<1>5. RegisteredIsJournalled'
  BY <1>1, RegisteredKept DEF Inv
<1> QED
  BY <1>2, <1>3, <1>4, <1>5

\* Request part of a turn.
LEMMA TurnSafe ==
  ASSUME Inv, NEW t \in Turn, NEW c \in Conv, TurnStep(t, c)
  PROVE  Safe'
<1> USE DEF Safe
<1>0. TypeOK /\ ConvKnown
  BY DEF Inv
<1>1. CASE TurnCanned(t, c)
  <2>1. PICK i \in Intent, escalated \in BOOLEAN : Answer(t, c, i, escalated, FALSE)
    BY <1>1 DEF TurnCanned
  <2>2. task'[t] = Answered(c, i, escalated, FALSE) /\ \A u \in Turn \ {t} : task'[u] = task[u]
    BY <1>0, <2>1, AnswerType
  <2> QED BY <1>1, <2>2, FreshStep DEF TurnCanned, Answered
<1>2. CASE TurnGenerated(t, c)
  <2>1. PICK escalated \in BOOLEAN : Answer(t, c, None, escalated, FALSE)
    BY <1>2 DEF TurnGenerated
  <2>2. /\ task'[t] = Answered(c, None, escalated, FALSE)
        /\ \A u \in Turn \ {t} : task'[u] = task[u]
    BY <1>0, <2>1, AnswerType
  <2> QED BY <1>2, <2>2, FreshStep DEF TurnGenerated, Answered
<1>3. CASE TurnCommits(t, c)
  <2>1. task'[t] = [Idle EXCEPT !.pc = "commitUpsert", !.conv = c]
        /\ \A u \in Turn \ {t} : task'[u] = task[u]
    BY <1>0, <1>3 DEF TurnCommits, TypeOK
  <2>2. task'[t].pc = "commitUpsert" /\ ~task'[t].registered
    BY <2>1 DEF Idle
  <2> QED BY <1>3, <2>1, <2>2, FreshStep DEF TurnCommits
<1>4. CASE TurnRefusesDate(t, c)
  <2>1. PICK escalated \in BOOLEAN : task'[t] = Answered(c, HandoffIntent, escalated, FALSE)
    BY <1>0, <1>4, EscalatingType DEF TurnRefusesDate
  <2>2. \A u \in Turn \ {t} : task'[u] = task[u]
    BY <1>0, <1>4, EscalatingType DEF TurnRefusesDate
  <2> QED BY <1>4, <2>1, <2>2, FreshStep DEF TurnRefusesDate, Answered
<1> QED
  BY <1>1, <1>2, <1>3, <1>4 DEF TurnStep

\* register_commitment: it writes only the row keyed "".
LEMMA CommitSafe ==
  ASSUME Inv, NEW t \in Turn, CommitStep(t)
  PROVE  Safe'
<1> USE DEF Safe
<1>0. /\ TypeOK /\ ConvKnown /\ task[t].pc # "idle" /\ task[t].conv \in Conv
      /\ NoId \in Key /\ NoId \notin Conv
  BY GestionAssumption
  DEF CommitStep, CommitUpsert, CommitEvent, CommitFails, ConvKnown, Inv, Key
<1>1. CASE CommitUpsert(t)
  <2>1. upsert_gestion(NoId, CommitFields(t)) /\ CommitFields(t) \in Fields
    BY <1>0, <1>1, FieldsType DEF CommitUpsert, CommitFields
  <2>2. /\ \A k \in Key \ {NoId} : row'[k] = row[k]
        /\ row'[NoId].closed = row[NoId].closed /\ row'[NoId].caps = row[NoId].caps
    <3>1. row[NoId].closed \in BOOLEAN
      BY <1>0 DEF TypeOK, Row
    <3> QED BY <1>0, <2>1, <3>1, UpsertEffect DEF CommitFields
  <2>3. Grows
    BY <1>0, <1>1, <2>2 DEF Grows, CommitUpsert, Events
  <2>4. VerdictIffClosed' /\ VerdictJournalled' /\ CapabilitiesJournalled'
    BY <1>0, <2>2, <2>3 DEF Inv, VerdictIffClosed, VerdictJournalled, Key, Grows,
       CapabilitiesJournalled, UseJournalled, TerminalJournalled
  <2>5. /\ task'[t] = [task[t] EXCEPT !.pc = "commitEvent"]
        /\ \A u \in Turn \ {t} : task'[u] = task[u]
    BY <1>0, <1>1, GotoType DEF CommitUpsert, PC
  <2>6. task'[t].pc = "commitEvent" /\ task'[t].registered = task[t].registered
        /\ task'[t].conv = task[t].conv
    BY <1>0, <2>5 DEF TypeOK, Task
  <2>7. HookTold'
    BY <1>0, <2>3, <2>5, <2>6, ToldFresh, ToldOne DEF Inv
  <2>8. SweepTold' /\ DorisNeverAhead' /\ RegisteredIsJournalled'
    BY <1>0, <1>1, <2>3, <2>5, <2>6, SweepKept, DorisKept, RegisteredKept DEF Inv, CommitUpsert
  <2> QED BY <2>4, <2>7, <2>8
<1>2. CASE CommitEvent(t)
  <2> DEFINE e == [type |-> "commitment", cap |-> None, outcome |-> None, reason |-> None,
                   by |-> task[t].conv]
  <2>1. e \in Event
    BY <1>0 DEF Event, EventType
  <2>2. Events' = [Events EXCEPT ![NoId] = @ \cup {e}]
    BY <1>0, <1>2, <2>1, AppendEffect DEF CommitEvent
  <2>3. Grows /\ e \in Events'[NoId]
    BY <1>0, <1>2, <2>2 DEF Grows, CommitEvent, Events
  <2>4. /\ task'[t] = Answered(task[t].conv, None, FALSE, TRUE)
        /\ \A u \in Turn \ {t} : task'[u] = task[u]
    BY <1>0, <1>2, AnswerType DEF CommitEvent
  <2>5. HookTold'
    BY <1>0, <2>3, <2>4, ToldFresh, ToldOne DEF Inv, Answered
  <2>6. VerdictIffClosed' /\ VerdictJournalled' /\ CapabilitiesJournalled'
    BY <1>2, <2>3, TablesKept DEF Inv, CommitEvent
  <2>7. SweepTold' /\ DorisNeverAhead'
    BY <1>0, <1>2, <2>3, SweepKept, DorisKept DEF Inv, CommitEvent
  <2>8. RegisteredIsJournalled'
    <3>1. ASSUME NEW u \in Turn, task'[u].registered
          PROVE  \E x \in Events'[NoId] : x.type = "commitment" /\ x.by = task'[u].conv
      <4>1. CASE u = t
        BY <2>3, <2>4, <4>1 DEF Answered
      <4>2. CASE u # t
        BY <1>0, <2>3, <2>4, <3>1, <4>2 DEF Inv, RegisteredIsJournalled, Grows
      <4> QED BY <4>1, <4>2
    <3> QED BY <3>1 DEF RegisteredIsJournalled
  <2> QED BY <2>5, <2>6, <2>7, <2>8
<1>3. CASE CommitFails(t)
  <2>1. PICK escalated \in BOOLEAN :
          task'[t] = Answered(task[t].conv, HandoffIntent, escalated, FALSE)
    BY <1>0, <1>3, EscalatingType DEF CommitFails
  <2>2. \A u \in Turn \ {t} : task'[u] = task[u]
    BY <1>0, <1>3, EscalatingType DEF CommitFails
  <2> QED BY <1>3, <2>1, <2>2, FreshStep DEF CommitFails, Answered
<1> QED
  BY <1>1, <1>2, <1>3 DEF CommitStep

\* The hook reads the row: it carries away capabilities that are journalled, and either
\* journals its own first or has none.
LEMMA ReadSafe ==
  ASSUME Inv, NEW t \in Turn, HookReads(t)
  PROVE  Safe'
<1> DEFINE c == task[t].conv
           r == row[c]
           closed == AlreadyClosed(r)
<1>0. /\ TypeOK /\ ConvKnown /\ c \in Key /\ task[t] \in Task /\ r \in Row
      /\ UNCHANGED <<row, journal, doris, sweep>>
  BY DEF HookReads, ConvKnown, Inv, Key, TypeOK
<1>1. Grows
  BY <1>0 DEF Grows, Events
<1>2. \A u \in Turn \ {t} : task'[u] = task[u]
  BY <1>0 DEF HookReads, TypeOK
<1>3. CASE ~HookHasPool
  <2>1. task' = [task EXCEPT ![t] = [task[t] EXCEPT !.pc = "done"]]
    BY <1>3 DEF HookReads
  <2>2. task'[t].pc = "done" /\ task'[t].registered = task[t].registered
        /\ task'[t].conv = task[t].conv
    BY <1>0, <2>1 DEF TypeOK, Task
  <2> QED BY <1>0, <1>2, <2>2, FreshStep DEF Safe
<1>4. CASE HookHasPool
  <2>1. task'[t] = [task[t] EXCEPT !.closed = closed, !.caps = NewCaps(t, r),
                                   !.pc = AfterRead(t, closed)]
    BY <1>0, <1>4 DEF HookReads, TypeOK
  <2>2. /\ task'[t].pc = AfterRead(t, closed) /\ task'[t].closed = closed
        /\ task'[t].caps = NewCaps(t, r) /\ task'[t].conv = c
        /\ task'[t].intent = task[t].intent /\ task'[t].escalated = task[t].escalated
        /\ task'[t].registered = task[t].registered
    BY <1>0, <2>1 DEF Task
  <2>3. Bind(t)' = Bind(t) /\ Verdict(t)' = Verdict(t) /\ Terminal(t)' = Terminal(t)
    BY <2>2, SameVerdict
  <2>4. \A x \in r.caps : UseJournalled(c, x)'
    BY <1>0, <1>1, <2>2 DEF Inv, CapabilitiesJournalled, UseJournalled, Grows
  <2>5. ASSUME Bind(t).capability # None PROVE Told(t)'
    <3>1. task'[t].pc = "capEvent"
      BY <2>2, <2>5 DEF AfterRead
    <3>2. \A x \in task'[t].caps : UseJournalled(c, x)' \/ x = Bind(t).capability
      BY <2>2, <2>4 DEF NewCaps
    <3> QED BY <2>2, <2>3, <3>1, <3>2 DEF Told, UseJournalled
  <2>6. ASSUME Bind(t).capability = None PROVE Told(t)'
    <3>1. task'[t].pc = IF Terminal(t) /\ ~closed THEN "terminal" ELSE "merge"
      BY <2>2, <2>6 DEF AfterRead, AfterCapability
    <3>2. \A x \in task'[t].caps : UseJournalled(c, x)'
      BY <2>2, <2>4, <2>6 DEF NewCaps
    <3> QED BY <2>2, <2>3, <3>1, <3>2 DEF Told, Closes, UseJournalled
  <2>7. Told(t)'
    BY <2>5, <2>6
  <2>8. HookTold'
    BY <1>0, <1>1, <1>2, <2>7, ToldOne DEF Inv
  <2>9. RegisteredIsJournalled'
    BY <1>1, <1>2, <2>2, RegisteredKept DEF Inv
  <2> QED BY <1>0, <1>1, <2>8, <2>9, TablesKept, SweepKept, DorisKept DEF Inv, Safe
<1> QED
  BY <1>3, <1>4

\* What Goto leaves alone, and so the binding and the verdict of the turn.
LEMMA GotoKeeps ==
  ASSUME TypeOK, ConvKnown, NEW t \in Turn, NEW pc \in PC, task[t].pc # "idle", Goto(t, pc)
  PROVE  /\ task'[t].pc = pc
         /\ task'[t].conv = task[t].conv /\ task'[t].caps = task[t].caps
         /\ task'[t].closed = task[t].closed /\ task'[t].registered = task[t].registered
         /\ Bind(t)' = Bind(t) /\ Verdict(t)' = Verdict(t) /\ Closes(t)' = Closes(t)
         /\ Terminal(t)' = Terminal(t)
         /\ \A u \in Turn \ {t} : task'[u] = task[u]
<1>1. task'[t] = [task[t] EXCEPT !.pc = pc] /\ \A u \in Turn \ {t} : task'[u] = task[u]
  BY GotoType
<1>2. task[t] \in Task
  BY DEF TypeOK
<1>3. /\ task'[t].pc = pc
      /\ task'[t].conv = task[t].conv /\ task'[t].caps = task[t].caps
      /\ task'[t].closed = task[t].closed /\ task'[t].registered = task[t].registered
      /\ task'[t].intent = task[t].intent /\ task'[t].escalated = task[t].escalated
  BY <1>1, <1>2 DEF Task
<1> QED
  BY <1>1, <1>3, SameVerdict DEF Closes

\* A hook that journals an event about its conversation and moves on.
LEMMA JournalSafe ==
  ASSUME Inv, NEW t \in Turn, NEW pc \in PC, NEW e \in Event, task[t].pc # "idle",
         append_gestion_event(task[t].conv, e), Goto(t, pc), Told(t)',
         UNCHANGED <<row, doris, datePending, sweep>>
  PROVE  Safe'
<1>0. TypeOK /\ ConvKnown /\ task[t].conv \in Key
  BY DEF Inv, ConvKnown, Key
<1>1. Grows
  <2>1. Events' = [Events EXCEPT ![task[t].conv] = @ \cup {e}]
    BY <1>0, AppendEffect
  <2> QED BY <2>1 DEF Grows, Events
<1>2. HookTold'
  BY <1>0, <1>1, GotoKeeps, ToldOne DEF Inv
<1>3. RegisteredIsJournalled'
  BY <1>0, <1>1, GotoKeeps, RegisteredKept DEF Inv
<1> QED
  BY <1>0, <1>1, <1>2, <1>3, TablesKept, SweepKept, DorisKept DEF Inv, Safe

\* The capability event: what the hook read, and its own capability, are journalled.
LEMMA JournalsCapabilitySafe ==
  ASSUME Inv, NEW t \in Turn, HookJournalsCapability(t)
  PROVE  Safe'
<1> DEFINE e == [type |-> "capability_used", cap |-> Bind(t).capability, outcome |-> None,
                 reason |-> None, by |-> None]
           pc == AfterCapability(t, task[t].closed)
<1>0. /\ TypeOK /\ ConvKnown /\ task[t].pc = "capEvent" /\ task[t].conv \in Key
      /\ task[t] \in Task /\ Bind(t) \in BindingRecord
  BY TaskVerdict DEF HookJournalsCapability, Inv, ConvKnown, Key, TypeOK
<1>1. e \in Event /\ pc \in PC
  BY <1>0 DEF Event, EventType, BindingRecord, AfterCapability, PC
<1>2. append_gestion_event(task[t].conv, e) /\ Goto(t, pc)
  BY DEF HookJournalsCapability
<1>3. Events' = [Events EXCEPT ![task[t].conv] = @ \cup {e}]
  BY <1>0, <1>1, <1>2, AppendEffect
<1>4. e \in Events'[task[t].conv] /\ Events[task[t].conv] \subseteq Events'[task[t].conv]
  BY <1>0, <1>3 DEF Events
<1>5. \A x \in task[t].caps : UseJournalled(task[t].conv, x) \/ x = Bind(t).capability
  BY <1>0 DEF HookTold, Inv, Told
<1>6. \A x \in task[t].caps :
        \E a \in Events'[task[t].conv] : a.type = "capability_used" /\ a.cap = x
  BY <1>4, <1>5 DEF UseJournalled
<1>7. task'[t].pc \in {"terminal", "merge"} /\ (task'[t].pc = "merge" => ~Closes(t))
  BY <1>0, <1>1, <1>2, GotoKeeps DEF AfterCapability, Closes
<1>8. Told(t)'
  BY <1>0, <1>1, <1>2, <1>6, <1>7, GotoKeeps DEF Told, UseJournalled
<1> QED
  BY <1>0, <1>1, <1>2, <1>8, JournalSafe DEF HookJournalsCapability

\* The terminal event: the verdict the hook is about to write is journalled.
LEMMA JournalsTerminalSafe ==
  ASSUME Inv, NEW t \in Turn, HookJournalsTerminal(t)
  PROVE  Safe'
<1> DEFINE e == [type |-> "terminal", cap |-> Bind(t).capability,
                 outcome |-> Verdict(t).outcome, reason |-> Verdict(t).reason, by |-> None]
<1>0. /\ TypeOK /\ ConvKnown /\ task[t].pc = "terminal" /\ task[t].conv \in Key
      /\ task[t] \in Task /\ Bind(t) \in BindingRecord
  BY TaskVerdict DEF HookJournalsTerminal, Inv, ConvKnown, Key, TypeOK
<1>1. e \in Event /\ "merge" \in PC
  BY <1>0, TaskVerdict DEF Event, EventType, BindingRecord, PC
<1>2. append_gestion_event(task[t].conv, e) /\ Goto(t, "merge")
  BY DEF HookJournalsTerminal
<1>3. Events' = [Events EXCEPT ![task[t].conv] = @ \cup {e}]
  BY <1>0, <1>1, <1>2, AppendEffect
<1>4. e \in Events'[task[t].conv] /\ Events[task[t].conv] \subseteq Events'[task[t].conv]
  BY <1>0, <1>3 DEF Events
<1>5. \A x \in task[t].caps : UseJournalled(task[t].conv, x)
  BY <1>0 DEF HookTold, Inv, Told
<1>6. \A x \in task[t].caps :
        \E a \in Events'[task[t].conv] : a.type = "capability_used" /\ a.cap = x
  BY <1>4, <1>5 DEF UseJournalled
<1>7. \E a \in Events'[task[t].conv] : a.type = "terminal" /\ a.outcome = Verdict(t).outcome
  BY <1>4
<1>8. Told(t)'
  BY <1>0, <1>1, <1>2, <1>6, <1>7, GotoKeeps DEF Told, UseJournalled, TerminalJournalled
<1> QED
  BY <1>0, <1>1, <1>2, <1>8, JournalSafe DEF HookJournalsTerminal

\* The merge takes from the row only capabilities that are journalled.
LEMMA MergesSafe ==
  ASSUME Inv, NEW t \in Turn, HookMergesCapabilities(t)
  PROVE  Safe'
<1> DEFINE c == task[t].conv
           merged == IF task[t].caps = {} THEN {} ELSE task[t].caps \cup row[c].caps
<1>0. /\ TypeOK /\ ConvKnown /\ task[t].pc = "merge" /\ c \in Key /\ task[t] \in Task
      /\ UNCHANGED <<row, journal, doris, sweep>>
  BY DEF HookMergesCapabilities, Inv, ConvKnown, Key, TypeOK
<1>1. Grows
  BY <1>0 DEF Grows, Events
<1>2. /\ task'[t] = [task[t] EXCEPT !.pc = "upsert", !.caps = merged]
      /\ \A u \in Turn \ {t} : task'[u] = task[u]
  BY <1>0 DEF HookMergesCapabilities, TypeOK
<1>3. /\ task'[t].pc = "upsert" /\ task'[t].caps = merged /\ task'[t].conv = task[t].conv
      /\ task'[t].intent = task[t].intent /\ task'[t].escalated = task[t].escalated
      /\ task'[t].closed = task[t].closed /\ task'[t].registered = task[t].registered
  BY <1>0, <1>2 DEF Task
<1>4. Bind(t)' = Bind(t) /\ Verdict(t)' = Verdict(t) /\ Closes(t)' = Closes(t)
  BY <1>3, SameVerdict DEF Closes
<1>5. Told(t) /\ \A x \in row[c].caps : UseJournalled(c, x)
  BY <1>0 DEF HookTold, Inv, CapabilitiesJournalled
<1>6. Told(t)'
  BY <1>0, <1>1, <1>3, <1>4, <1>5 DEF Told, UseJournalled, TerminalJournalled, Grows
<1>7. HookTold'
  BY <1>0, <1>1, <1>2, <1>6, ToldOne DEF Inv
<1>8. RegisteredIsJournalled'
  BY <1>1, <1>2, <1>3, RegisteredKept DEF Inv
<1> QED
  BY <1>0, <1>1, <1>7, <1>8, TablesKept, SweepKept, DorisKept DEF Inv, Safe

\* The upsert of a hook: a row it closes had no verdict and gets the journalled one.
LEMMA UpsertSafe ==
  ASSUME Inv, NEW t \in Turn, HookUpserts(t)
  PROVE  Safe'
<1> DEFINE c == task[t].conv
<1>0. /\ TypeOK /\ ConvKnown /\ task[t].pc = "upsert" /\ c \in Key /\ c \in Conv
      /\ UNCHANGED <<journal, doris, datePending, sweep>> /\ Goto(t, "snapshot")
      /\ "snapshot" \in PC /\ row[c] \in Row /\ Closes(t) \in BOOLEAN
      /\ Verdict(t).outcome \in Outcome /\ None \notin Outcome
  BY BindingAssumption, FieldsType, TaskVerdict
  DEF HookUpserts, Inv, ConvKnown, Key, TypeOK, PC
<1>1. /\ \A k \in Key \ {c} : row'[k] = row[k]
      /\ row'[c].closed = (row[c].closed \/ Closes(t))
      /\ row'[c].outcome = IF row[c].outcome # None THEN row[c].outcome
                           ELSE IF Closes(t) THEN Verdict(t).outcome ELSE None
      /\ row'[c].caps = IF task[t].caps = {} THEN row[c].caps ELSE task[t].caps
  <2>1. upsert_gestion(c, HookFields(t)) /\ HookFields(t) \in Fields
    BY <1>0, FieldsType DEF HookUpserts, HookFields
  <2> QED BY <1>0, <2>1, UpsertEffect DEF HookFields
<1>2. Events' = Events /\ Grows
  BY <1>0, <1>1 DEF Grows, Events, Row
<1>3. Told(t)
  BY DEF HookTold, Inv
<1>4. VerdictIffClosed'
  <2>1. row[c].closed \in BOOLEAN
    BY <1>0 DEF Row
  <2>2. row'[c].closed <=> row'[c].outcome # None
    BY <1>0, <1>1, <2>1 DEF Inv, VerdictIffClosed
  <2>3. \A k \in Conv \ {c} : row'[k].closed <=> row'[k].outcome # None
    BY <1>1 DEF Inv, VerdictIffClosed, Key
  <2> QED BY <2>2, <2>3 DEF VerdictIffClosed
<1>5. VerdictJournalled'
  <2>1. ASSUME row'[c].closed
        PROVE  \/ row'[c].outcome = "unresolved"
               \/ \E e \in Events[c] : e.type = "terminal" /\ e.outcome = row'[c].outcome
    <3>1. CASE row[c].closed
      BY <1>0, <1>1, <3>1 DEF Inv, VerdictIffClosed, VerdictJournalled, TerminalJournalled
    <3>2. CASE ~row[c].closed
      BY <1>0, <1>1, <1>3, <2>1, <3>2 DEF Inv, VerdictIffClosed, Told, TerminalJournalled
    <3> QED BY <3>1, <3>2
  <2>2. \A k \in Conv \ {c} : row'[k].closed =>
          \/ row'[k].outcome = "unresolved"
          \/ \E e \in Events[k] : e.type = "terminal" /\ e.outcome = row'[k].outcome
    BY <1>1 DEF Inv, VerdictJournalled, TerminalJournalled, Key
  <2> QED BY <1>2, <2>1, <2>2 DEF VerdictJournalled, TerminalJournalled
<1>6. CapabilitiesJournalled'
  <2>1. \A x \in row'[c].caps : UseJournalled(c, x)
    BY <1>0, <1>1, <1>3 DEF Inv, CapabilitiesJournalled, Told
  <2>2. \A k \in Key \ {c} : \A x \in row'[k].caps : UseJournalled(k, x)
    BY <1>1 DEF Inv, CapabilitiesJournalled
  <2>3. \A k \in Key : \A x \in row'[k].caps : UseJournalled(k, x)
    BY <2>1, <2>2
  <2> QED BY <1>2, <2>3 DEF CapabilitiesJournalled, UseJournalled
<1>7. Told(t)'
  BY <1>0, <1>1, <1>2, <1>3, GotoKeeps DEF Told, UseJournalled
<1>8. HookTold'
  BY <1>0, <1>2, <1>7, GotoKeeps, ToldOne DEF Inv
<1>9. RegisteredIsJournalled'
  BY <1>0, <1>2, GotoKeeps, RegisteredKept DEF Inv
<1> QED
  BY <1>0, <1>2, <1>4, <1>5, <1>6, <1>8, <1>9, SweepKept, DorisKept DEF Inv, Safe

\* Adding a snapshot of which both halves of DorisNeverAhead hold.
LEMMA ReplicateSafe ==
  ASSUME Inv, Grows, NEW s \in Snapshot, Replicate(s), s.closed => row'[s.conv].closed,
         \A x \in s.caps : UseJournalled(s.conv, x)
  PROVE  DorisNeverAhead'
<1>1. \A d \in doris \cup {s} : d.conv \in Key
  BY DEF Inv, TypeOK, Snapshot
<1>2. \A d \in doris \cup {s} :
        /\ d.closed => row'[d.conv].closed
        /\ \A x \in d.caps : \E e \in Events'[d.conv] : e.type = "capability_used" /\ e.cap = x
  BY <1>1 DEF Inv, DorisNeverAhead, Grows, UseJournalled
<1>3. doris' \subseteq doris \cup {s}
  BY DEF Replicate
<1> QED
  BY <1>2, <1>3 DEF DorisNeverAhead, UseJournalled

\* The Doris row repeats what the hook has written.
LEMMA ReplicatesSafe ==
  ASSUME Inv, NEW t \in Turn, HookReplicates(t)
  PROVE  Safe'
<1> DEFINE s == HookSnapshot(t)
<1>0. /\ TypeOK /\ ConvKnown /\ task[t].pc = "snapshot" /\ task[t].conv \in Key
      /\ Goto(t, "done") /\ "done" \in PC /\ task[t] \in Task
      /\ UNCHANGED <<row, journal, datePending, sweep>> /\ Replicate(s)
  BY DEF HookReplicates, Inv, ConvKnown, Key, PC, TypeOK
<1>1. Grows
  BY <1>0 DEF Grows, Events
<1>2. s \in Snapshot /\ s.conv = task[t].conv /\ s.caps = task[t].caps /\ s.closed = Closes(t)
  BY <1>0, FieldsType DEF HookSnapshot, HookFields, Snapshot, Fields
<1>3. Told(t)
  BY DEF HookTold, Inv
<1>4. (Closes(t) => row'[task[t].conv].closed)
      /\ \A x \in task[t].caps : UseJournalled(task[t].conv, x)
  BY <1>0, <1>3 DEF Told
<1>5. DorisNeverAhead'
  BY <1>0, <1>1, <1>2, <1>4, ReplicateSafe
<1>6. HookTold'
  BY <1>0, <1>1, GotoKeeps, ToldFresh, ToldOne DEF Inv
<1>7. RegisteredIsJournalled'
  BY <1>0, <1>1, GotoKeeps, RegisteredKept DEF Inv
<1> QED
  BY <1>0, <1>1, <1>5, <1>6, <1>7, TablesKept, SweepKept DEF Inv, Safe

\* Every step of _emit_gestion, the abandoned hook included.
LEMMA HookSafe ==
  ASSUME Inv, NEW t \in Turn, HookStep(t)
  PROVE  Safe'
<1>1. CASE HookFails(t)
  <2>1. TypeOK /\ ConvKnown /\ task[t].pc # "idle" /\ Goto(t, "done") /\ "done" \in PC
    BY <1>1 DEF HookFails, Inv, PC
  <2> QED BY <1>1, <2>1, GotoKeeps, FreshStep DEF HookFails, Safe
<1> QED
  BY <1>1, ReadSafe, JournalsCapabilitySafe, JournalsTerminalSafe, MergesSafe, UpsertSafe,
     ReplicatesSafe
  DEF HookStep

\* The sweep closes a row with no verdict of its own in the journal yet, and what it
\* reports afterwards was in the row.
LEMMA SweepUpdateSafe ==
  ASSUME Inv, SweepUpdate
  PROVE  Safe'
<1>0. TypeOK /\ ConvKnown /\ UNCHANGED <<journal, doris, task, datePending>>
  BY DEF Inv, SweepUpdate
<1>1. \A k \in Key :
        /\ row'[k].caps = row[k].caps
        /\ row'[k] = row[k] \/ (row'[k].outcome = "unresolved" /\ row'[k].closed = TRUE)
  <2> SUFFICES ASSUME NEW k \in Key
               PROVE  /\ row'[k].caps = row[k].caps
                      /\ \/ row'[k] = row[k]
                         \/ row'[k].outcome = "unresolved" /\ row'[k].closed = TRUE
    OBVIOUS
  <2>1. row[k] \in Row
    BY <1>0 DEF TypeOK
  <2>2. row'[k] = IF Sweepable(k)
                  THEN [row[k] EXCEPT !.outcome = "unresolved", !.closed = TRUE,
                                      !.stale = FALSE]
                  ELSE row[k]
    BY DEF SweepUpdate
  <2>3. CASE Sweepable(k)
    BY <2>1, <2>2, <2>3 DEF Row
  <2>4. CASE ~Sweepable(k)
    BY <2>2, <2>4
  <2> QED BY <2>3, <2>4
<1>2. \A k \in Key : sweep'[k].pc # "none" =>
        row'[k].closed /\ sweep'[k].caps = row[k].caps
  <2> SUFFICES ASSUME NEW k \in Key, sweep'[k].pc # "none"
               PROVE  row'[k].closed /\ sweep'[k].caps = row[k].caps
    OBVIOUS
  <2>1. row[k] \in Row
    BY <1>0 DEF TypeOK
  <2>2. Sweepable(k) /\ sweep'[k].caps = row[k].caps
    BY DEF SweepUpdate, Unswept
  <2>3. row'[k] = [row[k] EXCEPT !.outcome = "unresolved", !.closed = TRUE,
                                 !.stale = FALSE]
    BY <2>2 DEF SweepUpdate
  <2> QED BY <2>1, <2>2, <2>3 DEF Row
<1>3. Events' = Events /\ Grows
  BY <1>0, <1>1 DEF Grows, Events
<1>4. "unresolved" # None
  BY BindingAssumption DEF Outcome
<1>5. VerdictIffClosed' /\ VerdictJournalled'
  BY <1>1, <1>3, <1>4 DEF Inv, VerdictIffClosed, VerdictJournalled, TerminalJournalled, Key
<1>6. CapabilitiesJournalled'
  BY <1>1, <1>3 DEF Inv, CapabilitiesJournalled, UseJournalled
<1>7. SweepTold'
  BY <1>1, <1>2, <1>3 DEF Inv, SweepTold, CapabilitiesJournalled, UseJournalled
<1>8. HookTold'
  <2>1. \A t \in Turn : Told(t)'
    BY <1>0, <1>3, ToldKept DEF HookTold, Inv
  <2> QED BY <2>1 DEF HookTold
<1>9. DorisNeverAhead' /\ RegisteredIsJournalled'
  BY <1>0, <1>3, DorisKept, RegisteredKept DEF Inv
<1> QED
  BY <1>5, <1>6, <1>7, <1>8, <1>9 DEF Safe

\* A step that touches neither the turns nor the rows' verdicts and capabilities.
LEMMA TurnsApart ==
  ASSUME Inv, Grows, task' = task,
         \A k \in Key :
           /\ row'[k].closed = row[k].closed
           /\ row'[k].outcome = row[k].outcome /\ row'[k].caps = row[k].caps
  PROVE  /\ VerdictIffClosed' /\ VerdictJournalled' /\ CapabilitiesJournalled'
         /\ HookTold' /\ RegisteredIsJournalled'
<1>1. \A t \in Turn : Told(t)'
  BY ToldKept DEF HookTold, Inv
<1>2. HookTold'
  BY <1>1 DEF HookTold
<1>3. RegisteredIsJournalled'
  BY RegisteredKept DEF Inv
<1> QED
  BY <1>2, <1>3, TablesKept DEF Inv

\* The passage of time changes no verdict.
LEMMA ExpireSafe ==
  ASSUME Inv, NEW k \in Key, Expire(k)
  PROVE  Safe'
<1>1. \A j \in Key :
        /\ row'[j].closed = row[j].closed
        /\ row'[j].outcome = row[j].outcome /\ row'[j].caps = row[j].caps
  <2>1. row \in [Key -> Row] /\ row[k] \in Row
    BY DEF Inv, TypeOK
  <2>2. row' = [row EXCEPT ![k] = [row[k] EXCEPT !.stale = TRUE]]
    BY DEF Expire
  <2>3. row'[k] = [row[k] EXCEPT !.stale = TRUE] /\ \A j \in Key \ {k} : row'[j] = row[j]
    BY <2>1, <2>2
  <2> QED BY <2>1, <2>3 DEF Row
<1>2. Grows
  BY <1>1 DEF Grows, Events, Expire
<1> QED
  BY <1>1, <1>2, TurnsApart, DorisKept, SweepKept DEF Inv, Safe, Expire

\* Reporting one swept row: journal it, replicate it, or give it up.
LEMMA SweepSafe ==
  ASSUME Inv, NEW k \in Key, SweepStep(k)
  PROVE  Safe'
<1>0. TypeOK /\ row' = row /\ task' = task
  BY DEF Inv, SweepStep, SweepJournals, SweepReplicates, SweepRowFails
<1>1. CASE SweepJournals(k)
  <2> DEFINE e == [type |-> "terminal", cap |-> None, outcome |-> "unresolved",
                   reason |-> None, by |-> None]
  <2>1. e \in Event
    BY DEF Event, EventType, Outcome
  <2>2. Events' = [Events EXCEPT ![k] = @ \cup {e}]
    BY <1>0, <1>1, <2>1, AppendEffect DEF SweepJournals
  <2>3. Grows
    BY <1>0, <2>2 DEF Grows, Events
  <2>4. sweep[k].pc # "none"
    BY <1>1 DEF SweepJournals, SweepTurn
  <2>5. \A j \in Key : sweep'[j].pc = "none" \/
           (sweep[j].pc # "none" /\ sweep'[j].caps = sweep[j].caps)
    BY <1>0, <1>1, <2>4 DEF SweepJournals, TypeOK
  <2> QED BY <1>0, <1>1, <2>3, <2>5, TurnsApart, DorisKept, SweepKept
          DEF Inv, Safe, SweepJournals
<1>2. CASE SweepReplicates(k)
  <2> DEFINE s == [conv |-> k, caps |-> sweep[k].caps, outcome |-> "unresolved",
                   reason |-> None, escalated |-> FALSE, closed |-> TRUE]
  <2>1. s \in Snapshot
    BY <1>0 DEF Snapshot, TypeOK, Outcome
  <2>2. Grows
    BY <1>0, <1>2 DEF Grows, Events, SweepReplicates
  <2>3. Replicate(s) /\ row'[k].closed /\ \A x \in sweep[k].caps : UseJournalled(k, x)
    BY <1>0, <1>2 DEF SweepReplicates, Inv, SweepTold
  <2>4. DorisNeverAhead'
    BY <2>1, <2>2, <2>3, ReplicateSafe
  <2>5. \A j \in Key : sweep'[j].pc = "none" \/
           (sweep[j].pc # "none" /\ sweep'[j].caps = sweep[j].caps)
    BY <1>0, <1>2 DEF SweepReplicates, TypeOK, Unswept
  <2> QED BY <1>0, <2>2, <2>4, <2>5, TurnsApart, SweepKept DEF Inv, Safe
<1>3. CASE SweepRowFails(k)
  <2>1. Grows
    BY <1>0, <1>3 DEF Grows, Events, SweepRowFails
  <2>2. \A j \in Key : sweep'[j].pc = "none" \/
           (sweep[j].pc # "none" /\ sweep'[j].caps = sweep[j].caps)
    BY <1>0, <1>3 DEF SweepRowFails, TypeOK, Unswept
  <2> QED BY <1>0, <1>3, <2>1, <2>2, TurnsApart, DorisKept, SweepKept
          DEF Inv, Safe, SweepRowFails
<1> QED
  BY <1>1, <1>2, <1>3 DEF SweepStep

\* A restart forgets turns and reports but takes nothing back.
LEMMA RestartSafe ==
  ASSUME Inv, Restart
  PROVE  Safe'
<1>0. TypeOK /\ ConvKnown /\ UNCHANGED <<row, journal, doris>>
  BY DEF Inv, Restart
<1>1. Grows
  BY <1>0 DEF Grows, Events
<1>2. \A t \in Turn :
        /\ task'[t].pc = "done" \/ task'[t] = task[t]
        /\ task'[t].registered = task[t].registered /\ task'[t].conv = task[t].conv
  BY <1>0 DEF Restart, TypeOK, Task
<1>3. \A t \in Turn : Told(t)'
  BY <1>0, <1>1, <1>2, ToldKept, ToldFresh DEF HookTold, Inv
<1>4. HookTold'
  BY <1>3 DEF HookTold
<1>5. SweepTold'
  BY DEF Restart, SweepTold, Unswept
<1> QED
  BY <1>0, <1>1, <1>2, <1>4, <1>5, TablesKept, DorisKept, RegisteredKept DEF Inv, Safe

\* The inductive invariant holds of the empty tables.
LEMMA InvInit == Init => Inv
<1> SUFFICES ASSUME Init PROVE Inv
  OBVIOUS
<1>1. TypeOK /\ ConvKnown
  BY TypeInit
<1>2. /\ \A k \in Key : row[k].closed = FALSE /\ row[k].outcome = None /\ row[k].caps = {}
      /\ \A t \in Turn : task[t].pc = "idle" /\ task[t].registered = FALSE
      /\ \A k \in Key : sweep[k].pc = "none"
      /\ doris = {}
  BY DEF Init, Absent, Idle, Unswept
<1>3. VerdictIffClosed /\ VerdictJournalled /\ CapabilitiesJournalled
  BY <1>2 DEF VerdictIffClosed, VerdictJournalled, CapabilitiesJournalled, Key
<1>4. HookTold /\ SweepTold /\ DorisNeverAhead /\ RegisteredIsJournalled
  BY <1>2 DEF HookTold, Told, SweepTold, DorisNeverAhead, RegisteredIsJournalled
<1> QED
  BY <1>1, <1>3, <1>4 DEF Inv

\* The inductive invariant is preserved by every step.
LEMMA InvStep == Inv /\ [Next]_vars => Inv'
<1> SUFFICES ASSUME Inv, [Next]_vars PROVE Inv'
  OBVIOUS
<1>1. TypeOK' /\ ConvKnown'
  BY TypeStep DEF Inv
<1>2. CASE UNCHANGED vars
  <2>1. Grows
    BY <1>2 DEF Grows, Events, vars
  <2> QED BY <1>1, <1>2, <2>1, TurnsApart, DorisKept, SweepKept DEF Inv, vars
<1>3. CASE Next
  <2>1. Safe'
    BY <1>3, TurnSafe, CommitSafe, HookSafe, ExpireSafe, SweepUpdateSafe, SweepSafe,
       RestartSafe
    DEF Next
  <2> QED BY <1>1, <2>1 DEF Inv, Safe
<1> QED
  BY <1>2, <1>3

\* The inductive invariant holds in every reachable state.
LEMMA InvHolds == Spec => []Inv
BY InvInit, InvStep, PTL DEF Spec

-----------------------------------------------------------------------------
(* Theorems. *)

\* A conversation's row has a verdict exactly when it is closed.
THEOREM VerdictIffClosedHolds == Spec => []VerdictIffClosed
BY InvHolds, PTL DEF Inv

\* The verdict of a conversation that the sweep did not close is in its journal: the
\* hook journals it before it writes the row.
THEOREM VerdictJournalledHolds == Spec => []VerdictJournalled
BY InvHolds, PTL DEF Inv

\* Every capability of a row was journalled, whatever the interleaving of the hooks.
THEOREM CapabilitiesJournalledHolds == Spec => []CapabilitiesJournalled
BY InvHolds, PTL DEF Inv

\* Doris shows nothing that Postgres does not have.
THEOREM DorisNeverAheadHolds == Spec => []DorisNeverAhead
BY InvHolds, PTL DEF Inv

\* A customer told that the commitment is registered has its event in the journal.
THEOREM RegisteredIsJournalledHolds == Spec => []RegisteredIsJournalled
BY InvHolds, PTL DEF Inv

-----------------------------------------------------------------------------
(* First close wins: every step of the tables is a step of GestionLifecycle, or none. *)

\* A closed conversation keeps its verdict.
LEMMA ClosedKeepsVerdict ==
  ASSUME Inv, [Next]_vars, NEW c \in Conv, row[c].closed
  PROVE  row'[c].closed /\ row'[c].outcome = row[c].outcome
<1>0. TypeOK /\ ConvKnown /\ c \in Key /\ row[c] \in Row /\ row[c].outcome # None
      /\ c # NoId
  BY GestionAssumption DEF Inv, TypeOK, Key, VerdictIffClosed
<1>1. ASSUME row' = row PROVE row'[c].closed /\ row'[c].outcome = row[c].outcome
  BY <1>1
<1>2. ASSUME NEW t \in Turn, CommitUpsert(t)
      PROVE  row'[c].closed /\ row'[c].outcome = row[c].outcome
  <2>1. upsert_gestion(NoId, CommitFields(t)) /\ CommitFields(t) \in Fields /\ NoId \in Key
    BY <1>0, <1>2, FieldsType DEF CommitUpsert, CommitFields, Key
  <2>2. row'[c] = row[c]
    BY <1>0, <2>1, UpsertEffect
  <2> QED BY <2>2
<1>3. ASSUME NEW t \in Turn, HookUpserts(t)
      PROVE  row'[c].closed /\ row'[c].outcome = row[c].outcome
  <2>1. /\ upsert_gestion(task[t].conv, HookFields(t)) /\ HookFields(t) \in Fields
        /\ task[t].conv \in Key
    BY <1>0, <1>3, FieldsType DEF HookUpserts, HookFields, ConvKnown, Key
  <2>2. CASE task[t].conv = c
    <3>1. /\ row'[c].closed = (row[c].closed \/ HookFields(t).closed)
          /\ row'[c].outcome = row[c].outcome
      BY <1>0, <2>1, <2>2, UpsertEffect
    <3> QED BY <3>1
  <2>3. CASE task[t].conv # c
    <3>1. row'[c] = row[c]
      BY <1>0, <2>1, <2>3, UpsertEffect
    <3> QED BY <3>1
  <2> QED BY <2>2, <2>3
<1>4. ASSUME NEW k \in Key, Expire(k)
      PROVE  row'[c].closed /\ row'[c].outcome = row[c].outcome
  <2>1. row' = [row EXCEPT ![k] = [row[k] EXCEPT !.stale = TRUE]] /\ row \in [Key -> Row]
    BY <1>0, <1>4 DEF Expire, TypeOK
  <2>2. row'[c] = row[c] \/ row'[c] = [row[c] EXCEPT !.stale = TRUE]
    BY <1>0, <2>1
  <2> QED BY <1>0, <2>2 DEF Row
<1>5. ASSUME SweepUpdate
      PROVE  row'[c].closed /\ row'[c].outcome = row[c].outcome
  <2>1. row'[c] = row[c]
    BY <1>0, <1>5 DEF SweepUpdate, Sweepable
  <2> QED BY <2>1
<1> QED
  BY <1>1, <1>2, <1>3, <1>4, <1>5
  DEF Next, vars, TurnStep, TurnCanned, TurnGenerated, TurnCommits, TurnRefusesDate,
      CommitStep, CommitEvent, CommitFails, HookStep, HookReads, HookJournalsCapability,
      HookJournalsTerminal, HookMergesCapabilities, HookReplicates, HookFails, SweepStep,
      SweepJournals, SweepReplicates, SweepRowFails, Restart

\* The verdict of GestionLifecycle, as it is read off the table.
Verdicts == [c \in Conv |-> IF row[c].closed THEN row[c].outcome ELSE None]

\* Initially every conversation is open.
LEMMA LifecycleInit == Init => Lifecycle!Init
BY DEF Init, Absent, Key, Lifecycle!Init

\* A step closes the conversations it closes, each for the first time, or is a stutter.
LEMMA LifecycleStep ==
  ASSUME Inv, Inv', [Next]_vars
  PROVE  Lifecycle!Next \/ Verdicts' = Verdicts
<1>0. PICK S \in SUBSET Conv : S = {c \in Conv : ~row[c].closed /\ row'[c].closed}
  OBVIOUS
<1>1. \A c \in Conv : row[c].closed => row'[c].closed /\ row'[c].outcome = row[c].outcome
  BY ClosedKeepsVerdict
<1>2. \A c \in Conv :
        /\ row'[c].outcome \in Outcome \cup {None}
        /\ row'[c].closed => row'[c].outcome \in Outcome
  BY DEF Inv, TypeOK, Row, Key, VerdictIffClosed
<1>3. \A c \in S : Verdicts[c] = None
  BY <1>0 DEF Verdicts
<1>4. \A c \in Conv : Verdicts'[c] \in Outcome \cup {None}
  BY <1>2 DEF Verdicts
<1>5. Verdicts' \in [Conv -> Outcome \cup {None}]
  BY <1>4 DEF Verdicts
<1>6. ASSUME NEW c \in Conv
      PROVE  IF c \in S THEN Verdicts'[c] \in Outcome ELSE Verdicts'[c] = Verdicts[c]
  <2>1. CASE row[c].closed
    BY <1>0, <1>1, <2>1 DEF Verdicts
  <2>2. CASE ~row[c].closed /\ row'[c].closed
    BY <1>0, <1>2, <2>2 DEF Verdicts
  <2>3. CASE ~row[c].closed /\ ~row'[c].closed
    BY <1>0, <2>3 DEF Verdicts
  <2> QED BY <2>1, <2>2, <2>3
<1>7. Lifecycle!Close(S)
  BY <1>3, <1>5, <1>6 DEF Lifecycle!Close, Verdicts
<1> QED
  BY <1>7 DEF Lifecycle!Next

\* First close wins: a conversation gets at most one verdict and keeps it.
THEOREM FirstCloseWinsHolds == Spec => FirstCloseWins
<1>1. Inv /\ Inv' /\ [Next]_vars => [Lifecycle!Next]_Verdicts
  BY LifecycleStep
<1>2. Init => Lifecycle!Init
  BY LifecycleInit
<1>3. Lifecycle!Spec <=> Lifecycle!Init /\ [][Lifecycle!Next]_Verdicts
  BY DEF Lifecycle!Spec, Verdicts
<1> QED
  BY <1>1, <1>2, <1>3, InvHolds, PTL DEF Spec, FirstCloseWins

-----------------------------------------------------------------------------
(* With nothing overlapping and nothing failing the journal rebuilds the table.  Between *)
(* its first event and its upsert a hook has the journal ahead of the row; the sweep has *)
(* it behind, from its UPDATE to the event of each row.                                  *)

\* The journal has these capabilities.
CapsAre(k, S) == \A x : x \in S <=> UseJournalled(k, x)

\* The verdict of a row, or its lack, is that of the journal.
Explained(k) ==
  IF row[k].closed THEN OneTerminal(k, row[k].outcome, row[k].reason) ELSE Terminals(k) = {}

Full(k) == CapsAre(k, row[k].caps) /\ Explained(k)

\* The statements between the hook's last event and its upsert.
Ahead == {"terminal", "merge", "upsert"}

\* The journal is ahead of the row by what the hook of t is about to write.
Halfway(t) ==
  LET c == task[t].conv IN
  /\ task[t].pc = "capEvent" =>
       /\ Full(c) /\ task[t].closed = row[c].closed
       /\ Bind(t).capability # None /\ task[t].caps = row[c].caps \cup {Bind(t).capability}
  /\ task[t].pc \in Ahead =>
       /\ task[t].closed = row[c].closed
       /\ CapsAre(c, task[t].caps) /\ row[c].caps \subseteq task[t].caps
  /\ task[t].pc = "terminal" => Closes(t) /\ Terminals(c) = {}
  /\ task[t].pc \in {"merge", "upsert"} =>
       IF Closes(t) THEN OneTerminal(c, Verdict(t).outcome, Verdict(t).reason)
                    ELSE Explained(c)

\* A row the sweep has closed and not journalled yet.
SweptOnly(c) ==
  /\ CapsAre(c, row[c].caps) /\ Terminals(c) = {}
  /\ row[c].closed /\ row[c].outcome = "unresolved" /\ row[c].reason = None

AheadOf(c) == \E t \in Turn : task[t].conv = c /\ task[t].pc \in Ahead

SerialInv ==
  /\ \A t, u \in Turn : InFlight(t) /\ InFlight(u) => t = u
  /\ \A t \in Turn : InFlight(t) => SweepIdle
  /\ \A t \in Turn : Halfway(t)
  /\ \A c \in Conv : ~row[c].closed => row[c].reason = None
  /\ \A c \in Conv : sweep[c].pc = "journal" => SweptOnly(c)
  /\ \A c \in Conv : sweep[c].pc # "journal" /\ ~AheadOf(c) => Full(c)

\* What the journal says of a row does not change with the rest of the tables.
SameTables(k) ==
  /\ journal'[k] = journal[k]
  /\ row'[k].closed = row[k].closed /\ row'[k].outcome = row[k].outcome
  /\ row'[k].reason = row[k].reason /\ row'[k].caps = row[k].caps

LEMMA SameJournal ==
  ASSUME NEW k \in Key, journal'[k] = journal[k]
  PROVE  /\ \A x : UseJournalled(k, x)' <=> UseJournalled(k, x)
         /\ Terminals(k)' = Terminals(k)
         /\ \A i : journal'[k][i] = journal[k][i]
<1>1. Events'[k] = Events[k]
  BY DEF Events
<1> QED
  BY <1>1 DEF UseJournalled, Terminals

LEMMA FullKept ==
  ASSUME NEW k \in Key, SameTables(k)
  PROVE  /\ CapsAre(k, row[k].caps) => CapsAre(k, row[k].caps)'
         /\ Explained(k) => Explained(k)'
         /\ Full(k) => Full(k)'
<1>1. /\ \A x : UseJournalled(k, x)' <=> UseJournalled(k, x)
      /\ Terminals(k)' = Terminals(k) /\ \A i : journal'[k][i] = journal[k][i]
  BY SameJournal DEF SameTables
<1>2. CapsAre(k, row[k].caps) => CapsAre(k, row[k].caps)'
  BY <1>1 DEF CapsAre, SameTables
<1>3. Explained(k) => Explained(k)'
  BY <1>1 DEF Explained, OneTerminal, SameTables
<1> QED
  BY <1>2, <1>3 DEF Full

\* What an event adds to a journal.
LEMMA EventAdded ==
  ASSUME TypeOK, NEW k \in Key, NEW e \in Event, append_gestion_event(k, e)
  PROVE  /\ \A d \in Key \ {k} : journal'[d] = journal[d]
         /\ \A x : UseJournalled(k, x)' <=>
                     UseJournalled(k, x) \/ (e.type = "capability_used" /\ e.cap = x)
         /\ e.type # "terminal" =>
              /\ Terminals(k)' = Terminals(k)
              /\ \A i \in Terminals(k) : journal'[k][i] = journal[k][i]
         /\ e.type = "terminal" /\ Terminals(k) = {} => OneTerminal(k, e.outcome, e.reason)'
<1> DEFINE s == journal[k]
<1>1. journal \in [Key -> Seq(Event)] /\ s \in Seq(Event) /\ Len(s) \in Nat
  BY DEF TypeOK
<1>2. journal'[k] = Append(s, e) /\ \A d \in Key \ {k} : journal'[d] = journal[d]
  BY <1>1 DEF append_gestion_event
<1>3. /\ DOMAIN journal'[k] = 1..(Len(s) + 1) /\ DOMAIN s = 1..Len(s)
      /\ \A i \in 1..Len(s) : journal'[k][i] = s[i]
      /\ journal'[k][Len(s) + 1] = e
  BY <1>1, <1>2
<1>4. Events' = [Events EXCEPT ![k] = @ \cup {e}]
  BY AppendEffect
<1>5. Events'[k] = Events[k] \cup {e}
  BY <1>4 DEF Events
<1>6. \A x : UseJournalled(k, x)' <=>
               UseJournalled(k, x) \/ (e.type = "capability_used" /\ e.cap = x)
  BY <1>5 DEF UseJournalled
<1> HIDE DEF s
<1>7. ASSUME e.type # "terminal"
      PROVE  /\ Terminals(k)' = Terminals(k)
             /\ \A i \in Terminals(k) : journal'[k][i] = journal[k][i]
  <2>1. Terminals(k)' = {i \in 1..(Len(s) + 1) : journal'[k][i].type = "terminal"}
    BY <1>3 DEF Terminals
  <2>2. Terminals(k) = {i \in 1..Len(s) : s[i].type = "terminal"}
    BY <1>3 DEF Terminals, s
  <2>3. \A i \in 1..(Len(s) + 1) : i \in 1..Len(s) \/ i = Len(s) + 1
    BY <1>1
  <2>4. \A i \in 1..Len(s) : i \in 1..(Len(s) + 1)
    BY <1>1
  <2> QED
    BY <1>3, <1>7, <2>1, <2>2, <2>3, <2>4 DEF s
<1>8. ASSUME e.type = "terminal", Terminals(k) = {}
      PROVE  OneTerminal(k, e.outcome, e.reason)'
  <2>1. Terminals(k)' = {i \in 1..(Len(s) + 1) : journal'[k][i].type = "terminal"}
    BY <1>3 DEF Terminals
  <2>2. \A i \in 1..Len(s) : s[i].type # "terminal"
    BY <1>3, <1>8 DEF Terminals, s
  <2>3. \A i \in 1..(Len(s) + 1) : i \in 1..Len(s) \/ i = Len(s) + 1
    BY <1>1
  <2>4. Len(s) + 1 \in 1..(Len(s) + 1)
    BY <1>1
  <2>5. Terminals(k)' = {Len(s) + 1}
    BY <1>3, <1>8, <2>1, <2>2, <2>3, <2>4
  <2> QED
    BY <1>3, <2>5 DEF OneTerminal
<1> QED
  BY <1>2, <1>6, <1>7, <1>8

\* One turn moves, alone: the other rows stay as they are.
LEMMA OneMoves ==
  ASSUME SerialInv, NEW t \in Turn, NEW c \in Conv,
         \A u \in Turn \ {t} : task'[u] = task[u] /\ ~InFlight(u),
         SweepIdle, sweep' = sweep,
         task'[t].conv = c, task[t].pc # "idle" => task[t].conv = c,
         \A d \in Conv \ {c} : SameTables(d),
         Halfway(t)', ~row'[c].closed => row'[c].reason = None,
         task'[t].pc \notin Ahead => Full(c)'
  PROVE  SerialInv'
<1>1. \A u \in Turn \ {t} : ~InFlight(u)' /\ task'[u].pc \in {"idle", "done"}
  BY DEF InFlight
<1>2. \A u \in Turn \ {t} : Halfway(u)'
  BY <1>1 DEF Halfway, Ahead
<1>3. SweepIdle'
  BY DEF SweepIdle
<1>4. \A d \in Conv : sweep'[d].pc # "journal"
  BY <1>3 DEF SweepIdle, Key
<1>5. ASSUME NEW d \in Conv \ {c}
      PROVE  Full(d)' /\ (~row'[d].closed => row'[d].reason = None)
  <2>1. ~AheadOf(d)
    <3>1. \A u \in Turn \ {t} : task[u].pc \notin Ahead
      BY DEF InFlight, Ahead
    <3>2. task[t].pc \in Ahead => task[t].conv = c
      BY DEF Ahead
    <3> QED
      BY <3>1, <3>2 DEF AheadOf
  <2>2. d \in Key /\ sweep[d].pc # "journal"
    BY DEF SweepIdle, Key
  <2>3. Full(d)
    BY <2>1, <2>2 DEF SerialInv
  <2>4. SameTables(d)
    OBVIOUS
  <2>5. Full(d)'
    BY <2>2, <2>3, <2>4, FullKept
  <2>6. ~row'[d].closed => row'[d].reason = None
    BY <2>4 DEF SerialInv, SameTables
  <2> QED
    BY <2>5, <2>6
<1>6. ~AheadOf(c)' => Full(c)'
  BY DEF AheadOf
<1>7. \A u, v \in Turn : InFlight(u)' /\ InFlight(v)' => u = v
  BY <1>1
<1>8. \A u \in Turn : Halfway(u)'
  BY <1>2
<1>9. /\ \A d \in Conv : ~row'[d].closed => row'[d].reason = None
      /\ \A d \in Conv : sweep'[d].pc # "journal" /\ ~AheadOf(d)' => Full(d)'
  BY <1>5, <1>6
<1> QED
  BY <1>3, <1>4, <1>7, <1>8, <1>9 DEF SerialInv

\* Where a turn is that moves alone.
LEMMA Alone ==
  ASSUME SerialInv, ConvKnown, NEW t \in Turn, InFlight(t)
  PROVE  /\ SweepIdle /\ task[t].conv \in Conv /\ task[t].conv \in Key /\ Halfway(t)
         /\ \A u \in Turn \ {t} : ~InFlight(u)
         /\ \A c \in Conv : c # task[t].conv \/ task[t].pc \notin Ahead => Full(c)
<1>1. SweepIdle /\ Halfway(t) /\ \A u \in Turn \ {t} : ~InFlight(u)
  BY DEF SerialInv
<1>2. task[t].conv \in Conv /\ task[t].conv \in Key
  BY DEF ConvKnown, InFlight, Key
<1>3. ASSUME NEW c \in Conv, c # task[t].conv \/ task[t].pc \notin Ahead
      PROVE  Full(c)
  <2>1. ~AheadOf(c)
    BY <1>1, <1>3 DEF AheadOf, InFlight, Ahead
  <2>2. sweep[c].pc # "journal"
    BY <1>1 DEF SweepIdle, Key
  <2> QED
    BY <2>1, <2>2 DEF SerialInv
<1> QED
  BY <1>1, <1>2, <1>3

\* One turn moves, alone, without touching what the journal and the rows say.
LEMMA OneMovesPlainly ==
  ASSUME SerialInv, NEW t \in Turn, NEW c \in Conv,
         \A u \in Turn \ {t} : task'[u] = task[u] /\ ~InFlight(u),
         SweepIdle, sweep' = sweep,
         task'[t].conv = c, task[t].pc # "idle" => task[t].conv = c,
         \A d \in Conv : SameTables(d), Full(c),
         task'[t].pc \in {"commitUpsert", "commitEvent", "read", "snapshot", "done"}
  PROVE  SerialInv'
<1>1. Halfway(t)'
  BY DEF Halfway, Ahead
<1>2. Full(c)'
  <2>1. c \in Key /\ SameTables(c)
    BY DEF Key
  <2> QED
    BY <2>1, FullKept
<1>3. ~row'[c].closed => row'[c].reason = None
  BY DEF SerialInv, SameTables
<1> QED
  BY <1>1, <1>2, <1>3, OneMoves

\* Nothing starts while a turn or the sweep is under way.
LEMMA TurnSerial ==
  ASSUME Inv, SerialInv, ~Overlap, NEW t \in Turn, NEW c \in Conv, TurnStep(t, c)
  PROVE  SerialInv'
<1>1. /\ TypeOK /\ ConvKnown /\ task[t].pc = "idle" /\ Quiet /\ SweepIdle
      /\ row' = row /\ journal' = journal /\ sweep' = sweep
  BY DEF TurnStep, TurnCanned, TurnGenerated, TurnCommits, TurnRefusesDate, CanStart, Inv
<1>2. /\ task'[t].conv = c /\ task'[t].pc \in {"read", "commitUpsert"}
      /\ \A u \in Turn \ {t} : task'[u] = task[u]
  <2>1. CASE TurnCanned(t, c)
    <3>1. PICK i \in Intent, escalated \in BOOLEAN : Answer(t, c, i, escalated, FALSE)
      BY <2>1 DEF TurnCanned
    <3>2. /\ task'[t] = Answered(c, i, escalated, FALSE)
          /\ \A u \in Turn \ {t} : task'[u] = task[u]
      BY <1>1, <3>1, AnswerType
    <3> QED
      BY <3>2 DEF Answered
  <2>2. CASE TurnGenerated(t, c)
    <3>1. PICK escalated \in BOOLEAN : Answer(t, c, None, escalated, FALSE)
      BY <2>2 DEF TurnGenerated
    <3>2. /\ task'[t] = Answered(c, None, escalated, FALSE)
          /\ \A u \in Turn \ {t} : task'[u] = task[u]
      BY <1>1, <3>1, AnswerType
    <3> QED
      BY <3>2 DEF Answered
  <2>3. CASE TurnCommits(t, c)
    <3>1. task' = [task EXCEPT ![t] = [Idle EXCEPT !.pc = "commitUpsert", !.conv = c]]
      BY <2>3 DEF TurnCommits
    <3> QED
      BY <1>1, <3>1 DEF TypeOK, Idle
  <2>4. CASE TurnRefusesDate(t, c)
    <3>1. /\ \E escalated \in BOOLEAN :
               task'[t] = Answered(c, HandoffIntent, escalated, FALSE)
          /\ \A u \in Turn \ {t} : task'[u] = task[u]
      BY <1>1, <2>4, EscalatingType DEF TurnRefusesDate
    <3> QED
      BY <3>1 DEF Answered
  <2> QED
    BY <2>1, <2>2, <2>3, <2>4 DEF TurnStep
<1>3. \A u \in Turn : ~InFlight(u)
  BY <1>1 DEF Quiet
<1>4. Full(c)
  <2>1. ~AheadOf(c)
    BY <1>3 DEF AheadOf, InFlight, Ahead
  <2>2. sweep[c].pc # "journal"
    BY <1>1 DEF SweepIdle, Key
  <2> QED
    BY <2>1, <2>2 DEF SerialInv
<1>5. \A d \in Conv : SameTables(d)
  BY <1>1 DEF SameTables
<1> QED
  BY <1>1, <1>2, <1>3, <1>4, <1>5, OneMovesPlainly

\* register_commitment writes under the id "", which is no conversation's.
LEMMA CommitSerial ==
  ASSUME Inv, SerialInv, ~Faults, NEW t \in Turn, CommitStep(t)
  PROVE  SerialInv'
<1> DEFINE c == task[t].conv
<1>1. /\ TypeOK /\ ConvKnown /\ task[t].pc \in {"commitUpsert", "commitEvent"}
      /\ CommitUpsert(t) \/ CommitEvent(t)
      /\ sweep' = sweep /\ InFlight(t)
  BY DEF CommitStep, CommitUpsert, CommitEvent, CommitFails, Inv, InFlight
<1>2. /\ SweepIdle /\ c \in Conv /\ \A u \in Turn \ {t} : ~InFlight(u)
      /\ Full(c)
  BY <1>1, Alone DEF Ahead
<1>3. NoId \in Key /\ \A d \in Conv : d \in Key \ {NoId}
  BY GestionAssumption DEF Key
<1>4. \A d \in Conv : SameTables(d)
  <2>1. CASE CommitUpsert(t)
    <3>1. CommitFields(t) \in Fields /\ upsert_gestion(NoId, CommitFields(t)) /\ journal' = journal
      BY <1>1, <2>1, FieldsType DEF CommitUpsert
    <3>2. \A d \in Key \ {NoId} : row'[d] = row[d]
      BY <1>1, <1>3, <3>1, UpsertEffect
    <3> QED
      BY <1>3, <3>1, <3>2 DEF SameTables
  <2>2. CASE CommitEvent(t)
    <3> DEFINE e == [type |-> "commitment", cap |-> None, outcome |-> None, reason |-> None,
                     by |-> c]
    <3>1. append_gestion_event(NoId, e) /\ row' = row
      BY <2>2 DEF CommitEvent
    <3>2. \A d \in Key \ {NoId} : journal'[d] = journal[d]
      BY <1>1, <1>3, <3>1 DEF append_gestion_event, TypeOK
    <3> QED
      BY <1>3, <3>1, <3>2 DEF SameTables
  <2> QED
    BY <1>1, <2>1, <2>2
<1>5. /\ task'[t].conv = c /\ task'[t].pc \in {"commitEvent", "read"}
      /\ \A u \in Turn \ {t} : task'[u] = task[u]
  <2>1. CASE CommitUpsert(t)
    <3>1. Goto(t, "commitEvent") /\ "commitEvent" \in PC /\ task[t].pc # "idle"
      BY <1>1, <2>1 DEF CommitUpsert, PC
    <3> QED
      BY <1>1, <3>1, GotoKeeps
  <2>2. CASE CommitEvent(t)
    <3>1. Answer(t, c, None, FALSE, TRUE)
      BY <2>2 DEF CommitEvent
    <3>2. /\ task'[t] = Answered(c, None, FALSE, TRUE)
          /\ \A u \in Turn \ {t} : task'[u] = task[u]
      BY <1>1, <1>2, <3>1, AnswerType
    <3> QED
      BY <3>2 DEF Answered
  <2> QED
    BY <1>1, <2>1, <2>2
<1> QED
  BY <1>1, <1>2, <1>4, <1>5, OneMovesPlainly

-----------------------------------------------------------------------------
(* The hook, alone. *)

\* The hook reads a row that its journal explains.
LEMMA ReadSerial ==
  ASSUME Inv, SerialInv, NEW t \in Turn, NEW c \in Conv, task[t].conv = c, HookReads(t)
  PROVE  SerialInv'
<1> DEFINE r == row[c]
           known == [task[t] EXCEPT !.closed = AlreadyClosed(r), !.caps = NewCaps(t, r),
                                    !.pc = AfterRead(t, AlreadyClosed(r))]
<1>1. /\ TypeOK /\ ConvKnown /\ task[t].pc = "read" /\ InFlight(t) /\ task[t] \in Task
      /\ row' = row /\ journal' = journal /\ sweep' = sweep
  BY DEF HookReads, Inv, InFlight, TypeOK
<1>2. /\ SweepIdle /\ c \in Key /\ \A u \in Turn \ {t} : ~InFlight(u)
      /\ Full(c)
  BY <1>1, Alone DEF Ahead
<1>3. \A d \in Conv : SameTables(d)
  BY <1>1 DEF SameTables
<1>4. Full(c)'
  BY <1>2, <1>3, FullKept
<1>5. CASE ~HookHasPool
  <2>1. /\ task'[t] = [task[t] EXCEPT !.pc = "done"]
        /\ \A u \in Turn \ {t} : task'[u] = task[u]
    BY <1>1, <1>5 DEF HookReads, TypeOK
  <2>2. task'[t].conv = c /\ task'[t].pc = "done"
    BY <1>1, <2>1 DEF Task
  <2> QED
    BY <1>1, <1>2, <1>3, <2>1, <2>2, OneMovesPlainly
<1>6. CASE HookHasPool
  <2>1. task'[t] = known /\ \A u \in Turn \ {t} : task'[u] = task[u]
    BY <1>1, <1>6 DEF HookReads, TypeOK
  <2>2. /\ task'[t].conv = c /\ task'[t].closed = AlreadyClosed(r)
        /\ task'[t].caps = NewCaps(t, r) /\ task'[t].pc = AfterRead(t, AlreadyClosed(r))
        /\ task'[t].intent = task[t].intent /\ task'[t].escalated = task[t].escalated
    BY <1>1, <2>1 DEF Task
  <2>3. /\ Bind(t)' = Bind(t) /\ Verdict(t)' = Verdict(t) /\ Terminal(t)' = Terminal(t)
    BY <2>2, SameVerdict
  <2>4. Closes(t)' <=> Terminal(t) /\ ~row[c].closed
    BY <2>2, <2>3 DEF Closes, AlreadyClosed
  <2>5. Halfway(t)'
    <3>1. CASE Bind(t).capability # None
      BY <1>1, <1>4, <2>2, <2>3, <3>1 DEF Halfway, AfterRead, NewCaps, AlreadyClosed, Ahead
    <3>2. CASE Bind(t).capability = None
      <4>1. /\ task'[t].caps = row[c].caps
            /\ task'[t].pc = AfterCapability(t, AlreadyClosed(r))
        BY <2>2, <3>2 DEF NewCaps, AfterRead
      <4>2. task'[t].pc \in {"terminal", "merge"} /\ (task'[t].pc = "terminal" <=> Closes(t)')
        BY <2>4, <4>1 DEF AfterCapability, AlreadyClosed
      <4>3. CapsAre(c, row[c].caps)' /\ Explained(c)'
        BY <1>4 DEF Full
      <4>4. Closes(t)' => Terminals(c)' = {}
        BY <1>1, <2>4, <4>3 DEF Explained
      <4> QED
        BY <1>1, <2>2, <2>3, <4>1, <4>2, <4>3, <4>4 DEF Halfway, AlreadyClosed
    <3> QED
      BY <3>1, <3>2
  <2>6. ~row'[c].closed => row'[c].reason = None
    BY <1>1, <1>2 DEF SerialInv
  <2> QED
    BY <1>1, <1>2, <1>3, <1>4, <2>1, <2>2, <2>5, <2>6, OneMoves
<1> QED
  BY <1>5, <1>6

\* The capability event puts the journal ahead of the row by that capability.
LEMMA JournalsCapabilitySerial ==
  ASSUME Inv, SerialInv, NEW t \in Turn, NEW c \in Conv, task[t].conv = c,
         HookJournalsCapability(t)
  PROVE  SerialInv'
<1> DEFINE e == [type |-> "capability_used", cap |-> Bind(t).capability, outcome |-> None,
                 reason |-> None, by |-> None]
           pc == AfterCapability(t, task[t].closed)
<1>1. /\ TypeOK /\ ConvKnown /\ task[t].pc = "capEvent" /\ InFlight(t) /\ task[t] \in Task
      /\ row' = row /\ sweep' = sweep /\ Bind(t) \in BindingRecord
      /\ append_gestion_event(c, e) /\ Goto(t, pc)
  BY TaskVerdict DEF HookJournalsCapability, Inv, InFlight, TypeOK
<1>2. /\ SweepIdle /\ c \in Key /\ \A u \in Turn \ {t} : ~InFlight(u)
      /\ Full(c) /\ Halfway(t)
  BY <1>1, Alone DEF Ahead
<1>3. e \in Event /\ pc \in PC /\ pc \in {"terminal", "merge"}
      /\ (pc = "terminal" <=> Closes(t))
  BY <1>1 DEF Event, EventType, BindingRecord, AfterCapability, PC, Closes, Task
<1>4. /\ \A d \in Key \ {c} : journal'[d] = journal[d]
      /\ \A x : UseJournalled(c, x)' <=> UseJournalled(c, x) \/ Bind(t).capability = x
      /\ Terminals(c)' = Terminals(c)
      /\ \A i \in Terminals(c) : journal'[c][i] = journal[c][i]
  BY <1>1, <1>2, <1>3, EventAdded
<1>5. /\ task'[t].pc = pc /\ task'[t].conv = c /\ task'[t].caps = task[t].caps
      /\ task'[t].closed = task[t].closed /\ Closes(t)' = Closes(t)
      /\ \A u \in Turn \ {t} : task'[u] = task[u]
  BY <1>1, <1>3, GotoKeeps
<1>6. \A d \in Conv \ {c} : SameTables(d)
  BY <1>1, <1>4 DEF SameTables, Key
<1>7. /\ task[t].caps = row[c].caps \cup {Bind(t).capability}
      /\ task[t].closed = row[c].closed
  BY <1>1, <1>2 DEF Halfway
<1>8. CapsAre(c, task[t].caps)'
  BY <1>2, <1>4, <1>5, <1>7 DEF CapsAre, Full
<1>9. Explained(c)'
  BY <1>1, <1>2, <1>4 DEF Full, Explained, OneTerminal
<1>10. Closes(t) => Terminals(c)' = {}
  BY <1>2, <1>4, <1>7 DEF Full, Explained, Closes
<1>11. Halfway(t)'
  BY <1>1, <1>3, <1>5, <1>7, <1>8, <1>9, <1>10 DEF Halfway
<1>12. ~row'[c].closed => row'[c].reason = None
  BY <1>1 DEF SerialInv
<1>13. task'[t].pc \in Ahead
  BY <1>3, <1>5 DEF Ahead
<1> QED
  BY <1>1, <1>2, <1>5, <1>6, <1>11, <1>12, <1>13, OneMoves

\* What is known of a conversation whose hook is between its last event and its upsert.
LEMMA HalfwayAhead ==
  ASSUME SerialInv, NEW t \in Turn, NEW c \in Conv, task[t].conv = c, task[t].pc \in Ahead
  PROVE  /\ task[t].closed = row[c].closed
         /\ CapsAre(c, task[t].caps)
         /\ row[c].caps \subseteq task[t].caps
         /\ task[t].pc = "terminal" => Closes(t) /\ Terminals(c) = {}
         /\ task[t].pc # "terminal" =>
              IF Closes(t) THEN OneTerminal(c, Verdict(t).outcome, Verdict(t).reason)
                           ELSE Explained(c)
<1>1. Halfway(t)
  BY DEF SerialInv
<1>2. task[t].closed = row[c].closed /\ row[c].caps \subseteq task[t].caps
  BY <1>1 DEF Halfway
<1>3. CapsAre(c, task[t].caps)
  BY <1>1 DEF Halfway
<1>4. task[t].pc = "terminal" => Closes(t) /\ Terminals(c) = {}
  BY <1>1 DEF Halfway
<1>5. task[t].pc # "terminal" =>
        IF Closes(t) THEN OneTerminal(c, Verdict(t).outcome, Verdict(t).reason)
                     ELSE Explained(c)
  BY <1>1 DEF Halfway, Ahead
<1> QED
  BY <1>2, <1>3, <1>4, <1>5

\* The terminal event puts the journal ahead of the row by that verdict.
LEMMA JournalsTerminalSerial ==
  ASSUME Inv, SerialInv, NEW t \in Turn, NEW c \in Conv, task[t].conv = c,
         HookJournalsTerminal(t)
  PROVE  SerialInv'
<1> DEFINE e == [type |-> "terminal", cap |-> Bind(t).capability,
                 outcome |-> Verdict(t).outcome, reason |-> Verdict(t).reason, by |-> None]
<1>1. /\ TypeOK /\ ConvKnown /\ task[t].pc = "terminal" /\ InFlight(t) /\ task[t] \in Task
      /\ row' = row /\ sweep' = sweep /\ Bind(t) \in BindingRecord
      /\ append_gestion_event(c, e) /\ Goto(t, "merge") /\ task[t].pc \in Ahead
  BY TaskVerdict DEF HookJournalsTerminal, Inv, InFlight, TypeOK, Ahead
<1>2. /\ SweepIdle /\ c \in Key /\ \A u \in Turn \ {t} : ~InFlight(u) /\ Halfway(t)
  BY <1>1, Alone
<1>3. e \in Event /\ "merge" \in PC
  BY <1>1, TaskVerdict DEF Event, EventType, BindingRecord, PC
<1>4. /\ Terminals(c) = {} /\ Closes(t) /\ task[t].closed = row[c].closed
      /\ CapsAre(c, task[t].caps) /\ row[c].caps \subseteq task[t].caps
  BY <1>1, HalfwayAhead
<1>5. /\ task'[t].pc = "merge" /\ task'[t].conv = c /\ task'[t].caps = task[t].caps
      /\ task'[t].closed = task[t].closed /\ Closes(t)' = Closes(t)
      /\ Verdict(t)' = Verdict(t) /\ \A u \in Turn \ {t} : task'[u] = task[u]
  BY <1>1, <1>3, GotoKeeps
<1>6. /\ \A d \in Key \ {c} : journal'[d] = journal[d]
      /\ \A x : UseJournalled(c, x)' <=> UseJournalled(c, x)
      /\ OneTerminal(c, Verdict(t).outcome, Verdict(t).reason)'
  <2>1. PICK a : a = e
    OBVIOUS
  <2>2. a \in Event /\ append_gestion_event(c, a) /\ a.type = "terminal"
        /\ a.outcome = Verdict(t).outcome /\ a.reason = Verdict(t).reason
    BY <1>1, <1>3, <2>1
  <2>3. /\ \A d \in Key \ {c} : journal'[d] = journal[d]
        /\ \A x : UseJournalled(c, x)' <=> UseJournalled(c, x)
        /\ OneTerminal(c, a.outcome, a.reason)'
    BY <1>1, <1>2, <1>4, <2>2, EventAdded
  <2> QED
    BY <1>5, <2>2, <2>3
<1>7. \A d \in Conv \ {c} : SameTables(d)
  BY <1>1, <1>6 DEF SameTables, Key
<1>8. CapsAre(c, task[t].caps)'
  BY <1>4, <1>5, <1>6 DEF CapsAre
<1>9. Halfway(t)'
  BY <1>1, <1>4, <1>5, <1>6, <1>8 DEF Halfway
<1>10. ~row'[c].closed => row'[c].reason = None
  BY <1>1 DEF SerialInv
<1>11. task'[t].pc \in Ahead
  BY <1>5 DEF Ahead
<1> QED
  BY <1>1, <1>2, <1>5, <1>7, <1>9, <1>10, <1>11, OneMoves

\* Nothing was stored since the hook's read, so the merge adds nothing.
LEMMA MergesSerial ==
  ASSUME Inv, SerialInv, NEW t \in Turn, NEW c \in Conv, task[t].conv = c,
         HookMergesCapabilities(t)
  PROVE  SerialInv'
<1> DEFINE merged == IF task[t].caps = {} THEN {} ELSE task[t].caps \cup row[c].caps
<1>1. /\ TypeOK /\ ConvKnown /\ task[t].pc = "merge" /\ InFlight(t) /\ task[t] \in Task
      /\ row' = row /\ journal' = journal /\ sweep' = sweep /\ task[t].pc \in Ahead
      /\ task' = [task EXCEPT ![t] = [task[t] EXCEPT !.pc = "upsert", !.caps = merged]]
  BY DEF HookMergesCapabilities, Inv, InFlight, TypeOK, Ahead
<1>2. /\ SweepIdle /\ c \in Key /\ \A u \in Turn \ {t} : ~InFlight(u) /\ Halfway(t)
  BY <1>1, Alone
<1>3. /\ task[t].closed = row[c].closed /\ CapsAre(c, task[t].caps)
      /\ row[c].caps \subseteq task[t].caps
      /\ IF Closes(t) THEN OneTerminal(c, Verdict(t).outcome, Verdict(t).reason)
                      ELSE Explained(c)
  BY <1>1, HalfwayAhead
<1>4. merged = task[t].caps
  BY <1>3
<1>5. /\ task'[t] = [task[t] EXCEPT !.pc = "upsert", !.caps = merged]
      /\ \A u \in Turn \ {t} : task'[u] = task[u]
  BY <1>1 DEF TypeOK
<1>6. /\ task'[t].pc = "upsert" /\ task'[t].caps = task[t].caps /\ task'[t].conv = c
      /\ task'[t].intent = task[t].intent /\ task'[t].escalated = task[t].escalated
      /\ task'[t].closed = task[t].closed
  <2>1. /\ task'[t].pc = "upsert" /\ task'[t].caps = merged /\ task'[t].conv = c
        /\ task'[t].intent = task[t].intent /\ task'[t].escalated = task[t].escalated
        /\ task'[t].closed = task[t].closed
    <3>1. task[t] \in Task /\ task[t].conv = c
      BY <1>1
    <3> HIDE DEF merged
    <3> QED
      BY <1>5, <3>1 DEF Task
  <2> QED
    BY <1>4, <2>1
<1>7. Bind(t)' = Bind(t) /\ Verdict(t)' = Verdict(t) /\ Closes(t)' = Closes(t)
  BY <1>6, SameVerdict DEF Closes
<1>8. \A d \in Conv : SameTables(d)
  BY <1>1 DEF SameTables
<1>9. /\ \A x : UseJournalled(c, x)' <=> UseJournalled(c, x)
      /\ Terminals(c)' = Terminals(c) /\ \A i : journal'[c][i] = journal[c][i]
  BY <1>1, <1>2, SameJournal
<1>10. CapsAre(c, task[t].caps)'
  BY <1>3, <1>6, <1>9 DEF CapsAre
<1>11. IF Closes(t)' THEN OneTerminal(c, Verdict(t).outcome, Verdict(t).reason)'
                     ELSE Explained(c)'
  <2>1. CASE Closes(t)
    BY <1>3, <1>7, <1>9, <2>1 DEF OneTerminal
  <2>2. CASE ~Closes(t)
    BY <1>2, <1>3, <1>7, <1>8, <2>2, FullKept
  <2> QED
    BY <2>1, <2>2
<1>12. Halfway(t)'
  BY <1>1, <1>3, <1>6, <1>10, <1>11 DEF Halfway
<1>13. ~row'[c].closed => row'[c].reason = None
  BY <1>1 DEF SerialInv
<1>14. task'[t].pc \in Ahead
  BY <1>6 DEF Ahead
<1> QED
  BY <1>1, <1>2, <1>5, <1>6, <1>8, <1>12, <1>13, <1>14, OneMoves

\* The upsert brings the row up to the journal.
LEMMA UpsertSerial ==
  ASSUME Inv, SerialInv, NEW t \in Turn, NEW c \in Conv, task[t].conv = c, HookUpserts(t)
  PROVE  SerialInv'
<1>1. /\ TypeOK /\ ConvKnown /\ task[t].pc = "upsert" /\ InFlight(t)
      /\ journal' = journal /\ sweep' = sweep /\ task[t].pc \in Ahead
      /\ Goto(t, "snapshot") /\ "snapshot" \in PC
      /\ upsert_gestion(c, HookFields(t)) /\ HookFields(t) \in Fields /\ Closes(t) \in BOOLEAN
  BY FieldsType DEF HookUpserts, Inv, InFlight, Ahead, PC
<1>2. /\ SweepIdle /\ c \in Key /\ \A u \in Turn \ {t} : ~InFlight(u) /\ row[c] \in Row
  BY <1>1, Alone DEF TypeOK
<1>3. /\ task[t].closed = row[c].closed
      /\ CapsAre(c, task[t].caps)
      /\ row[c].caps \subseteq task[t].caps
      /\ IF Closes(t) THEN OneTerminal(c, Verdict(t).outcome, Verdict(t).reason)
                      ELSE Explained(c)
  BY <1>1, HalfwayAhead
<1>4. /\ \A k \in Key \ {c} : row'[k] = row[k]
      /\ row'[c].closed = (row[c].closed \/ Closes(t))
      /\ row'[c].outcome = IF row[c].outcome # None THEN row[c].outcome
                           ELSE IF Closes(t) THEN Verdict(t).outcome ELSE None
      /\ row'[c].reason = IF row[c].reason # None THEN row[c].reason
                          ELSE IF Closes(t) THEN Verdict(t).reason ELSE None
      /\ row'[c].caps = IF task[t].caps = {} THEN row[c].caps ELSE task[t].caps
  BY <1>1, <1>2, UpsertEffect DEF HookFields
<1>5. /\ task'[t].pc = "snapshot" /\ task'[t].conv = c
      /\ \A u \in Turn \ {t} : task'[u] = task[u]
  BY <1>1, GotoKeeps
<1>6. \A d \in Conv \ {c} : SameTables(d)
  BY <1>1, <1>4 DEF SameTables, Key
<1>7. /\ \A x : UseJournalled(c, x)' <=> UseJournalled(c, x)
      /\ Terminals(c)' = Terminals(c) /\ \A i : journal'[c][i] = journal[c][i]
  BY <1>1, <1>2, SameJournal
<1>8. row'[c].caps = task[t].caps
  BY <1>3, <1>4
<1>9. CapsAre(c, row[c].caps)'
  BY <1>3, <1>7, <1>8 DEF CapsAre
<1>10. /\ row[c].closed <=> row[c].outcome # None
       /\ ~row[c].closed => row[c].reason = None
  BY DEF Inv, VerdictIffClosed, SerialInv
<1>11. CASE Closes(t)
  <2>1. ~row[c].closed
    BY <1>3, <1>11 DEF Closes
  <2>2. /\ row'[c].closed /\ row'[c].outcome = Verdict(t).outcome
        /\ row'[c].reason = Verdict(t).reason
    BY <1>4, <1>10, <1>11, <2>1
  <2>3. Explained(c)'
    BY <1>3, <1>7, <1>11, <2>2 DEF Explained, OneTerminal
  <2>4. Full(c)' /\ (~row'[c].closed => row'[c].reason = None)
    BY <1>9, <2>2, <2>3 DEF Full
  <2>5. Halfway(t)'
    BY <1>5 DEF Halfway, Ahead
  <2> QED
    BY <1>1, <1>2, <1>5, <1>6, <2>4, <2>5, OneMoves
<1>12. CASE ~Closes(t)
  <2>1. row'[c].closed <=> row[c].closed
    BY <1>4, <1>12
  <2>2. row'[c].outcome = row[c].outcome /\ row'[c].reason = row[c].reason
    BY <1>4, <1>12
  <2>3. Explained(c)
    BY <1>3, <1>12
  <2>4. Explained(c)'
    BY <1>7, <2>1, <2>2, <2>3 DEF Explained, OneTerminal
  <2>5. ~row'[c].closed => row'[c].reason = None
    BY <1>10, <2>1, <2>2
  <2>6. Full(c)'
    BY <1>9, <2>4 DEF Full
  <2>7. Halfway(t)'
    BY <1>5 DEF Halfway, Ahead
  <2> QED
    BY <1>1, <1>2, <1>5, <1>6, <2>5, <2>6, <2>7, OneMoves
<1> QED
  BY <1>11, <1>12

\* The load into Doris ends the hook.
LEMMA ReplicatesSerial ==
  ASSUME Inv, SerialInv, NEW t \in Turn, HookReplicates(t)
  PROVE  SerialInv'
<1>1. /\ TypeOK /\ ConvKnown /\ task[t].pc = "snapshot" /\ InFlight(t)
      /\ row' = row /\ journal' = journal /\ sweep' = sweep
      /\ Goto(t, "done") /\ "done" \in PC
  BY DEF HookReplicates, Inv, InFlight, PC
<1>2. PICK c \in Conv : task[t].conv = c
  BY <1>1 DEF ConvKnown
<1>3. SweepIdle /\ Full(c) /\ \A u \in Turn \ {t} : ~InFlight(u)
  BY <1>1, <1>2, Alone DEF Ahead
<1>4. /\ task'[t].pc = "done" /\ task'[t].conv = c
      /\ \A u \in Turn \ {t} : task'[u] = task[u]
  BY <1>1, <1>2, GotoKeeps
<1>5. \A d \in Conv : SameTables(d)
  BY <1>1 DEF SameTables
<1> QED
  BY <1>1, <1>2, <1>3, <1>4, <1>5, OneMovesPlainly

\* Every statement of the hook, when none fails.
LEMMA HookSerial ==
  ASSUME Inv, SerialInv, ~Faults, NEW t \in Turn, HookStep(t)
  PROVE  SerialInv'
<1>1. task[t].pc # "idle" /\ ~HookFails(t)
  BY DEF HookStep, HookReads, HookJournalsCapability, HookJournalsTerminal,
         HookMergesCapabilities, HookUpserts, HookReplicates, HookFails
<1>2. PICK c \in Conv : task[t].conv = c
  BY <1>1 DEF Inv, ConvKnown
<1> QED
  BY <1>1, <1>2, ReadSerial, JournalsCapabilitySerial, JournalsTerminalSerial, MergesSerial,
     UpsertSerial, ReplicatesSerial DEF HookStep

-----------------------------------------------------------------------------
(* The sweep, while no turn is under way. *)

\* A step of nothing the journal is about.
LEMMA NothingMoves ==
  ASSUME Inv, SerialInv, \A d \in Key : SameTables(d),
         journal' = journal, task' = task, sweep' = sweep
  PROVE  SerialInv'
<1>1. journal' = journal /\ task' = task /\ sweep' = sweep /\ ConvKnown
  BY DEF Inv
<1>2. \A d \in Conv : SameTables(d) /\ d \in Key
  BY DEF Key
<1>3. ASSUME NEW t \in Turn PROVE Halfway(t)'
  <2>1. CASE task[t].pc \notin Ahead \cup {"capEvent"}
    BY <1>1, <2>1 DEF Halfway, Ahead
  <2>2. CASE task[t].pc \in Ahead \cup {"capEvent"}
    <3>1. PICK c \in Conv : task[t].conv = c
      BY <1>1, <2>2 DEF ConvKnown, Ahead
    <3>2. SameTables(c) /\ c \in Key
      BY <1>2
    <3>3. /\ \A x : UseJournalled(c, x)' <=> UseJournalled(c, x)
          /\ Terminals(c)' = Terminals(c) /\ \A i : journal'[c][i] = journal[c][i]
      BY <1>1, <3>2, SameJournal
    <3>4. row'[c].closed = row[c].closed /\ row'[c].caps = row[c].caps
      BY <3>2 DEF SameTables
    <3>5. Bind(t)' = Bind(t) /\ Verdict(t)' = Verdict(t) /\ Closes(t)' = Closes(t)
      BY <1>1, SameVerdict DEF Closes
    <3>6. CASE task[t].pc = "capEvent"
      <4>1. /\ Full(c) /\ task[t].closed = row[c].closed
            /\ Bind(t).capability # None
            /\ task[t].caps = row[c].caps \cup {Bind(t).capability}
        <5>1. Halfway(t)
          BY DEF SerialInv
        <5> QED
          BY <3>1, <3>6, <5>1 DEF Halfway
      <4>2. Full(c)'
        BY <3>2, <4>1, FullKept
      <4> QED
        BY <1>1, <3>1, <3>4, <3>5, <3>6, <4>1, <4>2 DEF Halfway, Ahead
    <3>7. CASE task[t].pc \in Ahead
      <4>1. /\ task[t].closed = row[c].closed
            /\ CapsAre(c, task[t].caps)
            /\ row[c].caps \subseteq task[t].caps
            /\ task[t].pc = "terminal" => Closes(t) /\ Terminals(c) = {}
            /\ task[t].pc # "terminal" =>
                 IF Closes(t) THEN OneTerminal(c, Verdict(t).outcome, Verdict(t).reason)
                              ELSE Explained(c)
        BY <3>1, <3>7, HalfwayAhead
      <4>2. CapsAre(c, task[t].caps)'
        BY <1>1, <3>3, <4>1 DEF CapsAre
      <4>3. task[t].pc # "terminal" =>
              IF Closes(t)' THEN OneTerminal(c, Verdict(t).outcome, Verdict(t).reason)'
                            ELSE Explained(c)'
        <5>1. CASE Closes(t)
          BY <3>3, <3>5, <4>1, <5>1 DEF OneTerminal
        <5>2. CASE ~Closes(t)
          BY <3>2, <3>5, <4>1, <5>2, FullKept
        <5> QED
          BY <5>1, <5>2
      <4>4. task[t].pc = "terminal" => Closes(t)' /\ Terminals(c)' = {}
        BY <3>3, <3>5, <4>1
      <4> QED
        BY <1>1, <3>1, <3>4, <3>7, <4>1, <4>2, <4>3, <4>4 DEF Halfway, Ahead
    <3> QED
      BY <2>2, <3>6, <3>7
  <2> QED
    BY <2>1, <2>2
<1>4. /\ \A t, u \in Turn : InFlight(t)' /\ InFlight(u)' => t = u
      /\ \A t \in Turn : InFlight(t)' => SweepIdle'
  BY <1>1 DEF SerialInv, InFlight, SweepIdle
<1>5. \A c \in Conv : ~row'[c].closed => row'[c].reason = None
  BY <1>2 DEF SerialInv, SameTables
<1>6. \A c \in Conv : SweptOnly(c) => SweptOnly(c)'
  BY <1>2, FullKept, SameJournal DEF SweptOnly, SameTables
<1>7. \A c \in Conv : sweep'[c].pc = "journal" => SweptOnly(c)'
  BY <1>1, <1>6 DEF SerialInv
<1>8. \A c \in Conv : sweep'[c].pc # "journal" /\ ~AheadOf(c)' => Full(c)'
  BY <1>1, <1>2, FullKept DEF SerialInv, AheadOf
<1> QED
  BY <1>3, <1>4, <1>5, <1>7, <1>8 DEF SerialInv

\* A row goes stale.
LEMMA ExpireSerial ==
  ASSUME Inv, SerialInv, NEW k \in Key, Expire(k)
  PROVE  SerialInv'
<1>1. /\ row \in [Key -> Row] /\ row' = [row EXCEPT ![k].stale = TRUE]
      /\ journal' = journal /\ task' = task /\ sweep' = sweep
  BY DEF Expire, Inv, TypeOK
<1>2. \A d \in Key : SameTables(d)
  BY <1>1 DEF SameTables, Row
<1> QED
  BY <1>1, <1>2, NothingMoves

\* The sweep moves while every turn is over or not begun.
LEMMA SweepMoves ==
  ASSUME task' = task, \A t \in Turn : ~InFlight(t),
         \A c \in Conv : ~row'[c].closed => row'[c].reason = None,
         \A c \in Conv : sweep'[c].pc = "journal" => SweptOnly(c)',
         \A c \in Conv : sweep'[c].pc # "journal" => Full(c)'
  PROVE  SerialInv'
<1>1. \A t \in Turn : ~InFlight(t)' /\ Halfway(t)'
  BY DEF InFlight, Halfway, Ahead
<1> QED
  BY <1>1 DEF SerialInv

\* Where the tables are while every turn is over or not begun.
LEMMA AtRest ==
  ASSUME SerialInv, \A t \in Turn : ~InFlight(t), NEW c \in Conv, sweep[c].pc # "journal"
  PROVE  Full(c)
BY DEF SerialInv, AheadOf, InFlight, Ahead

\* The UPDATE leaves the rows it closes ahead of their journals.
LEMMA SweepUpdateSerial ==
  ASSUME Inv, SerialInv, ~Overlap, SweepUpdate
  PROVE  SerialInv'
<1> DEFINE S == {k \in Key : Sweepable(k)}
<1>1. /\ row \in [Key -> Row] /\ SweepIdle /\ Quiet /\ journal' = journal /\ task' = task
      /\ row' = [k \in Key |->
                   IF k \in S THEN [row[k] EXCEPT !.outcome = "unresolved", !.closed = TRUE,
                                                  !.stale = FALSE]
                              ELSE row[k]]
      /\ sweep' = [k \in Key |-> IF k \in S THEN [pc |-> "journal", caps |-> row[k].caps]
                                            ELSE Unswept]
  BY DEF SweepUpdate, Inv, TypeOK
<1>2. \A t \in Turn : ~InFlight(t)
  BY <1>1 DEF Quiet
<1>3. ASSUME NEW c \in Conv
      PROVE  /\ c \in Key /\ Full(c) /\ row[c] \in Row
             /\ ~row[c].closed => row[c].reason = None
             /\ \A x : UseJournalled(c, x)' <=> UseJournalled(c, x)
             /\ Terminals(c)' = Terminals(c)
  <2>1. c \in Key /\ row[c] \in Row /\ sweep[c].pc # "journal"
    BY <1>1 DEF Key, SweepIdle
  <2>2. Full(c)
    BY <1>2, <2>1, AtRest
  <2>3. ~row[c].closed => row[c].reason = None
    BY DEF SerialInv
  <2>4. /\ \A x : UseJournalled(c, x)' <=> UseJournalled(c, x)
        /\ Terminals(c)' = Terminals(c)
    BY <1>1, <2>1, SameJournal
  <2> QED
    BY <2>1, <2>2, <2>3, <2>4
<1>4. ASSUME NEW c \in Conv, c \in S
      PROVE  SweptOnly(c)' /\ sweep'[c].pc = "journal"
  <2>1. ~row[c].closed /\ c \in Key /\ row[c] \in Row
    BY <1>3, <1>4 DEF Sweepable
  <2>2. row'[c] = [row[c] EXCEPT !.outcome = "unresolved", !.closed = TRUE, !.stale = FALSE]
    BY <1>1, <1>4
  <2>3. /\ row'[c].outcome = "unresolved" /\ row'[c].closed /\ row'[c].caps = row[c].caps
        /\ row'[c].reason = None
    BY <1>3, <2>1, <2>2 DEF Row
  <2>4. CapsAre(c, row[c].caps)'
    BY <1>3, <2>3 DEF CapsAre, Full
  <2>5. Terminals(c)' = {}
    BY <1>3, <2>1 DEF Full, Explained
  <2>6. sweep'[c].pc = "journal"
    BY <1>1, <1>4, <2>1
  <2> QED
    BY <2>3, <2>4, <2>5, <2>6 DEF SweptOnly
<1>5. ASSUME NEW c \in Conv, c \notin S
      PROVE  /\ Full(c)' /\ sweep'[c].pc # "journal"
             /\ (~row'[c].closed => row'[c].reason = None)
  <2>1. row'[c] = row[c] /\ sweep'[c] = Unswept /\ c \in Key
    BY <1>1, <1>3, <1>5
  <2>2. SameTables(c)
    BY <1>1, <2>1 DEF SameTables
  <2>3. Full(c)'
    BY <1>3, <2>1, <2>2, FullKept
  <2> QED
    BY <1>3, <2>1, <2>3 DEF Unswept
<1>6. /\ \A c \in Conv : ~row'[c].closed => row'[c].reason = None
      /\ \A c \in Conv : sweep'[c].pc = "journal" => SweptOnly(c)'
      /\ \A c \in Conv : sweep'[c].pc # "journal" => Full(c)'
  BY <1>4, <1>5 DEF SweptOnly
<1> QED
  BY <1>1, <1>2, <1>6, SweepMoves

\* The event of a swept row brings its journal level again.
LEMMA SweepJournalsSerial ==
  ASSUME Inv, SerialInv, NEW k \in Key, SweepJournals(k)
  PROVE  SerialInv'
<1> DEFINE e == [type |-> "terminal", cap |-> None, outcome |-> "unresolved",
                 reason |-> None, by |-> None]
<1>1. /\ TypeOK /\ row' = row /\ task' = task /\ sweep[k].pc = "journal"
      /\ sweep' = [sweep EXCEPT ![k].pc = "snapshot"] /\ append_gestion_event(k, e)
  BY DEF SweepJournals, SweepTurn, Inv
<1>2. \A t \in Turn : ~InFlight(t)
  BY <1>1 DEF SerialInv, SweepIdle
<1>3. e \in Event /\ e.type = "terminal" /\ e.outcome = "unresolved" /\ e.reason = None
  BY DEF Event, EventType, Outcome
<1>4. \A d \in Key \ {k} : journal'[d] = journal[d] /\ sweep'[d] = sweep[d]
  BY <1>1 DEF append_gestion_event, TypeOK
<1>5. sweep'[k].pc = "snapshot"
  BY <1>1 DEF TypeOK
<1>6. ASSUME NEW c \in Conv, c = k PROVE Full(c)'
  <2>1. SweptOnly(c)
    BY <1>1, <1>6 DEF SerialInv
  <2>2. /\ \A x : UseJournalled(c, x)' <=> UseJournalled(c, x)
        /\ OneTerminal(c, e.outcome, e.reason)'
    BY <1>1, <1>3, <1>6, <2>1, EventAdded DEF SweptOnly
  <2>3. CapsAre(c, row[c].caps)'
    BY <1>1, <2>1, <2>2 DEF CapsAre, SweptOnly
  <2>4. Explained(c)'
    BY <1>1, <2>1, <2>2 DEF Explained, SweptOnly
  <2> QED
    BY <2>3, <2>4 DEF Full
<1>7. ASSUME NEW c \in Conv, c # k
      PROVE  /\ sweep'[c].pc = "journal" => SweptOnly(c)'
             /\ sweep'[c].pc # "journal" => Full(c)'
  <2>1. c \in Key /\ SameTables(c) /\ sweep'[c] = sweep[c] /\ journal'[c] = journal[c]
    BY <1>1, <1>4, <1>7 DEF SameTables, Key
  <2>2. sweep[c].pc # "journal" => Full(c)
    BY <1>2, AtRest
  <2>3. sweep[c].pc = "journal" => SweptOnly(c)
    BY DEF SerialInv
  <2>4. SweptOnly(c) => SweptOnly(c)'
    BY <2>1, FullKept, SameJournal DEF SweptOnly, SameTables
  <2>5. Full(c) => Full(c)'
    BY <2>1, FullKept
  <2> QED
    BY <2>1, <2>2, <2>3, <2>4, <2>5
<1>8. \A c \in Conv : ~row'[c].closed => row'[c].reason = None
  BY <1>1 DEF SerialInv
<1>9. /\ \A c \in Conv : sweep'[c].pc = "journal" => SweptOnly(c)'
      /\ \A c \in Conv : sweep'[c].pc # "journal" => Full(c)'
  BY <1>5, <1>6, <1>7
<1> QED
  BY <1>1, <1>2, <1>8, <1>9, SweepMoves

\* The Doris row of a swept conversation changes neither table.
LEMMA SweepReplicatesSerial ==
  ASSUME Inv, SerialInv, NEW k \in Key, SweepReplicates(k)
  PROVE  SerialInv'
<1>1. /\ TypeOK /\ row' = row /\ task' = task /\ journal' = journal
      /\ sweep[k].pc = "snapshot" /\ sweep' = [sweep EXCEPT ![k] = Unswept]
  BY DEF SweepReplicates, Inv
<1>2. \A t \in Turn : ~InFlight(t)
  BY <1>1 DEF SerialInv, SweepIdle
<1>3. ASSUME NEW c \in Conv
      PROVE  /\ sweep'[c].pc = "journal" => SweptOnly(c)'
             /\ sweep'[c].pc # "journal" => Full(c)'
  <2>1. c \in Key /\ SameTables(c) /\ journal'[c] = journal[c]
    BY <1>1 DEF SameTables, Key
  <2>2. sweep'[c].pc = "journal" <=> sweep[c].pc = "journal"
    BY <1>1, <2>1 DEF TypeOK, Unswept
  <2>3. SweptOnly(c) => SweptOnly(c)'
    BY <2>1, FullKept, SameJournal DEF SweptOnly, SameTables
  <2>4. Full(c) => Full(c)'
    BY <2>1, FullKept
  <2>5. /\ sweep[c].pc = "journal" => SweptOnly(c)
        /\ sweep[c].pc # "journal" => Full(c)
    BY <1>2, AtRest DEF SerialInv
  <2> QED
    BY <2>2, <2>3, <2>4, <2>5
<1>4. \A c \in Conv : ~row'[c].closed => row'[c].reason = None
  BY <1>1 DEF SerialInv
<1> QED
  BY <1>1, <1>2, <1>3, <1>4, SweepMoves

-----------------------------------------------------------------------------
(* The theorem. *)

LEMMA SerialInit == Init => SerialInv
<1> SUFFICES ASSUME Init PROVE SerialInv
  OBVIOUS
<1>1. /\ \A t \in Turn : ~InFlight(t) /\ Halfway(t)
      /\ \A c \in Conv : c \in Key /\ row[c] = Absent /\ journal[c] = <<>> /\ sweep[c] = Unswept
  BY DEF Init, InFlight, Idle, Halfway, Ahead, Key
<1>2. ASSUME NEW c \in Conv PROVE Full(c)
  <2>1. Events[c] = {} /\ Terminals(c) = {}
    BY <1>1 DEF Events, Terminals
  <2>2. row[c].caps = {} /\ ~row[c].closed
    BY <1>1 DEF Absent
  <2> QED
    BY <2>1, <2>2 DEF Full, CapsAre, Explained, UseJournalled
<1> QED
  BY <1>1, <1>2 DEF SerialInv, Absent, Unswept

LEMMA SerialStep ==
  ASSUME ~Overlap, ~Faults
  PROVE  Inv /\ SerialInv /\ [Next]_vars => SerialInv'
<1> SUFFICES ASSUME Inv, SerialInv, [Next]_vars PROVE SerialInv'
  OBVIOUS
<1>1. CASE UNCHANGED vars
  <2>1. \A d \in Key : SameTables(d)
    BY <1>1 DEF vars, SameTables
  <2> QED
    BY <1>1, <2>1, NothingMoves DEF vars
<1>2. ~Restart /\ \A k \in Key : ~SweepRowFails(k)
  BY DEF Restart, SweepRowFails
<1> QED
  BY <1>1, <1>2, TurnSerial, CommitSerial, HookSerial, ExpireSerial, SweepUpdateSerial,
     SweepJournalsSerial, SweepReplicatesSerial DEF Next, SweepStep

\* When no turn, hook or sweep overlaps another and no statement fails, the journal of a
\* conversation rebuilds its row whenever nothing is under way: its capabilities are those
\* of the events, and its verdict, with the reason, that of the one terminal event.
THEOREM JournalRebuilds ==
  ASSUME ~Overlap, ~Faults
  PROVE  Spec => []JournalReplays
<1>1. Init => Inv /\ SerialInv
  BY InvInit, SerialInit
<1>2. Inv /\ SerialInv /\ [Next]_vars => Inv' /\ SerialInv'
  BY InvStep, SerialStep
<1>3. Inv /\ SerialInv => JournalReplays
  <2> SUFFICES ASSUME SerialInv, Quiet, SweepIdle, NEW c \in Conv
               PROVE  /\ row[c].caps =
                           {e.cap : e \in {x \in Events[c] : x.type = "capability_used"}}
                      /\ IF row[c].closed THEN OneTerminal(c, row[c].outcome, row[c].reason)
                                          ELSE Terminals(c) = {}
    BY DEF JournalReplays
  <2>1. Full(c)
    BY AtRest DEF Quiet, SweepIdle, Key
  <2>2. row[c].caps = {e.cap : e \in {x \in Events[c] : x.type = "capability_used"}}
    BY <2>1 DEF Full, CapsAre, UseJournalled
  <2> QED
    BY <2>1, <2>2 DEF Full, Explained
<1> QED
  BY <1>1, <1>2, <1>3, PTL DEF Spec

=============================================================================
