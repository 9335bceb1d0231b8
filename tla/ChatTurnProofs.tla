--------------------------- MODULE ChatTurnProofs ---------------------------
(***************************************************************************)
(* Theorems about ChatTurn, for any number of conversations and of turns,  *)
(* overlapping or not, with failing reads and writes and restarts.         *)
(***************************************************************************)
EXTENDS ChatTurn, SequenceTheorems, TLAPS

-----------------------------------------------------------------------------
(* The inductive invariant.  What it says of histories takes the turns as an argument, so  *)
(* that it can be said of the turns before and after a step.                                *)

TaskState ==
  [pc : PC, conv : Conv \cup {None}, object : Turn \cup {None}, payload : Seq(Entry),
   prompt : Seq(Entry), gate : BOOLEAN]

ObjectState == [history : Seq(Entry), verified : BOOLEAN]

\* What the daily limits look at.
Account ==
  /\ visitor \in [known : BOOLEAN, count : Nat, date : Nat]
  /\ spent \in [date : Nat, sum : Nat]
  /\ clock \in [server : Nat, database : Nat, utc : Nat]
  /\ tally \in [replies : Nat, lost : Nat, cost : Nat]

TypeCore ==
  /\ cache \in [Conv -> Turn \cup {None}]
  /\ object \in [Turn -> ObjectState]
  /\ stored \in [Conv -> Seq(Entry)]
  /\ task \in [Turn -> TaskState]
  /\ Account
  /\ proved \subseteq Conv
  /\ projected \in [Conv -> Nat]

\* The turn has not said anything yet, nor made an object.
Early == {"idle", "limit", "load", "readLoad"}

\* The turn works on an object.
Holding == {"saveUser", "visitor", "model", "saveReply"}

Begun(tk, t) == tk[t].pc \notin Early

Answered(tk, t) == tk[t].pc \in {"saveReply", "count", "project", "insert", "done"}

Has(h, e) == \E i \in 1..Len(h) : h[i] = e

\* Coherent, and of turns only that have come so far.
Clean(tk, h, c) ==
  /\ h \in Seq(Entry)
  /\ IsInjective(h)
  /\ \A i \in 1..Len(h) :
       /\ tk[h[i].turn].conv = c
       /\ Begun(tk, h[i].turn)
       /\ h[i].role = "assistant" =>
            Answered(tk, h[i].turn) /\ \E j \in 1..(i - 1) : h[j] = User(h[i].turn)

Histories ==
  /\ \A c \in Conv : Clean(task, stored[c], c)
  /\ \A t \in Turn : Clean(task, object[t].history, task[t].conv)
  /\ \A t \in Turn : Clean(task, task[t].payload, task[t].conv)

\* What a turn holds at each of its steps.
Shape(t) ==
  /\ task[t].pc = "idle" => task[t] = Idle
  /\ task[t].pc # "idle" => task[t].conv \in Conv
  /\ task[t].pc \in Early => object[t] = NoObject
  /\ task[t].pc \in Holding =>
       /\ task[t].object \in Turn
       /\ Begun(task, task[t].object)
       /\ task[task[t].object].conv = task[t].conv
  /\ task[t].pc \in Holding \ {"saveReply"} => Has(object[task[t].object].history, User(t))

CacheOK == \A c \in Conv : cache[c] # None => task[cache[c]].conv = c /\ Begun(task, cache[c])

\* The identity gate is open only where an identity was resolved.
Gates ==
  /\ \A c \in Conv : cache[c] # None /\ object[cache[c]].verified => c \in proved
  /\ \A t \in Turn : task[t].pc \in Holding /\ object[task[t].object].verified
                       => task[t].conv \in proved
  /\ \A t \in Turn : task[t].pc = "model" /\ task[t].gate => task[t].conv \in proved

IInv == TypeCore /\ Histories /\ (\A t \in Turn : Shape(t)) /\ CacheOK /\ Gates

USE ChatTurnAssumption

-----------------------------------------------------------------------------
(* Messages and histories. *)

LEMMA Messages ==
  ASSUME NEW t \in Turn
  PROVE  /\ User(t) \in Entry /\ User(t).turn = t /\ User(t).role = "user"
         /\ Assistant(t) \in Entry /\ Assistant(t).turn = t /\ Assistant(t).role = "assistant"
BY DEF User, Assistant, Entry

LEMMA EmptyClean ==
  ASSUME NEW tk, NEW c
  PROVE  Clean(tk, <<>>, c)
BY DEF Clean, IsInjective

\* A clean history stays clean while turns go on.
LEMMA CleanStays ==
  ASSUME NEW tk, NEW new,
         \A u \in Turn : Begun(tk, u) => /\ new[u].conv = tk[u].conv /\ Begun(new, u)
                                         /\ Answered(tk, u) => Answered(new, u),
         NEW h, NEW c, Clean(tk, h, c)
  PROVE  Clean(new, h, c)
<1>1. \A i \in 1..Len(h) : h[i].turn \in Turn
  <2>1. h \in Seq(Entry)
    BY DEF Clean
  <2>2. \A i \in 1..Len(h) : h[i] \in Entry
    BY <2>1, ElementOfSeq
  <2> QED BY <2>2 DEF Entry
<1> QED BY <1>1 DEF Clean

LEMMA KeepsClean ==
  ASSUME \A u \in Turn : Begun(task, u) => /\ task'[u].conv = task[u].conv /\ Begun(task', u)
                                           /\ Answered(task, u) => Answered(task', u)
  PROVE  \A h, c : Clean(task, h, c) => Clean(task', h, c)
BY CleanStays

\* What a turn appends is new to the history.
LEMMA Appended ==
  ASSUME NEW tk, NEW h, NEW c, NEW e \in Entry, Clean(tk, h, c), ~Has(h, e),
         tk[e.turn].conv = c, Begun(tk, e.turn),
         e.role = "assistant" => Answered(tk, e.turn) /\ Has(h, User(e.turn))
  PROVE  Clean(tk, Append(h, e), c)
<1> DEFINE g == Append(h, e)
<1>1. h \in Seq(Entry) /\ Len(h) \in Nat
  BY LenProperties DEF Clean
<1>2. /\ g \in Seq(Entry) /\ Len(g) = Len(h) + 1
      /\ \A i \in 1..Len(h) : g[i] = h[i]
      /\ g[Len(h) + 1] = e
  BY <1>1, AppendProperties
<1>3. DOMAIN g = 1..(Len(h) + 1) /\ DOMAIN h = 1..Len(h)
  BY <1>1, <1>2, LenProperties
<1> HIDE DEF g
<1>4. IsInjective(g)
  <2> SUFFICES ASSUME NEW a \in 1..(Len(h) + 1), NEW b \in 1..(Len(h) + 1), g[a] = g[b]
               PROVE  a = b
    BY <1>3 DEF IsInjective
  <2>1. CASE a \in 1..Len(h) /\ b \in 1..Len(h)
    BY <1>2, <1>3, <2>1 DEF Clean, IsInjective
  <2>2. CASE a = Len(h) + 1 /\ b \in 1..Len(h)
    BY <1>2, <2>2 DEF Has
  <2>3. CASE b = Len(h) + 1 /\ a \in 1..Len(h)
    BY <1>2, <2>3 DEF Has
  <2> QED BY <1>1, <2>1, <2>2, <2>3
<1>5. ASSUME NEW i \in 1..Len(g)
      PROVE  /\ tk[g[i].turn].conv = c
             /\ Begun(tk, g[i].turn)
             /\ g[i].role = "assistant" =>
                  Answered(tk, g[i].turn) /\ \E j \in 1..(i - 1) : g[j] = User(g[i].turn)
  <2>1. CASE i \in 1..Len(h)
    <3>1. /\ tk[h[i].turn].conv = c /\ Begun(tk, h[i].turn)
          /\ h[i].role = "assistant" =>
               Answered(tk, h[i].turn) /\ \E j \in 1..(i - 1) : h[j] = User(h[i].turn)
      BY <2>1 DEF Clean
    <3>2. g[i] = h[i] /\ \A j \in 1..(i - 1) : g[j] = h[j]
      BY <1>1, <1>2, <2>1
    <3> QED BY <3>1, <3>2
  <2>2. CASE i = Len(h) + 1
    BY <1>1, <1>2, <2>2 DEF Has
  <2> QED BY <1>1, <1>2, <2>1, <2>2
<1> QED BY <1>2, <1>4, <1>5 DEF Clean, g

\* What has been said stays said when more is said after it.
LEMMA HasAppended ==
  ASSUME NEW h \in Seq(Entry), NEW e \in Entry, NEW x, Has(h, x)
  PROVE  Has(Append(h, e), x)
BY AppendProperties, LenProperties DEF Has

\* A turn that has not begun has said nothing; one that has not answered, no reply.
LEMMA NothingYet ==
  ASSUME NEW tk, NEW h, NEW c, Clean(tk, h, c), NEW t \in Turn
  PROVE  /\ ~Begun(tk, t) => ~Has(h, User(t))
         /\ ~Answered(tk, t) => ~Has(h, Assistant(t))
BY Messages DEF Clean, Has

LEMMA FrontType ==
  ASSUME NEW h \in Seq(Entry)
  PROVE  Front(h) \in Seq(Entry)
<1>1. CASE h = <<>>
  BY <1>1, SubSeqEmpty, EmptySeq DEF Front
<1>2. CASE h # <<>>
  <2>1. Len(h) \in Nat \ {0}
    BY <1>2, EmptySeq, LenProperties
  <2>2. \A i \in 1..(Len(h) - 1) : h[i] \in Entry
    BY <2>1, ElementOfSeq
  <2> QED BY <2>1, <2>2, SubSeqProperties DEF Front
<1> QED BY <1>1, <1>2

-----------------------------------------------------------------------------
(* Steps.  A step of one turn leaves the others' locals alone, and what they and the       *)
(* histories say of it stays true.                                                          *)

\* The turn goes on, in its conversation, with its object or without one.
Goes(t) ==
  /\ task' = [task EXCEPT ![t] = task'[t]]
  /\ task'[t] \in TaskState
  /\ task[t].pc # "idle" /\ task'[t].pc # "idle"
  /\ task'[t].conv = task[t].conv
  /\ Begun(task, t) => Begun(task', t)
  /\ Answered(task, t) => Answered(task', t)

LEMMA GoesKeeps ==
  ASSUME NEW t \in Turn, TypeCore, \A u \in Turn : Shape(u), Goes(t)
  PROVE  /\ task' \in [Turn -> TaskState]
         /\ \A u \in Turn : u # t => task'[u] = task[u]
         /\ \A u \in Turn : Begun(task, u) =>
              /\ task'[u].conv = task[u].conv /\ Begun(task', u)
              /\ Answered(task, u) => Answered(task', u)
         /\ \A h, c : Clean(task, h, c) => Clean(task', h, c)
         /\ task'[t].conv = task[t].conv /\ task[t].conv \in Conv
<1>1. /\ task' \in [Turn -> TaskState]
      /\ \A u \in Turn : u # t => task'[u] = task[u]
  BY DEF TypeCore, Goes
<1>2. \A u \in Turn : Begun(task, u) =>
        /\ task'[u].conv = task[u].conv /\ Begun(task', u)
        /\ Answered(task, u) => Answered(task', u)
  BY <1>1 DEF Goes, Begun, Answered
<1>3. \A h, c : Clean(task, h, c) => Clean(task', h, c)
  BY <1>2, KeepsClean
<1> QED BY <1>1, <1>2, <1>3 DEF Goes, Shape

\* The cache keeps what it has.
LEMMA CacheStays ==
  ASSUME CacheOK, TypeCore, cache' = cache,
         \A u \in Turn : Begun(task, u) => task'[u].conv = task[u].conv /\ Begun(task', u)
  PROVE  CacheOK'
<1>1. \A c \in Conv : cache[c] \in Turn \cup {None}
  BY DEF TypeCore
<1> QED BY <1>1 DEF CacheOK

\* The other turns' shape: their objects are still there, with what they held.
LEMMA OthersShape ==
  ASSUME NEW t \in Turn, NEW u \in Turn, u # t, Shape(u), task'[u] = task[u],
         \A w \in Turn : Begun(task, w) => task'[w].conv = task[w].conv /\ Begun(task', w),
         task[u].pc \in Early => object'[u] = object[u],
         \A w \in Turn : \A x : Begun(task, w) /\ Has(object[w].history, x) => Has(object'[w].history, x)
  PROVE  Shape(u)'
<1>1. task[u].pc \in Holding =>
        /\ task[u].object \in Turn /\ Begun(task, task[u].object)
        /\ task[task[u].object].conv = task[u].conv
  BY DEF Shape
<1>2. task[u].pc \in Holding \ {"saveReply"} => Has(object[task[u].object].history, User(u))
  BY DEF Shape
<1>3. task[u].pc \in Holding \ {"saveReply"} => Has(object'[task[u].object].history, User(u))
  BY <1>1, <1>2
<1>4. task[u].pc \in Holding =>
        /\ Begun(task', task[u].object) /\ task'[task[u].object].conv = task[u].conv
  BY <1>1
<1> QED BY <1>1, <1>3, <1>4 DEF Shape

\* A step that changes no object.
LEMMA QuietStep ==
  ASSUME NEW t \in Turn, IInv, Goes(t), UNCHANGED <<cache, object, proved>>,
         task'[t].payload \in {task[t].payload, <<>>},
         task'[t].pc \in Holding =>
           /\ task'[t].object = task[t].object /\ task[t].pc \in Holding
           /\ task'[t].pc # "saveReply" => task[t].pc # "saveReply",
         task'[t].pc \in Early => task[t].pc \in Early,
         task'[t].pc # "model",
         \/ UNCHANGED stored
         \/ stored' = [stored EXCEPT ![task[t].conv] = task[t].payload],
         Account', (projected \in [Conv -> Nat])'
  PROVE  IInv'
<1> USE DEF IInv
<1>1. /\ task' \in [Turn -> TaskState]
      /\ \A u \in Turn : u # t => task'[u] = task[u]
      /\ \A u \in Turn : Begun(task, u) =>
           /\ task'[u].conv = task[u].conv /\ Begun(task', u)
           /\ Answered(task, u) => Answered(task', u)
      /\ \A h, c : Clean(task, h, c) => Clean(task', h, c)
      /\ task'[t].conv = task[t].conv /\ task[t].conv \in Conv
  BY GoesKeeps
<1>2. TypeCore'
  <2>1. stored' \in [Conv -> Seq(Entry)]
    <3>1. task[t].payload \in Seq(Entry) /\ stored \in [Conv -> Seq(Entry)]
      BY DEF TypeCore, TaskState
    <3> QED BY <1>1, <3>1
  <2> QED BY <1>1, <2>1 DEF TypeCore
<1>3. Histories'
  <2>1. \A c \in Conv : stored'[c] = stored[c] \/ (c = task[t].conv /\ stored'[c] = task[t].payload)
    BY <1>1 DEF TypeCore
  <2>2. \A c \in Conv : Clean(task', stored'[c], c)
    BY <1>1, <2>1 DEF Histories
  <2>3. \A u \in Turn : task'[u].conv = task[u].conv /\ task'[u].payload \in {task[u].payload, <<>>}
    BY <1>1
  <2>4. \A u \in Turn : Clean(task', object'[u].history, task'[u].conv)
    BY <1>1, <2>3 DEF Histories
  <2>5. \A u \in Turn : Clean(task', task'[u].payload, task'[u].conv)
    BY <1>1, <2>3, EmptyClean DEF Histories
  <2> QED BY <2>2, <2>4, <2>5 DEF Histories
<1>4. \A u \in Turn : Shape(u)'
  <2>1. ASSUME NEW u \in Turn, u # t PROVE Shape(u)'
    BY <1>1, <2>1, OthersShape
  <2>2. Shape(t)'
    BY <1>1 DEF Shape, Goes, Begun
  <2> QED BY <2>1, <2>2
<1>5. CacheOK'
  BY <1>1, CacheStays
<1>6. Gates'
  <2>1. \A u \in Turn : task'[u].pc \in Holding =>
          /\ task'[u].object = task[u].object /\ task[u].pc \in Holding
          /\ task'[u].conv = task[u].conv
    BY <1>1
  <2>2. \A u \in Turn : task'[u].pc = "model" => task'[u] = task[u]
    BY <1>1
  <2> QED BY <2>1, <2>2 DEF Gates
<1> QED BY <1>2, <1>3, <1>4, <1>5, <1>6

\* A turn or a history read starts.
LEMMA StartStep ==
  ASSUME NEW t \in Turn, NEW c \in Conv, NEW pc \in {"limit", "readLoad", "done"}, IInv,
         task[t].pc = "idle",
         task' = [task EXCEPT ![t] = [Idle EXCEPT !.pc = pc, !.conv = c]],
         UNCHANGED <<cache, object, stored, proved, projected>>, Account'
  PROVE  IInv'
<1> USE DEF IInv
<1>1. /\ [Idle EXCEPT !.pc = pc, !.conv = c] \in TaskState
      /\ task'[t] = [Idle EXCEPT !.pc = pc, !.conv = c]
      /\ task' \in [Turn -> TaskState]
      /\ \A u \in Turn : u # t => task'[u] = task[u]
      /\ task[t] = Idle /\ object[t] = NoObject
  BY EmptySeq DEF TypeCore, TaskState, Idle, PC, Shape, Early
<1>2. \A u \in Turn : Begun(task, u) =>
        /\ task'[u].conv = task[u].conv /\ Begun(task', u)
        /\ Answered(task, u) => Answered(task', u)
  <2>1. ASSUME NEW u \in Turn, Begun(task, u)
        PROVE  u # t
    BY <2>1 DEF Begun, Early
  <2>2. ASSUME NEW u \in Turn, u # t
        PROVE  task'[u].pc = task[u].pc /\ task'[u].conv = task[u].conv
    BY <1>1, <2>2
  <2> QED BY <2>1, <2>2 DEF Begun, Answered
<1>3. \A h, d : Clean(task, h, d) => Clean(task', h, d)
  BY <1>2, KeepsClean
<1>4. TypeCore'
  BY <1>1 DEF TypeCore
<1>5. Histories'
  <2>1. \A d \in Conv : Clean(task', stored'[d], d)
    BY <1>3 DEF Histories
  <2>2. Clean(task', object'[t].history, task'[t].conv) /\ Clean(task', task'[t].payload, task'[t].conv)
    BY <1>1, EmptyClean DEF NoObject, Idle
  <2>3. ASSUME NEW u \in Turn, u # t
        PROVE  Clean(task', object'[u].history, task'[u].conv) /\ Clean(task', task'[u].payload, task'[u].conv)
    BY <1>1, <1>3, <2>3 DEF Histories
  <2> QED BY <2>1, <2>2, <2>3 DEF Histories
<1>6. \A u \in Turn : Shape(u)'
  <2>1. ASSUME NEW u \in Turn, u # t PROVE Shape(u)'
    BY <1>1, <1>2, <2>1, OthersShape
  <2>2. Shape(t)'
    BY <1>1 DEF Shape, Early, Holding, Idle
  <2> QED BY <2>1, <2>2
<1>7. CacheOK'
  BY <1>2, CacheStays
<1>8. Gates'
  <2>1. \A u \in Turn : task'[u].pc \in Holding => u # t /\ task'[u] = task[u]
    BY <1>1 DEF Holding, Idle
  <2> QED BY <2>1 DEF Gates, Holding
<1> QED BY <1>4, <1>5, <1>6, <1>7, <1>8

\* A message e of turn t is appended to the history h that object o has, or is given now.
LEMMA SaidStep ==
  ASSUME NEW t \in Turn, NEW o \in Turn, NEW h, NEW e \in {User(t), Assistant(t)}, IInv,
         Said(t, o, h, e), UNCHANGED <<stored, proved, projected>>, Account',
         Clean(task, h, task[t].conv), task[t].pc \notin {"idle", "done"}, ~Answered(task, t),
         \/ o = t /\ task[t].pc = "load" /\ cache' = [cache EXCEPT ![task[t].conv] = t]
         \/ /\ Begun(task, o) /\ task[o].conv = task[t].conv /\ h = object[o].history
            /\ object[o].verified => task[t].conv \in proved
            /\ cache' = cache,
         e = User(t) => ~Begun(task, t),
         e = Assistant(t) => Has(h, User(t))
  PROVE  IInv'
<1> USE DEF IInv
<1> DEFINE g == Append(h, e)
<1>1. /\ h \in Seq(Entry) /\ e \in Entry /\ e.turn = t
      /\ g \in Seq(Entry)
      /\ \A x : Has(h, x) => Has(g, x)
      /\ Has(g, e)
  <2>1. h \in Seq(Entry) /\ e \in Entry /\ e.turn = t
    BY Messages DEF Clean
  <2>2. g \in Seq(Entry) /\ Len(g) = Len(h) + 1 /\ g[Len(h) + 1] = e /\ Len(h) \in Nat
    BY <2>1, AppendProperties, LenProperties
  <2>3. Has(g, e)
    BY <2>2 DEF Has
  <2> QED BY <2>1, <2>2, <2>3, HasAppended
<1>2. /\ task' = [task EXCEPT ![t].object = o, ![t].payload = g, ![t].prompt = <<>>,
                              ![t].pc = IF e.role = "user" THEN "saveUser" ELSE "saveReply"]
      /\ object' = [object EXCEPT ![o].history = g]
  BY DEF Said
<1> HIDE DEF g
<1>3. /\ task'[t] \in TaskState /\ task' = [task EXCEPT ![t] = task'[t]]
      /\ task'[t].object = o /\ task'[t].payload = g /\ task'[t].conv = task[t].conv
      /\ e.role = "user" => task'[t].pc = "saveUser"
      /\ e.role # "user" => task'[t].pc = "saveReply"
  <2>1. task \in [Turn -> TaskState] /\ task[t] \in TaskState
    BY DEF TypeCore
  <2>2. task'[t] = [task[t] EXCEPT !.object = o, !.payload = g, !.prompt = <<>>,
                                   !.pc = IF e.role = "user" THEN "saveUser" ELSE "saveReply"]
    BY <1>2, <2>1
  <2>3. task' = [task EXCEPT ![t] = task'[t]]
    BY <1>2, <2>1
  <2>4. /\ task'[t].object = o /\ task'[t].payload = g /\ task'[t].conv = task[t].conv
        /\ e.role = "user" => task'[t].pc = "saveUser"
        /\ e.role # "user" => task'[t].pc = "saveReply"
    BY <2>1, <2>2 DEF TaskState
  <2>5. task'[t] \in TaskState
    <3>1. <<>> \in Seq(Entry) /\ g \in Seq(Entry) /\ o \in Turn \cup {None}
      BY <1>1, EmptySeq
    <3>2. (IF e.role = "user" THEN "saveUser" ELSE "saveReply") \in PC
      BY DEF PC
    <3> HIDE DEF PC, IInv
    <3> QED BY <2>1, <2>2, <3>1, <3>2 DEF TaskState
  <2> QED BY <2>3, <2>4, <2>5
<1>4. Goes(t)
  BY <1>3 DEF Goes, Begun, Answered, Early
<1>5. /\ task' \in [Turn -> TaskState]
      /\ \A u \in Turn : u # t => task'[u] = task[u]
      /\ \A u \in Turn : Begun(task, u) =>
           /\ task'[u].conv = task[u].conv /\ Begun(task', u)
           /\ Answered(task, u) => Answered(task', u)
      /\ \A k, c : Clean(task, k, c) => Clean(task', k, c)
      /\ task[t].conv \in Conv
  BY <1>4, GoesKeeps
<1>6. Clean(task', g, task[t].conv)
  <2>1. ~Has(h, e)
    BY NothingYet, Messages
  <2>2. Begun(task', t) /\ (e.role = "assistant" => Answered(task', t) /\ Has(h, User(t)))
    BY <1>3, Messages DEF Begun, Early, Answered
  <2> QED BY <1>1, <1>3, <1>5, <2>1, <2>2, Appended DEF g
<1>7. /\ object' \in [Turn -> ObjectState]
      /\ object'[o] = [object[o] EXCEPT !.history = g]
      /\ object'[o].history = g /\ object'[o].verified = object[o].verified
      /\ \A u \in Turn : u # o => object'[u] = object[u]
  <2>1. object \in [Turn -> ObjectState] /\ object[o] \in ObjectState
    BY DEF TypeCore
  <2>2. object'[o] = [object[o] EXCEPT !.history = g] /\ \A u \in Turn : u # o => object'[u] = object[u]
    BY <1>2, <2>1
  <2>3. [object[o] EXCEPT !.history = g] \in ObjectState
    BY <1>1, <2>1 DEF ObjectState
  <2>4. object' \in [Turn -> ObjectState]
    BY <1>2, <2>1, <2>3
  <2> QED BY <2>1, <2>2, <2>4 DEF ObjectState
<1>8. TypeCore'
  BY <1>5, <1>7 DEF TypeCore
<1>9. Histories'
  <2>1. \A c \in Conv : Clean(task', stored'[c], c)
    BY <1>5 DEF Histories
  <2>2. task'[o].conv = task[t].conv
    BY <1>3, <1>5
  <2>3. \A u \in Turn : task'[u].conv = task[u].conv
    BY <1>3, <1>5
  <2>4. \A u \in Turn : Clean(task', object'[u].history, task'[u].conv)
    BY <1>5, <1>6, <1>7, <2>2, <2>3 DEF Histories
  <2>5. \A u \in Turn : Clean(task', task'[u].payload, task'[u].conv)
    BY <1>3, <1>5, <1>6, <2>3 DEF Histories
  <2> QED BY <2>1, <2>4, <2>5 DEF Histories
<1>10. Begun(task', o) /\ task'[o].conv = task[t].conv /\ Begun(task', t)
  BY <1>3, <1>5, Messages DEF Begun, Early
<1>11. \A u \in Turn : Shape(u)'
  <2>1. \A w \in Turn : \A x : Begun(task, w) /\ Has(object[w].history, x) => Has(object'[w].history, x)
    <3>1. CASE o = t /\ task[t].pc = "load"
      BY <1>7, <3>1 DEF Begun, Early
    <3>2. CASE h = object[o].history
      BY <1>1, <1>7, <3>2
    <3> QED BY <3>1, <3>2
  <2>2. ASSUME NEW u \in Turn, u # t PROVE Shape(u)'
    <3>1. task[u].pc \in Early => object'[u] = object[u]
      BY <1>7, <2>2 DEF Begun
    <3> QED BY <1>5, <2>1, <2>2, <3>1, OthersShape
  <2>3. Shape(t)'
    BY <1>1, <1>3, <1>5, <1>7, <1>10, Messages DEF Shape, Early, Holding
  <2> QED BY <2>2, <2>3
<1>12. CacheOK'
  <2>1. CASE cache' = cache
    BY <1>5, <2>1, CacheStays
  <2>2. CASE o = t /\ cache' = [cache EXCEPT ![task[t].conv] = t]
    BY <1>5, <1>10, <2>2 DEF CacheOK, TypeCore
  <2> QED BY <2>1, <2>2
<1>13. Gates'
  <2>1. object[o].verified => task[t].conv \in proved
    BY DEF Shape, Early, NoObject
  <2>2. \A u \in Turn : object'[u].verified = object[u].verified
    BY <1>7
  <2>3. \A c \in Conv : cache'[c] # None /\ object'[cache'[c]].verified => c \in proved'
    <3>1. CASE cache' = cache
      BY <2>2, <3>1 DEF Gates, TypeCore
    <3>2. CASE o = t /\ cache' = [cache EXCEPT ![task[t].conv] = t]
      BY <2>1, <2>2, <3>2 DEF Gates, TypeCore
    <3> QED BY <3>1, <3>2
  <2>4. \A u \in Turn : task'[u].pc \in Holding /\ object'[task'[u].object].verified => task'[u].conv \in proved'
    <3>1. ASSUME NEW u \in Turn, u # t, task'[u].pc \in Holding, object'[task'[u].object].verified
          PROVE  task'[u].conv \in proved'
      <4>1. task'[u] = task[u] /\ task[u].object \in Turn
        BY <1>5, <3>1 DEF Shape
      <4> QED BY <2>2, <3>1, <4>1 DEF Gates
    <3> QED BY <1>3, <2>1, <2>2, <3>1
  <2>5. \A u \in Turn : task'[u].pc = "model" => task'[u] = task[u]
    BY <1>3, <1>5
  <2> QED BY <2>3, <2>4, <2>5 DEF Gates
<1> QED BY <1>8, <1>9, <1>11, <1>12, <1>13

\* An identity is resolved, or not, for the object of turn t.
LEMMA VerifiedStep ==
  ASSUME NEW t \in Turn, NEW v \in BOOLEAN, IInv, Goes(t),
         UNCHANGED <<cache, stored, projected>>, Account',
         task[t].pc \in {"visitor", "model"}, task'[t].pc = "model",
         task'[t].object = task[t].object, task'[t].payload = task[t].payload,
         object' = [object EXCEPT ![task[t].object].verified = v],
         proved \subseteq proved', proved' \subseteq Conv,
         v => task[t].conv \in proved',
         task'[t].gate => task[t].conv \in proved'
  PROVE  IInv'
<1> DEFINE o == task[t].object
<1>1. /\ TypeCore /\ Histories /\ CacheOK /\ Gates
      /\ \A u \in Turn : Shape(u)
  BY DEF IInv
<1>2. /\ task' \in [Turn -> TaskState]
      /\ \A u \in Turn : u # t => task'[u] = task[u]
      /\ \A u \in Turn : Begun(task, u) =>
           /\ task'[u].conv = task[u].conv /\ Begun(task', u)
           /\ Answered(task, u) => Answered(task', u)
      /\ \A h, c : Clean(task, h, c) => Clean(task', h, c)
      /\ task'[t].conv = task[t].conv /\ task[t].conv \in Conv
  BY <1>1, GoesKeeps
<1>3. o \in Turn /\ Begun(task, o) /\ task[o].conv = task[t].conv /\ Has(object[o].history, User(t))
  BY <1>1 DEF Shape, Holding
<1>4. /\ object' \in [Turn -> ObjectState]
      /\ object'[o].verified = v
      /\ \A u \in Turn : object'[u].history = object[u].history
      /\ \A u \in Turn : u # o => object'[u] = object[u]
  <2>1. object \in [Turn -> ObjectState] /\ object[o] \in ObjectState
    BY <1>1, <1>3 DEF TypeCore
  <2>2. object'[o] = [object[o] EXCEPT !.verified = v] /\ \A u \in Turn : u # o => object'[u] = object[u]
    BY <1>3, <2>1
  <2>3. [object[o] EXCEPT !.verified = v] \in ObjectState
    BY <2>1 DEF ObjectState
  <2>4. object' \in [Turn -> ObjectState]
    BY <1>3, <2>1, <2>3
  <2>5. object'[o].history = object[o].history /\ object'[o].verified = v
    BY <2>1, <2>2 DEF ObjectState
  <2> QED BY <2>2, <2>4, <2>5
<1> HIDE DEF o
<1>5. TypeCore'
  BY <1>1, <1>2, <1>4 DEF TypeCore
<1>6. Histories'
  <2>1. \A u \in Turn : task'[u].conv = task[u].conv /\ task'[u].payload = task[u].payload
    BY <1>2
  <2>2. \A c \in Conv : Clean(task', stored'[c], c)
    BY <1>1, <1>2 DEF Histories
  <2>3. \A u \in Turn : /\ Clean(task', object'[u].history, task'[u].conv)
                        /\ Clean(task', task'[u].payload, task'[u].conv)
    BY <1>1, <1>2, <1>4, <2>1 DEF Histories
  <2> QED BY <2>2, <2>3 DEF Histories
<1>7. \A u \in Turn : Shape(u)'
  <2>1. \A w \in Turn : \A x : Begun(task, w) /\ Has(object[w].history, x) => Has(object'[w].history, x)
    BY <1>4
  <2>2. ASSUME NEW u \in Turn, u # t PROVE Shape(u)'
    <3>1. task[u].pc \in Early => object'[u] = object[u]
      BY <1>3, <1>4 DEF Begun
    <3> QED BY <1>1, <1>2, <2>1, <2>2, <3>1, OthersShape
  <2>3. Shape(t)'
    <3>1. task'[t].object = o /\ o \in Turn /\ Begun(task', o) /\ task'[o].conv = task'[t].conv
      BY <1>2, <1>3 DEF o
    <3>2. Has(object'[o].history, User(t))
      BY <1>3, <1>4
    <3> QED BY <1>2, <3>1, <3>2 DEF Shape, Early, Holding
  <2> QED BY <2>2, <2>3
<1>8. CacheOK'
  BY <1>1, <1>2, CacheStays
<1>9. Gates'
  <2>1. ASSUME NEW w \in Turn, object'[w].verified
        PROVE  object[w].verified \/ (w = o /\ task[t].conv \in proved')
    BY <1>4, <2>1
  <2>2. ASSUME NEW c \in Conv, cache'[c] # None, object'[cache'[c]].verified
        PROVE  c \in proved'
    <3>1. cache[c] \in Turn /\ task[cache[c]].conv = c
      BY <1>1, <2>2 DEF TypeCore, CacheOK
    <3> QED BY <1>1, <1>3, <2>1, <2>2, <3>1 DEF Gates
  <2>3. ASSUME NEW u \in Turn, task'[u].pc \in Holding, object'[task'[u].object].verified
        PROVE  task'[u].conv \in proved'
    <3>1. task[u].pc \in Holding /\ task'[u].object = task[u].object /\ task'[u].conv = task[u].conv
      BY <1>2, <2>3 DEF Holding
    <3>2. task[u].object \in Turn /\ task[task[u].object].conv = task[u].conv
      BY <1>1, <3>1 DEF Shape
    <3> QED BY <1>1, <1>3, <2>1, <2>3, <3>1, <3>2 DEF Gates
  <2>4. ASSUME NEW u \in Turn, task'[u].pc = "model", task'[u].gate
        PROVE  task'[u].conv \in proved'
    BY <1>1, <1>2, <2>4 DEF Gates
  <2> QED BY <2>2, <2>3, <2>4 DEF Gates
<1> QED BY <1>5, <1>6, <1>7, <1>8, <1>9 DEF IInv

-----------------------------------------------------------------------------
(* The actions. *)

LEMMA FinishedType ==
  ASSUME NEW t \in Turn, TypeCore, task[t].pc # "idle", Finish(t)
  PROVE  /\ Goes(t) /\ task'[t].pc = "done" /\ task'[t].payload = <<>>
         /\ task'[t].object = None /\ ~task'[t].gate
<1>1. task \in [Turn -> TaskState] /\ task[t] \in TaskState
  BY DEF TypeCore
<1>2. Finished(t) \in TaskState
  BY <1>1, EmptySeq DEF Finished, Idle, TaskState, PC
<1>3. task'[t] = Finished(t) /\ task' = [task EXCEPT ![t] = task'[t]]
  BY <1>1 DEF Finish
<1>4. /\ Finished(t).pc = "done" /\ Finished(t).conv = task[t].conv
      /\ Finished(t).payload = <<>> /\ Finished(t).object = None /\ ~Finished(t).gate
  BY DEF Finished, Idle
<1> QED BY <1>2, <1>3, <1>4 DEF Goes, Begun, Answered, Early

LEMMA QuietActions ==
  ASSUME NEW t \in Turn, IInv, Account',
         \/ RefusedByLimit(t) \/ OpenMissing(t) \/ SaveUser(t) \/ ModelRaises(t)
         \/ SaveReply(t) \/ Count(t) \/ ProjectRead(t) \/ ProjectInsert(t)
  PROVE  IInv'
<1>1. TypeCore /\ task \in [Turn -> TaskState] /\ task[t] \in TaskState
  BY DEF IInv, TypeCore
<1>2. projected \in [Conv -> Nat]
  BY <1>1 DEF TypeCore
<1>3. ASSUME Finish(t), task[t].pc # "idle", UNCHANGED <<cache, object, stored, proved>>,
             (projected \in [Conv -> Nat])'
      PROVE  IInv'
  <2>1. Goes(t) /\ task'[t].pc = "done" /\ task'[t].payload = <<>>
    BY <1>1, <1>3, FinishedType
  <2>2. task'[t].pc \notin Holding /\ task'[t].pc \notin Early
    BY <2>1 DEF Holding, Early
  <2> QED BY <1>3, <2>1, <2>2, QuietStep
<1>4. ASSUME NEW pc \in PC, Goto(t, pc)
      PROVE  /\ task' = [task EXCEPT ![t] = task'[t]] /\ task'[t] \in TaskState
             /\ task'[t].pc = pc /\ task'[t].conv = task[t].conv
             /\ task'[t].payload = task[t].payload
  <2>1. task'[t] = [task[t] EXCEPT !.pc = pc] /\ task' = [task EXCEPT ![t] = task'[t]]
    BY <1>1, <1>4 DEF Goto
  <2>2. [task[t] EXCEPT !.pc = pc] \in TaskState
    BY <1>1 DEF TaskState
  <2> QED BY <1>1, <2>1, <2>2 DEF TaskState
<1>5. ASSUME NEW pc \in PC, Save(t, pc)
      PROVE  /\ task' = [task EXCEPT ![t] = task'[t]] /\ task'[t] \in TaskState
             /\ task'[t].pc = pc /\ task'[t].conv = task[t].conv
             /\ task'[t].payload = <<>> /\ task'[t].object = task[t].object
  <2>1. task'[t] = [task[t] EXCEPT !.pc = pc, !.payload = <<>>] /\ task' = [task EXCEPT ![t] = task'[t]]
    BY <1>1, <1>5 DEF Save
  <2>2. [task[t] EXCEPT !.pc = pc, !.payload = <<>>] \in TaskState
    BY <1>1, EmptySeq DEF TaskState
  <2> QED BY <1>1, <2>1, <2>2 DEF TaskState
<1>6. CASE RefusedByLimit(t)
  BY <1>2, <1>3, <1>6 DEF RefusedByLimit
<1>7. CASE ModelRaises(t)
  BY <1>2, <1>3, <1>7 DEF ModelRaises
<1>8. CASE OpenMissing(t)
  <2>1. Goto(t, "load") /\ task[t].pc = "limit" /\ "load" \in PC
    BY <1>8 DEF OpenMissing, PC
  <2>2. Goes(t) /\ task'[t].pc = "load" /\ task'[t].payload = task[t].payload
    BY <1>4, <2>1 DEF Goes, Begun, Answered, Early
  <2>3. task'[t].pc \notin Holding /\ task[t].pc \in Early
    BY <2>1, <2>2 DEF Holding, Early
  <2> QED BY <1>2, <1>8, <2>2, <2>3, QuietStep DEF OpenMissing
<1>9. CASE SaveUser(t)
  <2>1. Save(t, "visitor") /\ task[t].pc = "saveUser" /\ "visitor" \in PC
    BY <1>9 DEF SaveUser, PC
  <2>2. /\ Goes(t) /\ task'[t].pc = "visitor" /\ task'[t].payload = <<>>
        /\ task'[t].object = task[t].object
    BY <1>5, <2>1 DEF Goes, Begun, Answered, Early
  <2>3. task[t].pc \in Holding /\ task'[t].pc \notin Early
    BY <2>1, <2>2 DEF Holding, Early
  <2>4. UNCHANGED stored \/ stored' = [stored EXCEPT ![task[t].conv] = task[t].payload]
    BY <2>1 DEF Save
  <2> QED BY <1>2, <1>9, <2>1, <2>2, <2>3, <2>4, QuietStep DEF SaveUser
<1>10. CASE SaveReply(t)
  <2>1. Save(t, "count") /\ task[t].pc = "saveReply" /\ "count" \in PC
    BY <1>10 DEF SaveReply, PC
  <2>2. Goes(t) /\ task'[t].pc = "count" /\ task'[t].payload = <<>>
    BY <1>5, <2>1 DEF Goes, Begun, Answered, Early
  <2>3. task'[t].pc \notin Holding /\ task'[t].pc \notin Early
    BY <2>2 DEF Holding, Early
  <2>4. UNCHANGED stored \/ stored' = [stored EXCEPT ![task[t].conv] = task[t].payload]
    BY <2>1 DEF Save
  <2> QED BY <1>2, <1>10, <2>2, <2>3, <2>4, QuietStep DEF SaveReply
<1>11. CASE Count(t)
  <2>1. Goto(t, "project") /\ task[t].pc = "count" /\ "project" \in PC
    BY <1>11 DEF Count, PC
  <2>2. Goes(t) /\ task'[t].pc = "project" /\ task'[t].payload = task[t].payload
    BY <1>4, <2>1 DEF Goes, Begun, Answered, Early
  <2>3. task'[t].pc \notin Holding /\ task'[t].pc \notin Early
    BY <2>2 DEF Holding, Early
  <2> QED BY <1>2, <1>11, <2>2, <2>3, QuietStep DEF Count
<1>12. CASE ProjectRead(t)
  <2>1. CASE Finish(t)
    BY <1>2, <1>3, <1>12, <2>1 DEF ProjectRead
  <2>2. CASE Goto(t, "insert")
    <3>1. task[t].pc = "project" /\ "insert" \in PC
      BY <1>12 DEF ProjectRead, PC
    <3>2. Goes(t) /\ task'[t].pc = "insert" /\ task'[t].payload = task[t].payload
      BY <1>4, <2>2, <3>1 DEF Goes, Begun, Answered, Early
    <3>3. task'[t].pc \notin Holding /\ task'[t].pc \notin Early
      BY <3>2 DEF Holding, Early
    <3> QED BY <1>2, <1>12, <3>2, <3>3, QuietStep DEF ProjectRead
  <2> QED BY <1>12, <2>1, <2>2 DEF ProjectRead
<1>13. CASE ProjectInsert(t)
  <2>1. (projected \in [Conv -> Nat])'
    BY <1>2, <1>13 DEF ProjectInsert
  <2> QED BY <1>2, <1>3, <1>13, <2>1 DEF ProjectInsert
<1> QED BY <1>6, <1>7, <1>8, <1>9, <1>10, <1>11, <1>12, <1>13

LEMMA StartActions ==
  ASSUME NEW t \in Turn, NEW c \in Conv, IInv, Account',
         Arrive(t, c) \/ RefusedByCost(t, c) \/ Read(t, c)
  PROVE  IInv'
<1>1. CASE Arrive(t, c)
  BY <1>1, StartStep DEF Arrive, CanStart
<1>2. CASE RefusedByCost(t, c)
  BY <1>2, StartStep DEF RefusedByCost, CanStart
<1>3. CASE Read(t, c)
  BY <1>3, StartStep DEF Read, CanStart
<1> QED BY <1>1, <1>2, <1>3

LEMMA LoadedClean ==
  ASSUME IInv, NEW c \in Conv, NEW h \in Loaded(c)
  PROVE  Clean(task, h, c)
BY EmptyClean DEF IInv, Histories, Loaded

LEMMA SayingActions ==
  ASSUME NEW t \in Turn, IInv, Account', OpenCached(t) \/ Load(t) \/ ModelAnswers(t)
  PROVE  IInv'
<1>1. /\ TypeCore /\ Histories /\ CacheOK /\ Gates /\ Shape(t)
  BY DEF IInv
<1>2. User(t) # Assistant(t)
  BY DEF User, Assistant
<1>3. CASE OpenCached(t)
  <2> DEFINE o == cache[task[t].conv]
  <2>1. task[t].pc = "limit" /\ task[t].conv \in Conv
    BY <1>1, <1>3 DEF OpenCached, Shape
  <2>2. o \in Turn /\ task[o].conv = task[t].conv /\ Begun(task, o)
    BY <1>1, <1>3, <2>1 DEF OpenCached, TypeCore, CacheOK
  <2>3. Said(t, o, object[o].history, User(t)) /\ UNCHANGED <<cache, stored, proved, projected>>
    BY <1>3 DEF OpenCached
  <2>4. ~Begun(task, t) /\ ~Answered(task, t)
    BY <2>1 DEF Begun, Early, Answered
  <2>5. Clean(task, object[o].history, task[t].conv)
    BY <1>1, <2>2 DEF Histories
  <2>6. object[o].verified => task[t].conv \in proved
    BY <1>1, <2>1, <2>2 DEF Gates
  <2> HIDE DEF o
  <2> QED BY <1>1, <1>2, <2>1, <2>2, <2>3, <2>4, <2>5, <2>6, SaidStep
<1>4. CASE Load(t)
  <2>1. task[t].pc = "load" /\ task[t].conv \in Conv
    BY <1>1, <1>4 DEF Load, Shape
  <2>2. PICK h \in Loaded(task[t].conv) : Said(t, t, h, User(t))
    BY <1>4 DEF Load
  <2>3. /\ cache' = [cache EXCEPT ![task[t].conv] = t]
        /\ UNCHANGED <<stored, proved, projected>>
    BY <1>4 DEF Load, CacheKey
  <2>4. ~Begun(task, t) /\ ~Answered(task, t)
    BY <2>1 DEF Begun, Early, Answered
  <2>5. Clean(task, h, task[t].conv)
    BY <2>1, LoadedClean
  <2> QED BY <1>1, <1>2, <2>1, <2>2, <2>3, <2>4, <2>5, SaidStep
<1>5. CASE ModelAnswers(t)
  <2> DEFINE o == task[t].object
  <2>1. task[t].pc = "model"
    BY <1>5 DEF ModelAnswers
  <2>2. /\ o \in Turn /\ task[o].conv = task[t].conv /\ Begun(task, o)
        /\ Has(object[o].history, User(t))
    BY <1>1, <2>1 DEF Shape, Holding
  <2>3. Said(t, o, object[o].history, Assistant(t)) /\ UNCHANGED <<cache, stored, proved, projected>>
    BY <1>5 DEF ModelAnswers, ReplyObject
  <2>4. ~Answered(task, t)
    BY <2>1 DEF Answered
  <2>5. Clean(task, object[o].history, task[t].conv)
    BY <1>1, <2>2 DEF Histories
  <2>6. object[o].verified => task[t].conv \in proved
    BY <1>1, <2>1 DEF Gates, Holding
  <2> HIDE DEF o
  <2> QED BY <1>2, <2>1, <2>2, <2>3, <2>4, <2>5, <2>6, SaidStep
<1> QED BY <1>3, <1>4, <1>5

LEMMA VerifyingActions ==
  ASSUME NEW t \in Turn, IInv, Account', Prepare(t) \/ ModelIdentifies(t)
  PROVE  IInv'
<1>1. /\ TypeCore /\ Histories /\ Gates /\ Shape(t)
      /\ task \in [Turn -> TaskState] /\ task[t] \in TaskState
      /\ projected \in [Conv -> Nat] /\ proved \subseteq Conv
  BY DEF IInv, TypeCore
<1>2. CASE Prepare(t)
  <2> DEFINE o == task[t].object
  <2>1. task[t].pc = "visitor" /\ UNCHANGED <<cache, stored, projected>>
    BY <1>2 DEF Prepare
  <2>2. o \in Turn /\ object[o] \in ObjectState /\ task[t].conv \in Conv
    BY <1>1, <2>1 DEF Shape, Holding, TypeCore
  <2>3. object[o].verified => task[t].conv \in proved
    BY <1>1, <2>1 DEF Gates, Holding
  <2>5. PICK token \in BOOLEAN, resolves \in BOOLEAN :
          LET verified == Verify(t, token, resolves) IN
          /\ object' = [object EXCEPT ![task[t].object].verified = verified]
          /\ proved' = IF ~ObjectOf(t).verified /\ token /\ resolves THEN proved \cup {task[t].conv} ELSE proved
          /\ task' = [task EXCEPT ![t].pc = "model", ![t].gate = verified,
                                  ![t].prompt = PromptOf(ObjectOf(t).history)]
    BY <1>2 DEF Prepare
  <2> DEFINE v == Verify(t, token, resolves)
  <2>6. v \in BOOLEAN /\ (v => object[o].verified \/ (token /\ resolves))
    BY <2>2 DEF Verify, ObjectOf, ObjectState
  <2>7. /\ proved \subseteq proved' /\ proved' \subseteq Conv
        /\ v => task[t].conv \in proved'
    BY <1>1, <2>2, <2>3, <2>5, <2>6 DEF ObjectOf
  <2>8. /\ Goes(t) /\ task'[t].pc = "model" /\ task'[t].gate = v
        /\ task'[t].object = task[t].object /\ task'[t].payload = task[t].payload
    <3> DEFINE p == PromptOf(ObjectOf(t).history)
    <3>1. p \in Seq(Entry)
      BY <2>2, FrontType DEF PromptOf, ObjectOf, ObjectState
    <3>2. task'[t] = [task[t] EXCEPT !.pc = "model", !.gate = v, !.prompt = p]
          /\ task' = [task EXCEPT ![t] = task'[t]]
      BY <1>1, <2>5
    <3> HIDE DEF v, p
    <3>3. [task[t] EXCEPT !.pc = "model", !.gate = v, !.prompt = p] \in TaskState
      BY <1>1, <2>6, <3>1 DEF TaskState, PC
    <3>4. /\ task'[t].pc = "model" /\ task'[t].gate = v /\ task'[t].conv = task[t].conv
          /\ task'[t].object = task[t].object /\ task'[t].payload = task[t].payload
      BY <1>1, <3>2 DEF TaskState
    <3> QED BY <2>1, <3>2, <3>3, <3>4 DEF Goes, Begun, Answered, Early
  <2>9. object' = [object EXCEPT ![task[t].object].verified = v]
    BY <2>5
  <2> HIDE DEF v
  <2> QED BY <2>1, <2>6, <2>7, <2>8, <2>9, VerifiedStep
<1>3. CASE ModelIdentifies(t)
  <2>1. task[t].pc = "model" /\ UNCHANGED <<cache, stored, task, projected>>
    BY <1>3 DEF ModelIdentifies
  <2>2. /\ object' = [object EXCEPT ![task[t].object].verified = TRUE]
        /\ proved' = proved \cup {task[t].conv}
    BY <1>3 DEF ModelIdentifies, Identify
  <2>3. task[t].conv \in Conv
    BY <1>1, <2>1 DEF Shape
  <2>4. Goes(t)
    BY <1>1, <2>1 DEF Goes
  <2> QED BY <1>1, <2>1, <2>2, <2>3, <2>4, VerifiedStep
<1> QED BY <1>2, <1>3

\* A history read puts its object, unverified, into the cache.
LEMMA ReadLoadStep ==
  ASSUME NEW t \in Turn, IInv, Account', ReadLoad(t)
  PROVE  IInv'
<1>1. /\ TypeCore /\ Histories /\ CacheOK /\ Gates
      /\ \A u \in Turn : Shape(u)
  BY DEF IInv
<1>2. /\ task[t].pc = "readLoad" /\ Finish(t)
      /\ cache' = [cache EXCEPT ![task[t].conv] = t]
      /\ UNCHANGED <<stored, proved, projected>>
  BY DEF ReadLoad, CacheKey
<1>3. PICK h \in Loaded(task[t].conv) : object' = [object EXCEPT ![t].history = h]
  BY DEF ReadLoad
<1>4. /\ Goes(t) /\ task'[t].pc = "done" /\ task'[t].payload = <<>>
      /\ task'[t].object = None /\ ~task'[t].gate
  BY <1>1, <1>2, FinishedType
<1>5. /\ task' \in [Turn -> TaskState]
      /\ \A u \in Turn : u # t => task'[u] = task[u]
      /\ \A u \in Turn : Begun(task, u) =>
           /\ task'[u].conv = task[u].conv /\ Begun(task', u)
           /\ Answered(task, u) => Answered(task', u)
      /\ \A k, c : Clean(task, k, c) => Clean(task', k, c)
      /\ task'[t].conv = task[t].conv /\ task[t].conv \in Conv
  BY <1>1, <1>4, GoesKeeps
<1>6. Clean(task, h, task[t].conv) /\ h \in Seq(Entry)
  BY <1>5, LoadedClean DEF Clean
<1>7. object[t] = NoObject /\ ~Begun(task, t) /\ Begun(task', t)
  BY <1>1, <1>2, <1>4 DEF Shape, Early, Begun
<1>8. /\ object' \in [Turn -> ObjectState]
      /\ object'[t].history = h /\ ~object'[t].verified
      /\ \A u \in Turn : u # t => object'[u] = object[u]
  <2>1. object \in [Turn -> ObjectState]
    BY <1>1 DEF TypeCore
  <2>2. object'[t] = [NoObject EXCEPT !.history = h] /\ \A u \in Turn : u # t => object'[u] = object[u]
    BY <1>3, <1>7, <2>1
  <2>3. /\ [NoObject EXCEPT !.history = h] \in ObjectState
        /\ object'[t].history = h /\ ~object'[t].verified
    BY <1>6, <2>2 DEF NoObject, ObjectState
  <2> QED BY <1>3, <1>7, <2>1, <2>2, <2>3
<1>9. TypeCore'
  BY <1>1, <1>2, <1>5, <1>8 DEF TypeCore
<1>10. Histories'
  <2>1. \A c \in Conv : Clean(task', stored'[c], c)
    BY <1>1, <1>2, <1>5 DEF Histories
  <2>2. Clean(task', object'[t].history, task'[t].conv) /\ Clean(task', task'[t].payload, task'[t].conv)
    BY <1>4, <1>5, <1>6, <1>8, EmptyClean
  <2>3. ASSUME NEW u \in Turn, u # t
        PROVE  Clean(task', object'[u].history, task'[u].conv) /\ Clean(task', task'[u].payload, task'[u].conv)
    BY <1>1, <1>5, <1>8, <2>3 DEF Histories
  <2> QED BY <2>1, <2>2, <2>3 DEF Histories
<1>11. \A u \in Turn : Shape(u)'
  <2>1. \A w \in Turn : \A x : Begun(task, w) /\ Has(object[w].history, x) => Has(object'[w].history, x)
    BY <1>7, <1>8
  <2>2. ASSUME NEW u \in Turn, u # t PROVE Shape(u)'
    BY <1>1, <1>5, <1>8, <2>1, <2>2, OthersShape
  <2>3. Shape(t)'
    BY <1>4, <1>5 DEF Shape, Early, Holding
  <2> QED BY <2>2, <2>3
<1>12. CacheOK'
  BY <1>1, <1>2, <1>5, <1>7 DEF CacheOK, TypeCore
<1>13. Gates'
  <2>1. \A w \in Turn : object'[w].verified => object[w].verified /\ w # t
    BY <1>8
  <2>2. \A c \in Conv : cache'[c] # None /\ object'[cache'[c]].verified => c \in proved'
    BY <1>1, <1>2, <1>5, <2>1 DEF Gates, TypeCore
  <2>3. ASSUME NEW u \in Turn, task'[u].pc \in Holding
        PROVE  /\ task'[u] = task[u] /\ task[u].object \in Turn
    BY <1>1, <1>4, <1>5, <2>3 DEF Holding, Shape
  <2>4. \A u \in Turn : task'[u].pc \in Holding /\ object'[task'[u].object].verified
                          => task'[u].conv \in proved'
    BY <1>1, <1>2, <2>1, <2>3 DEF Gates
  <2>5. \A u \in Turn : task'[u].pc = "model" /\ task'[u].gate => task'[u].conv \in proved'
    BY <1>1, <1>2, <2>3 DEF Gates, Holding
  <2> QED BY <2>2, <2>4, <2>5 DEF Gates
<1> QED BY <1>9, <1>10, <1>11, <1>12, <1>13 DEF IInv

LEMMA RestartStep ==
  ASSUME IInv, Restart, Account'
  PROVE  IInv'
<1>1. /\ TypeCore /\ Histories /\ \A u \in Turn : Shape(u)
  BY DEF IInv
<1>2. /\ cache' = [c \in Conv |-> None]
      /\ task' = [t \in Turn |-> IF InFlight(t) THEN Finished(t) ELSE task[t]]
      /\ proved' = {} /\ UNCHANGED <<object, stored, projected>>
  BY DEF Restart
<1>3. ASSUME NEW u \in Turn
      PROVE  /\ task'[u] \in TaskState
             /\ task'[u] = task[u] \/ task'[u].payload = <<>>
             /\ task'[u].conv = task[u].conv
             /\ task[u].pc = "idle" => task'[u] = task[u]
             /\ task[u].pc # "idle" => task'[u].pc = "done"
  <2>1. task[u] \in TaskState
    BY <1>1 DEF TypeCore
  <2>2. CASE InFlight(u)
    <3>1. task'[u] = Finished(u)
      BY <1>2, <2>2
    <3>2. Finished(u) \in TaskState
      BY <2>1, EmptySeq DEF Finished, Idle, TaskState, PC
    <3>3. Finished(u).pc = "done" /\ Finished(u).conv = task[u].conv /\ Finished(u).payload = <<>>
      BY DEF Finished, Idle
    <3> QED BY <2>2, <3>1, <3>2, <3>3 DEF InFlight
  <2>3. CASE ~InFlight(u)
    BY <1>2, <2>1, <2>3 DEF InFlight
  <2> QED BY <2>2, <2>3
<1>4. \A u \in Turn : Begun(task, u) =>
        /\ task'[u].conv = task[u].conv /\ Begun(task', u)
        /\ Answered(task, u) => Answered(task', u)
  BY <1>3 DEF Begun, Answered, Early
<1>5. \A h, c : Clean(task, h, c) => Clean(task', h, c)
  BY <1>4, KeepsClean
<1>6. TypeCore'
  BY <1>1, <1>2, <1>3 DEF TypeCore
<1>7. Histories'
  <2>1. \A c \in Conv : Clean(task', stored'[c], c)
    BY <1>1, <1>2, <1>5 DEF Histories
  <2>2. \A u \in Turn : Clean(task', object'[u].history, task'[u].conv)
    BY <1>1, <1>2, <1>3, <1>5 DEF Histories
  <2>3. \A u \in Turn : Clean(task', task'[u].payload, task'[u].conv)
    BY <1>1, <1>3, <1>5, EmptyClean DEF Histories
  <2> QED BY <2>1, <2>2, <2>3 DEF Histories
<1>8. \A u \in Turn : Shape(u)'
  BY <1>1, <1>2, <1>3 DEF Shape, Early, Holding
<1>9. CacheOK' /\ Gates'
  BY <1>2, <1>3 DEF CacheOK, Gates, Holding
<1> QED BY <1>6, <1>7, <1>8, <1>9 DEF IInv

\* A step that leaves conversations and turns alone.
LEMMA BesideStep ==
  ASSUME IInv, UNCHANGED <<cache, object, stored, task, proved, projected>>,
         Account'
  PROVE  IInv'
<1>1. TypeCore'
  BY DEF IInv, TypeCore
<1>2. Histories'
  BY DEF IInv, Histories
<1>3. \A u \in Turn : Shape(u)'
  BY DEF IInv, Shape, Begun, Has
<1>4. CacheOK' /\ Gates'
  BY DEF IInv, CacheOK, Gates, Begun
<1> QED BY <1>1, <1>2, <1>3, <1>4 DEF IInv

-----------------------------------------------------------------------------
(* The theorems. *)

\* The steps of the limits keep their types.
LEMMA AccountStep ==
  ASSUME Account, [Next]_vars
  PROVE  Account'
<1> USE DEF Account
<1>1. ASSUME UNCHANGED <<visitor, spent, clock, tally>>
      PROVE  Account'
  BY <1>1
<1>2. ASSUME NEW t \in Turn, NEW c \in Conv, Arrive(t, c) \/ RefusedByCost(t, c) \/ Read(t, c)
      PROVE  Account'
  BY <1>1, <1>2 DEF Arrive, RefusedByCost, Read
<1>3. ASSUME NEW t \in Turn,
             \/ RefusedByLimit(t) \/ OpenCached(t) \/ OpenMissing(t) \/ Load(t) \/ ReadLoad(t)
             \/ SaveUser(t) \/ ModelIdentifies(t) \/ ModelRaises(t) \/ SaveReply(t)
             \/ ProjectRead(t) \/ ProjectInsert(t)
      PROVE  Account'
  BY <1>1, <1>3 DEF RefusedByLimit, OpenCached, OpenMissing, Load, ReadLoad, SaveUser,
                    ModelIdentifies, ModelRaises, SaveReply, ProjectRead, ProjectInsert
<1>4. ASSUME NEW t \in Turn, Prepare(t) PROVE Account'
  <2>1. NewVisitor \in [known : BOOLEAN, count : Nat, date : Nat]
    BY DEF NewVisitor
  <2>2. visitor' \in [known : BOOLEAN, count : Nat, date : Nat]
    BY <1>4, <2>1 DEF Prepare
  <2> QED BY <1>4, <2>2 DEF Prepare
<1>5. ASSUME NEW t \in Turn, ModelAnswers(t) PROVE Account'
  <2>1. PICK cost \in {0, TurnCost} : Charge(cost)
    BY <1>5 DEF ModelAnswers
  <2>2. cost \in Nat
    BY <2>1, ChatTurnAssumption
  <2>3. spent.sum + cost \in Nat /\ tally.cost + cost \in Nat
    BY <2>2
  <2>4. spent' \in [date : Nat, sum : Nat]
    BY <2>1, <2>2, <2>3 DEF Charge
  <2>5. tally' \in [replies : Nat, lost : Nat, cost : Nat]
    BY <2>1, <2>3 DEF Charge
  <2> QED BY <1>5, <2>4, <2>5 DEF ModelAnswers
<1>6. ASSUME NEW t \in Turn, Count(t) PROVE Account'
  <2>1. visitor.count + 1 \in Nat /\ tally.replies + 1 \in Nat /\ tally.lost + 1 \in Nat
    OBVIOUS
  <2>2. Counted \in [known : BOOLEAN, count : Nat, date : Nat]
    BY <2>1 DEF Counted
  <2>3. /\ visitor' \in [known : BOOLEAN, count : Nat, date : Nat]
        /\ tally' \in [replies : Nat, lost : Nat, cost : Nat]
    BY <1>6, <2>1, <2>2 DEF Count
  <2> QED BY <1>6, <2>3 DEF Count
<1>7. CASE NewDay
  <2>1. clock.server + 1 \in Nat /\ clock.database + 1 \in Nat /\ clock.utc + 1 \in Nat
    OBVIOUS
  <2>2. CASE NewServerDay
    BY <2>1, <2>2 DEF NewServerDay
  <2>3. CASE NewDatabaseDay
    <3>1. tally' \in [replies : Nat, lost : Nat, cost : Nat]
      BY <2>3 DEF NewDatabaseDay
    <3> QED BY <2>1, <2>3, <3>1 DEF NewDatabaseDay
  <2>4. CASE NewUtcDay
    <3>1. tally' \in [replies : Nat, lost : Nat, cost : Nat]
      BY <2>4 DEF NewUtcDay
    <3> QED BY <2>1, <2>4, <3>1 DEF NewUtcDay
  <2> QED BY <1>7, <2>2, <2>3, <2>4 DEF NewDay
<1>8. CASE Restart
  BY <1>8 DEF Restart, NoCost
<1>9. CASE UNCHANGED vars
  BY <1>1, <1>9 DEF vars
<1> QED BY <1>2, <1>3, <1>4, <1>5, <1>6, <1>7, <1>8, <1>9 DEF Next, TurnStep

LEMMA InitIInv == Init => IInv
<1> SUFFICES ASSUME Init PROVE IInv
  OBVIOUS
<1>1. Idle \in TaskState /\ Idle.payload = <<>> /\ Idle.pc = "idle" /\ ~Idle.gate
  BY EmptySeq DEF Idle, TaskState, PC
<1>2. NoObject \in ObjectState /\ NoObject.history = <<>>
  BY EmptySeq DEF NoObject, ObjectState
<1>3. TypeCore
  BY <1>1, <1>2, EmptySeq DEF Init, TypeCore, Account, NoCost
<1>4. Histories
  BY <1>1, <1>2, EmptyClean DEF Init, Histories
<1>5. (\A t \in Turn : Shape(t)) /\ CacheOK /\ Gates
  BY <1>1 DEF Init, Shape, CacheOK, Gates, Holding, Early
<1> QED BY <1>3, <1>4, <1>5 DEF IInv

LEMMA StepIInv == IInv /\ [Next]_vars => IInv'
<1> SUFFICES ASSUME IInv, [Next]_vars PROVE IInv'
  OBVIOUS
<1>1. Account'
  BY AccountStep DEF IInv, TypeCore
<1>2. ASSUME NEW t \in Turn, NEW c \in Conv, Arrive(t, c) \/ RefusedByCost(t, c) \/ Read(t, c)
      PROVE  IInv'
  BY <1>1, <1>2, StartActions
<1>3. ASSUME NEW t \in Turn, TurnStep(t) PROVE IInv'
  BY <1>1, <1>3, QuietActions, SayingActions, VerifyingActions, ReadLoadStep DEF TurnStep
<1>4. CASE NewDay
  BY <1>1, <1>4, BesideStep DEF NewDay, NewServerDay, NewDatabaseDay, NewUtcDay
<1>5. CASE Restart
  BY <1>1, <1>5, RestartStep
<1>6. CASE UNCHANGED vars
  BY <1>1, <1>6, BesideStep DEF vars
<1> QED BY <1>2, <1>3, <1>4, <1>5, <1>6 DEF Next

LEMMA Invariance == Spec => []IInv
BY InitIInv, StepIInv, PTL DEF Spec

\* Every variable keeps its type, and a cached object is one of its conversation.
THEOREM TypeCorrect == Spec => []TypeOK
<1>1. IInv => TypeOK
  <2> SUFFICES ASSUME IInv PROVE TypeOK
    OBVIOUS
  <2>1. TypeCore /\ CacheOK
    BY DEF IInv
  <2>2. \A t \in Turn : object[t] \in ObjectState /\ task[t] \in TaskState
    BY <2>1 DEF TypeCore
  <2>3. \A t \in Turn : object[t].history \in Seq(Entry) /\ object[t].verified \in BOOLEAN
    BY <2>2 DEF ObjectState
  <2>4. \A t \in Turn :
          /\ task[t].pc \in PC /\ task[t].gate \in BOOLEAN
          /\ task[t].conv \in Conv \cup {None} /\ task[t].object \in Turn \cup {None}
          /\ task[t].payload \in Seq(Entry) /\ task[t].prompt \in Seq(Entry)
    BY <2>2 DEF TaskState
  <2>5. \A c \in Conv : stored[c] \in Seq(Entry) /\ projected[c] \in Nat
    BY <2>1 DEF TypeCore
  <2> QED BY <2>1, <2>3, <2>4, <2>5 DEF TypeOK, TypeCore, Account, CacheOK
<1> QED BY <1>1, Invariance, PTL

\* However turns, loads and restarts interleave, a conversation's history, in memory and in
\* the database, holds its own messages only, each once, and no reply before its message.
THEOREM HistoriesStayCoherent == Spec => []HistoriesCoherent
<1>1. IInv => HistoriesCoherent
  <2>1. \A h, c : Clean(task, h, c) => Coherent(h, c)
    BY DEF Clean, Coherent
  <2> QED BY <2>1 DEF IInv, Histories, HistoriesCoherent
<1> QED BY <1>1, Invariance, PTL

\* The identity gate is open only in a conversation whose identity was resolved since the
\* process started, whichever object the turn works on.
THEOREM GateIsEarned == Spec => []GateNeedsProof
<1>1. IInv => GateNeedsProof
  BY DEF IInv, Gates, GateNeedsProof
<1> QED BY <1>1, Invariance, PTL

=============================================================================
