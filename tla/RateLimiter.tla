---------------------------- MODULE RateLimiter ----------------------------
(***************************************************************************)
(* What one client address may do: the coarse request log of the HTTP      *)
(* middleware and the RateLimiter object behind it (chat messages per      *)
(* minute, uploads per hour, identification attempts, temporary block).    *)
(* The program keeps one such state per address and every check runs under *)
(* one lock, so a check is one step and one address is enough.  Between    *)
(* the middleware's check and the handler's the body of the request is     *)
(* read, which takes as long as the client likes: these are two steps.     *)
(*                                                                         *)
(* Time is counted in ticks.  Second, Minute, Hour and Block are lengths.  *)
(***************************************************************************)
EXTENDS Naturals, Sequences, FiniteSets

CONSTANTS
  Dni,         \* the document numbers the client tries
  Config,      \* the limits the settings may give, one record each
  Second,      \* ticks per second
  Minute,      \* length of the request and chat windows
  Hour,        \* length of the upload and identification windows
  Block,       \* length of a temporary block
  MaxTime,     \* the clock stops here
  MaxRequests  \* and the client gives up here

Handler == {"chat", "upload"}

Window == {"coarse"} \cup Handler

ASSUME RateLimiterAssumption ==
  /\ Config \subseteq [coarse : Nat \ {0}, chat : Nat, upload : Nat, ident : Nat, distinct : Nat]
  /\ {Second, Minute, Hour, Block} \subseteq Nat \ {0}
  /\ MaxTime \in Nat /\ MaxRequests \in Nat

VARIABLES
  limit,        \* RateLimitConfig and _RATE_LIMIT, read once; 0 switches a check off
  now,          \* time.time()
  window,       \* _request_log, _chat_min and _upload_hour
  admitted,     \* the requests past the middleware whose handler has not begun
  attempts,     \* _ident_hour
  dnis,         \* _dni_hour
  blockedUntil, \* _blocked_until; 0 when there is no entry
  reply,        \* the answer to the last request
  served,       \* history: when each window let a request through
  resolved,     \* history: the identifications let through
  requests      \* how many requests the client has made

vars == <<limit, now, window, admitted, attempts, dnis, blockedUntil, reply, served, resolved, requests>>

-----------------------------------------------------------------------------

Span(w) == IF w = "upload" THEN Hour ELSE Minute

Reason == {"none", "ok", "coarse", "temp_block", "chat", "upload", "dni_sweep_block",
           "ident_per_hour"}

\* The first of the live entries, or past the last of all.
First(live, len) == CHOOSE k \in live \cup {len + 1} : \A i \in live : k <= i

\* _prune and _prune_pairs: entries are popped from the left until one is live.
Popped(s, live) == SubSeq(s, First(live, Len(s)), Len(s))

\* Mutant: an entry counts as gone one tick early.
Live_off_by_one(s, span) == Popped(s, {i \in 1..Len(s) : s[i] + span > now + 1})

\* What is left of a list of times.  (The middleware filters its list, which is the same as
\* the times are in order.)
Live(s, span) == Popped(s, {i \in 1..Len(s) : s[i] + span > now})

Recent == Popped(dnis, {i \in 1..Len(dnis) : dnis[i].at + Hour > now})

DnisOf(s) == {s[i].dni : i \in 1..Len(s)}

\* Mutant: the block is kept per check and not looked at by identification.
Blocked_never == FALSE

Blocked == now < blockedUntil

Init ==
  /\ limit \in Config
  /\ now = 0
  /\ window = [w \in Window |-> <<>>]
  /\ admitted = [h \in Handler |-> 0]
  /\ attempts = <<>>
  /\ dnis = <<>>
  /\ blockedUntil = 0
  /\ reply = [reason |-> "none", retry |-> 0, repeat |-> FALSE]
  /\ served = [w \in Window |-> <<>>]
  /\ resolved = <<>>
  /\ requests = 0

Tick ==
  /\ now < MaxTime
  /\ now' = now + 1
  /\ UNCHANGED <<limit, window, admitted, attempts, dnis, blockedUntil, reply, served, resolved, requests>>

Answer(reason, retry, repeat) ==
  reply' = [reason |-> reason, retry |-> retry, repeat |-> repeat]

\* Mutant: Retry-After is cut to whole seconds without the floor of one.
Seconds_truncated(ticks) == ticks \div Second

\* The Retry-After value: whole seconds, at least one.
Seconds(ticks) == IF ticks < Second THEN 1 ELSE ticks \div Second

\* The client sends a request, or has a turn call the identification tool.
Request == requests < MaxRequests /\ requests' = requests + 1 /\ UNCHANGED <<limit, now>>

\* The handler of an admitted request begins.
Handled(h) ==
  /\ admitted[h] > 0
  /\ admitted' = [admitted EXCEPT ![h] = @ - 1]
  /\ UNCHANGED <<limit, now, requests>>

-----------------------------------------------------------------------------
(* The sliding windows. *)

Full(w) == limit[w] > 0 /\ Len(Live(window[w], Span(w))) >= limit[w]

\* The windows after a request that all of W let through.
Enter(W) ==
  /\ window' = [w \in Window |->
                  IF w \notin W THEN window[w]
                  ELSE IF limit[w] = 0 THEN window[w]
                  ELSE Append(Live(window[w], Span(w)), now)]
  /\ served' = [w \in Window |-> IF w \in W THEN Append(served[w], now) ELSE served[w]]

\* RateLimitMiddleware.dispatch: a flat cap over both message-bearing paths.
RefusedByMiddleware ==
  /\ Request
  /\ Full("coarse")
  /\ window' = [window EXCEPT !["coarse"] = Live(@, Minute)]
  /\ Answer("coarse", Seconds(Minute), FALSE)
  /\ UNCHANGED <<admitted, attempts, dnis, blockedUntil, served, resolved>>

\* It lets the request through, whose body is read before its handler runs.
Admitted(h) ==
  /\ Request
  /\ ~Full("coarse")
  /\ Enter({"coarse"})
  /\ admitted' = [admitted EXCEPT ![h] = @ + 1]
  /\ UNCHANGED <<attempts, dnis, blockedUntil, reply, resolved>>

\* An admitted request ends before the limiter is asked: the client is gone, the key,
\* the session or the CSRF token is not valid, or the body is not.
Dropped(h) ==
  /\ Handled(h)
  /\ UNCHANGED <<window, attempts, dnis, blockedUntil, reply, served, resolved>>

\* check_chat_per_min or check_upload_per_hour refuses: the address is blocked, or the
\* window is full.  A check that is off does not look at the block either.
RefusedBy(h) ==
  /\ Handled(h)
  /\ limit[h] > 0
  /\ \/ /\ Blocked
        /\ Answer("temp_block", Seconds(blockedUntil - now), FALSE)
        /\ UNCHANGED <<window, blockedUntil>>
     \/ /\ ~Blocked /\ Full(h)
        /\ LET live == Live(window[h], Span(h)) IN
             /\ window' = [window EXCEPT ![h] = live]
             /\ Answer(h, Seconds(Head(live) + Span(h) - now), FALSE)
        /\ blockedUntil' = 0
  /\ UNCHANGED <<attempts, dnis, served, resolved>>

Passes(h) == limit[h] = 0 \/ (~Blocked /\ ~Full(h))

\* _is_blocked drops an expired entry; a check that is off does not get there.
Unblock(h) == blockedUntil' = IF limit[h] = 0 THEN blockedUntil ELSE 0

\* check_chat_per_min lets a chat message through.
Chat ==
  /\ Handled("chat")
  /\ Passes("chat")
  /\ Enter({"chat"})
  /\ Unblock("chat")
  /\ Answer("ok", 0, FALSE)
  /\ UNCHANGED <<attempts, dnis, resolved>>

\* An upload whose document number is malformed: it is counted, then rejected.
UploadMalformed ==
  /\ Handled("upload")
  /\ Passes("upload")
  /\ Enter({"upload"})
  /\ Unblock("upload")
  /\ Answer("ok", 0, FALSE)
  /\ UNCHANGED <<attempts, dnis, resolved>>

-----------------------------------------------------------------------------
(* check_identification.  Its callers never pass an empty number. *)

IsRepeat(d) == d \in DnisOf(Recent)

\* Mutant: a repeated number is not looked up, so every attempt counts as new.
NewAttempts_all(d) == Append(Live(attempts, Hour), now)

NewAttempts(d) ==
  IF IsRepeat(d) THEN Live(attempts, Hour) ELSE Append(Live(attempts, Hour), now)

NewDnis(d) == Append(Recent, [at |-> now, dni |-> d])

\* Mutant: the sweep is noticed one number too late.
Sweep_late(d) == limit.distinct > 0 /\ Cardinality(DnisOf(NewDnis(d))) > limit.distinct + 1

Sweep(d) == limit.distinct > 0 /\ Cardinality(DnisOf(NewDnis(d))) > limit.distinct

TooManyNew(d) == limit.ident > 0 /\ ~IsRepeat(d) /\ Len(NewAttempts(d)) > limit.ident

RefuseBlocked(d) ==
  /\ Blocked
  /\ Answer("temp_block", Seconds(blockedUntil - now), IsRepeat(d))
  /\ UNCHANGED <<attempts, dnis, blockedUntil, resolved>>

\* The attempt is recorded before it is judged, also when it is refused.
RecordAttempt(d) ==
  /\ ~Blocked
  /\ attempts' = NewAttempts(d)
  /\ dnis' = NewDnis(d)

RefuseSweep(d) ==
  /\ RecordAttempt(d)
  /\ Sweep(d)
  /\ blockedUntil' = now + Block
  /\ Answer("dni_sweep_block", Seconds(Block), IsRepeat(d))
  /\ UNCHANGED resolved

RefuseRate(d) ==
  /\ RecordAttempt(d)
  /\ ~Sweep(d) /\ TooManyNew(d)
  /\ blockedUntil' = 0
  /\ Answer("ident_per_hour", Seconds(Head(NewAttempts(d)) + Hour - now), FALSE)
  /\ UNCHANGED resolved

Resolve(d) ==
  /\ RecordAttempt(d)
  /\ ~Sweep(d) /\ ~TooManyNew(d)
  /\ blockedUntil' = 0
  /\ resolved' = Append(resolved, [at |-> now, dni |-> d])
  /\ Answer("ok", 0, IsRepeat(d))

check_identification(d) == RefuseBlocked(d) \/ RefuseSweep(d) \/ RefuseRate(d) \/ Resolve(d)

\* An upload: its own window first, then its document number is an identification.
Upload(d) ==
  /\ Handled("upload")
  /\ Passes("upload")
  /\ Enter({"upload"})
  /\ check_identification(d)

\* identificar_cliente, called from a chat turn that was let through.
Identify(d) ==
  /\ Request
  /\ served["chat"] # <<>>
  /\ check_identification(d)
  /\ UNCHANGED <<window, admitted, served>>

Next ==
  \/ Tick
  \/ RefusedByMiddleware
  \/ \E h \in Handler : Admitted(h) \/ Dropped(h) \/ RefusedBy(h)
  \/ Chat
  \/ UploadMalformed
  \/ \E d \in Dni : Upload(d) \/ Identify(d)

Spec == Init /\ [][Next]_vars

-----------------------------------------------------------------------------
(* Properties. *)

Times == Seq(Nat)

\* Every variable stays in its type, and a refusal tells the client to wait at least a second.
TypeOK ==
  /\ limit \in Config
  /\ now \in Nat /\ blockedUntil \in Nat /\ requests \in Nat
  /\ admitted \in [Handler -> Nat]
  /\ window \in [Window -> Times] /\ served \in [Window -> Times]
  /\ attempts \in Times
  /\ dnis \in Seq([at : Nat, dni : Dni]) /\ resolved \in Seq([at : Nat, dni : Dni])
  /\ reply \in [reason : Reason, retry : Nat, repeat : BOOLEAN]
  /\ reply.reason \in {"none", "ok"} <=> reply.retry = 0

\* Whatever the client does, no window ever lets more than its limit through in any
\* stretch of time of its length, although the lists are pruned only on access.
WindowsHold ==
  \A w \in Window : limit[w] > 0 =>
    \A i \in 1..Len(served[w]) :
      i + limit[w] <= Len(served[w]) => served[w][i + limit[w]] >= served[w][i] + Span(w)

\* An address never gets more than `distinct` different numbers resolved within an hour,
\* through uploads and chat together, blocks and their expiry included.
FewNumbersResolved ==
  limit.distinct > 0 =>
    \A j \in 1..Len(resolved) :
      Cardinality({resolved[i].dni : i \in {k \in 1..j : resolved[k].at + Hour > resolved[j].at}})
        <= limit.distinct

\* Every new-identity attempt of the last hour is for a number of its own, through uploads
\* and chat together, so the rate limit of check_identification never trips when the sweep
\* limit is on and not larger: the sweep is judged first.  (No such thing holds of the chat
\* limit behind the middleware's: requests of two windows may be held by their bodies
\* and reach the handler together.)
ShadowedLimits ==
  /\ Len(Live(attempts, Hour)) <= Cardinality(DnisOf(Recent))
  /\ limit.distinct > 0 /\ limit.ident >= limit.distinct => reply.reason # "ident_per_hour"

\* Nothing is resolved while an address is blocked, and a block is never cut short.
BlockHolds ==
  [][now < blockedUntil =>
       /\ blockedUntil' = blockedUntil
       /\ resolved' = resolved
       /\ limit.chat > 0 => served'["chat"] = served["chat"]]_vars

\* check_identification: re-submitting a number already seen this hour "never trips a
\* 429 here".
RepeatNeverRefused ==
  reply.repeat => reply.reason \in {"ok", "temp_block"}

=============================================================================
