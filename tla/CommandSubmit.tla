--------------------------- MODULE CommandSubmit ---------------------------
(***************************************************************************)
(* Submission of plans: the builder of a Turn, submit() with its retries   *)
(* under one idempotency key, and the HTTP side of close().                *)
(*                                                                         *)
(* Calls are calls of submit(), each a task of its own as async_client.py  *)
(* allows; client.py makes them one at a time.  A plan is a value: what    *)
(* encode_plan sends is a function of the plan.  The command endpoint,     *)
(* what stands in front of it and the network are external: requests and   *)
(* replies may be late, or lost (a request that is never processed); the   *)
(* endpoint judges a key once, by 202 or a refusal, and repeats that       *)
(* verdict; and a status that is no verdict (of a gateway, a rate limit, a *)
(* failure of the server) may come whether or not the request is judged.   *)
(* That verdicts are repeated is an assumption about the game server: it   *)
(* is what submit() relies on when it sends one key again.                 *)
(***************************************************************************)
EXTENDS Integers

CONSTANTS
  Calls,         \* calls of submit()
  CallerKeys,    \* values an application passes as idempotency_key
  Plans, NoPlan,
  NoKey,
  Retries,       \* request_retries
  Refusals,        \* statuses of the endpoint's refusals (400; 409, of a closed tick)
  GatewayStatuses  \* statuses that are no verdict on the plan

\* build_config rejects a negative number of retries.
ASSUME SubmitAssumption ==
  /\ Calls \cap CallerKeys = {}
  /\ NoPlan \notin Plans /\ NoKey \notin Calls \cup CallerKeys
  /\ Retries \in Nat
  /\ Refusals \subseteq Nat \ {0, 202, 502, 503, 504}
  /\ GatewayStatuses \subseteq Nat \ ({202} \cup Refusals)

VARIABLES
  builder,               \* _PlanBuilder of the current Turn: queued plan, closed
  pc, key, body, attempt,  \* per call: progress and local variables
  error,                 \* per call: status_code of the APIError it raised, None
  closed, http,          \* _closed, and whether the connection pool is open
  requests, replies,     \* in flight (external)
  answered,              \* per key: the endpoint's verdict, None before it has one (external)
  stored,                \* the endpoint's plan for the tick (external)
  sent                   \* history: every request ever sent

callVars == <<pc, key, body, attempt, error>>
serverVars == <<answered, stored>>
vars == <<builder, callVars, closed, http, requests, replies, serverVars, sent>>

None == 0
\* A generated key is unique (uuid4): the key of call c is c itself.
Keys == Calls \cup CallerKeys
Requests == [call: Calls, attempt: Nat, key: Keys, body: Plans]

InProgress == {"posting", "sleeping"}
Failures == {"api_error", "protocol_error", "transport_error", "runtime_error", "cancelled"}

Init ==
  /\ \E p \in Plans : builder = [plan |-> p, closed |-> FALSE]
  /\ pc = [c \in Calls |-> "idle"]
  /\ key = [c \in Calls |-> NoKey]
  /\ body = [c \in Calls |-> NoPlan]
  /\ attempt = [c \in Calls |-> 0]
  /\ error = [c \in Calls |-> None]
  /\ closed = FALSE /\ http = "open"
  /\ requests = {} /\ replies = {}
  /\ answered = [k \in Keys |-> None]
  /\ stored = NoPlan
  /\ sent = {}

-----------------------------------------------------------------------------
(* The Turn: an action of a Unit or of the Core, clear(), and _seal()      *)

Edit(p) ==
  /\ ~builder.closed
  /\ builder' = [builder EXCEPT !.plan = p]
  /\ UNCHANGED <<callVars, closed, http, requests, replies, serverVars, sent>>

Seal ==
  /\ ~builder.closed
  /\ builder' = [builder EXCEPT !.closed = TRUE]
  /\ UNCHANGED <<callVars, closed, http, requests, replies, serverVars, sent>>

-----------------------------------------------------------------------------
(* submit()                                                                *)

\* self._http.post(...): key and body were computed before the loop of attempts.
BugFreshKey(c, k, b, n) ==
  [call |-> c, attempt |-> n, key |-> IF n = 0 THEN k ELSE CHOOSE x \in Keys : x # k,
   body |-> b]
BugFreshBody(c, k, b, n) == [call |-> c, attempt |-> n, key |-> k, body |-> builder.plan]
Request(c, k, b, n) == [call |-> c, attempt |-> n, key |-> k, body |-> b]

Post(c, k, b, n) ==
  /\ requests' = requests \cup {Request(c, k, b, n)}
  /\ sent' = sent \cup {Request(c, k, b, n)}
  /\ pc' = [pc EXCEPT ![c] = "posting"]
  /\ attempt' = [attempt EXCEPT ![c] = n]

\* submit(plan) up to the first post.  An application uses a key of its own again for
\* the same plan only.
Submit(c, k, p) ==
  /\ pc[c] = "idle" /\ ~closed
  /\ \A r \in sent : r.key = k => r.body = p
  /\ key' = [key EXCEPT ![c] = k]
  /\ body' = [body EXCEPT ![c] = p]
  /\ Post(c, k, p, 0)
  /\ UNCHANGED <<builder, error, closed, http, replies, serverVars>>

\* Turn.submit: the plan is built, which a sealed builder refuses.
TurnSubmit(c, k) == ~builder.closed /\ Submit(c, k, builder.plan)

\* The answer of an attempt is taken at most once, and none after the attempt ended.
Waiting(c, r) == pc[c] = "posting" /\ r.call = c /\ r.attempt = attempt[c]
Forget(c) == replies' = {r \in replies : r.call # c}

\* `if attempt + 1 < attempts: sleep`, or the TransportError after the loop.
BugGivesUpEarly(c) ==
  pc' = [pc EXCEPT ![c] = IF attempt[c] + 1 < Retries THEN "sleeping" ELSE "transport_error"]
BugRetryOrFail(c) ==
  pc' = [pc EXCEPT ![c] = "sleeping"]
RetryOrFail(c) ==
  pc' = [pc EXCEPT ![c] = IF attempt[c] < Retries THEN "sleeping" ELSE "transport_error"]

BugRetriedStatuses == {502, 503}
RetriedStatuses == {502, 503, 504}

Receive(c, r) ==
  /\ r \in replies /\ Waiting(c, r)
  /\ Forget(c)
  /\ \/ /\ r.status = 202   \* parse_accepted, which may raise
        /\ \E end \in {"accepted", "protocol_error"} : pc' = [pc EXCEPT ![c] = end]
        /\ UNCHANGED error
     \/ r.status \in RetriedStatuses /\ RetryOrFail(c) /\ UNCHANGED error
     \/ /\ r.status # 202 /\ r.status \notin RetriedStatuses
        /\ pc' = [pc EXCEPT ![c] = "api_error"]
        /\ error' = [error EXCEPT ![c] = r.status]
  /\ UNCHANGED <<builder, key, body, attempt, closed, http, requests, serverVars, sent>>

\* httpx.TransportError: timeout, refused or broken connection, pool closed meanwhile.
PostFails(c) ==
  /\ pc[c] = "posting"
  /\ Forget(c)
  /\ RetryOrFail(c)
  /\ UNCHANGED <<builder, key, body, attempt, error, closed, http, requests, serverVars, sent>>

BugRetry(c) ==
  /\ pc[c] = "sleeping"
  /\ \/ http = "open" /\ Post(c, key[c], body[c], attempt[c])
     \/ /\ http = "closed"
        /\ pc' = [pc EXCEPT ![c] = "runtime_error"]
        /\ UNCHANGED <<requests, sent, attempt>>
  /\ UNCHANGED <<builder, key, body, error, closed, http, replies, serverVars>>

\* The sleep ends and the next attempt is posted; a closed httpx client refuses it with
\* a RuntimeError, which no handler of submit() catches.
Retry(c) ==
  /\ pc[c] = "sleeping"
  /\ \/ http = "open" /\ Post(c, key[c], body[c], attempt[c] + 1)
     \/ /\ http = "closed"
        /\ pc' = [pc EXCEPT ![c] = "runtime_error"]
        /\ UNCHANGED <<requests, sent, attempt>>
  /\ UNCHANGED <<builder, key, body, error, closed, http, replies, serverVars>>

\* The task is cancelled at one of the awaits; the request stays where it is.
Cancel(c) ==
  /\ pc[c] \in InProgress
  /\ pc' = [pc EXCEPT ![c] = "cancelled"]
  /\ Forget(c)
  /\ UNCHANGED <<builder, key, body, attempt, error, closed, http, requests, serverVars, sent>>

-----------------------------------------------------------------------------
(* close(): _closed and the seal, and later the connection pool            *)

CloseBegin ==
  /\ ~closed
  /\ closed' = TRUE
  /\ builder' = [builder EXCEPT !.closed = TRUE]
  /\ UNCHANGED <<callVars, http, requests, replies, serverVars, sent>>

CloseHttp ==
  /\ closed /\ http = "open"
  /\ http' = "closed"
  /\ UNCHANGED <<builder, callVars, closed, requests, replies, serverVars, sent>>

-----------------------------------------------------------------------------
(* The command endpoint and the network (external)                         *)

\* An attempt gets one response at most.
Reply(r, status) ==
  replies' = IF /\ pc[r.call] = "posting" /\ attempt[r.call] = r.attempt
                /\ \A m \in replies : m.call # r.call
               THEN replies \cup {[call |-> r.call, attempt |-> r.attempt, status |-> status]}
               ELSE replies

\* A known key gets its verdict again; a new plan is stored, or refused.
Answers(k) == IF answered[k] = None THEN {202} \cup Refusals ELSE {answered[k]}

Process(r) ==
  /\ r \in requests /\ requests' = requests \ {r}
  /\ \E a \in Answers(r.key) :
       /\ answered' = [answered EXCEPT ![r.key] = a]
       /\ stored' = IF a = 202 /\ answered[r.key] = None THEN r.body ELSE stored
       /\ Reply(r, a)
  /\ UNCHANGED <<builder, callVars, closed, http, sent>>

\* An answer that is no verdict: 502-504 of a gateway, which submit() retries, or one it
\* takes for definite (429, 500).  The request may still be judged, or have been judged under
\* an earlier attempt.
GatewayAnswers(r) ==
  /\ r \in requests /\ \E s \in GatewayStatuses : Reply(r, s)
  /\ UNCHANGED <<builder, callVars, closed, http, requests, serverVars, sent>>

-----------------------------------------------------------------------------
CallStep(c) ==
  \/ (\E r \in replies : Receive(c, r)) \/ PostFails(c) \/ Retry(c)

Next ==
  \/ \E p \in Plans : Edit(p)
  \/ Seal
  \/ \E c \in Calls : CallStep(c) \/ Cancel(c)
  \/ \E c \in Calls : \E k \in {c} \cup CallerKeys :
       TurnSubmit(c, k) \/ \E p \in Plans : Submit(c, k, p)
  \/ CloseBegin \/ CloseHttp
  \/ \E r \in requests : Process(r) \/ GatewayAnswers(r)

Spec == Init /\ [][Next]_vars

\* The event loop runs a task that can run, and a post ends: each of its connects, writes
\* and reads at the latest when request_timeout expires, an answer in drips at some time.
FairSpec == Spec /\ \A c \in Calls : WF_vars(CallStep(c))

-----------------------------------------------------------------------------
(* Properties                                                              *)

TypeOK ==
  /\ builder \in [plan: Plans, closed: BOOLEAN]
  /\ pc \in [Calls -> {"idle", "accepted"} \cup InProgress \cup Failures]
  /\ key \in [Calls -> Keys \cup {NoKey}]
  /\ body \in [Calls -> Plans \cup {NoPlan}]
  /\ attempt \in [Calls -> 0..Retries] /\ error \in [Calls -> Nat]
  /\ closed \in BOOLEAN /\ http \in {"open", "closed"}
  /\ requests \subseteq sent /\ sent \subseteq Requests
  /\ replies \subseteq [call: Calls, attempt: Nat, status: Nat]
  /\ answered \in [Keys -> Nat]
  /\ stored \in Plans \cup {NoPlan}

\* Every attempt of one call carries the same key and the same body, whatever is done to
\* the Turn between two attempts (submit computes both before its loop).
ExactRetry ==
  \A r1, r2 \in sent : r1.call = r2.call => r1.key = r2.key /\ r1.body = r2.body

\* A key never carries two plans, on the wire or at the endpoint.
OnePlanPerKey == \A r1, r2 \in sent : r1.key = r2.key => r1.body = r2.body

\* What a failed submit() tells its caller: an APIError is never one of the outcomes left
\* open that the code retries; when it carries a refusal of the endpoint, no request of the
\* call took effect or ever will, however many attempts are still on the way; and a
\* TransportError comes only after every attempt was made under the key of the call.  (An
\* APIError with another status tells nothing of the plan; see README.)
FailuresTell ==
  \A c \in Calls :
    /\ pc[c] = "api_error" => error[c] \notin {502, 503, 504}
    /\ pc[c] = "api_error" /\ error[c] \in Refusals =>
         \A r \in sent : r.call = c => answered[r.key] = error[c]
    /\ pc[c] = "transport_error" =>
         \A n \in 0..Retries : \E r \in sent : r.call = c /\ r.attempt = n /\ r.key = key[c]

\* A call that has begun ends.
CallsEnd == \A c \in Calls : pc[c] \in InProgress ~> pc[c] \notin InProgress

\* submit() implements PlanStore: at most one effect per key, and Accepted only after it.
AbstractState(p) ==
  CASE p = "idle" -> "idle"
    [] p \in InProgress -> "pending"
    [] p = "accepted" -> "accepted"
    [] OTHER -> "failed"
OfferedUnder(k, rs) ==
  IF \E r \in rs : r.key = k THEN (CHOOSE r \in rs : r.key = k).body ELSE NoPlan
AppliedUnder(as) == [k \in Keys |-> as[k] = 202]

Store == INSTANCE PlanStore WITH
  state <- [c \in Calls |-> AbstractState(pc[c])],
  offered <- [k \in Keys |-> OfferedUnder(k, sent)],
  applied <- AppliedUnder(answered)

StoreSpec == Store!Spec
=============================================================================
