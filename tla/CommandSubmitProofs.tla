------------------------ MODULE CommandSubmitProofs ------------------------
(* Proofs about CommandSubmit, for any number of calls, keys, plans and     *)
(* retries: the safety of the retries, and that submit() implements         *)
(* PlanStore.                                                               *)
EXTENDS CommandSubmit, TLAPS

-----------------------------------------------------------------------------
(* The inductive invariant                                                  *)

\* Every request ever sent is one of its call: its key and body are those the call
\* computed at its begin, and there is one as soon as the call has begun.
Sending ==
  /\ \A r \in sent : r.key = key[r.call] /\ r.body = body[r.call] /\ pc[r.call] # "idle"
  /\ \A c \in Calls : pc[c] # "idle" =>
       \E r \in sent : r.call = c /\ r.key = key[c] /\ r.body = body[c]

\* The verdicts of the endpoint.
Verdicts == {202} \cup Refusals
Answered == \A k \in Keys : answered[k] \in {None} \cup Verdicts

\* A verdict on its way to a call is the endpoint's for the key of the call.
Answering ==
  \A m \in replies :
    /\ m.status \in Verdicts \cup GatewayStatuses /\ pc[m.call] # "idle"
    /\ m.status \in Verdicts => answered[key[m.call]] = m.status

\* What a call that ended with an answer knows of the endpoint.
Ending ==
  \A c \in Calls :
    /\ pc[c] = "accepted" => answered[key[c]] = 202
    /\ pc[c] = "api_error" =>
         /\ error[c] \notin RetriedStatuses
         /\ error[c] \in Refusals => answered[key[c]] = error[c]

\* Every attempt up to the current one was made; a call gives up after the last.
Trying ==
  \A c \in Calls :
    /\ pc[c] # "idle" => \A n \in 0..attempt[c] : \E r \in sent : r.call = c /\ r.attempt = n
    /\ pc[c] = "transport_error" => attempt[c] = Retries

\* A call sleeps before an attempt it still has.
Retrying == \A c \in Calls : pc[c] = "sleeping" => attempt[c] < Retries

SubmitSafe ==
  /\ Retrying /\ Sending /\ OnePlanPerKey
  /\ Answered /\ Answering /\ Ending /\ Trying
SInv == TypeOK /\ SubmitSafe

-----------------------------------------------------------------------------
(* Typing                                                                   *)

Replies == [call: Calls, attempt: Nat, status: Nat]

LEMMA SubmitTypeInit == Init => TypeOK
<1> SUFFICES ASSUME Init PROVE TypeOK
  OBVIOUS
<1>1. builder \in [plan: Plans, closed: BOOLEAN]
  BY DEF Init
<1>2. 0 \in 0..Retries
  BY SubmitAssumption
<1>3. /\ pc \in [Calls -> {"idle", "accepted"} \cup InProgress \cup Failures]
      /\ key \in [Calls -> Keys \cup {NoKey}] /\ body \in [Calls -> Plans \cup {NoPlan}]
      /\ attempt \in [Calls -> 0..Retries] /\ error \in [Calls -> Nat]
  BY <1>2 DEF Init, None
<1>4. answered \in [Keys -> Nat]
  BY DEF Init, None
<1> QED BY <1>1, <1>3, <1>4 DEF Init, TypeOK

\* The three ways an attempt starts.
LEMMA PostType ==
  ASSUME TypeOK, NEW c \in Calls, NEW k \in Keys, NEW p \in Plans, NEW n \in 0..Retries,
         Post(c, k, p, n)
  PROVE  /\ pc' \in [Calls -> {"idle", "accepted"} \cup InProgress \cup Failures]
         /\ attempt' \in [Calls -> 0..Retries]
         /\ requests' \subseteq sent' /\ sent' \subseteq Requests
<1>1. Request(c, k, p, n) \in Requests
  BY SubmitAssumption DEF Request, Requests
<1> QED BY <1>1 DEF Post, TypeOK, InProgress

LEMMA RetryOrFailType ==
  ASSUME TypeOK, NEW c \in Calls, RetryOrFail(c)
  PROVE  pc' \in [Calls -> {"idle", "accepted"} \cup InProgress \cup Failures]
BY DEF RetryOrFail, TypeOK, InProgress, Failures

\* A call that has begun has its own key and plan.
LEMMA BegunCall ==
  ASSUME TypeOK, Sending, NEW c \in Calls, pc[c] # "idle"
  PROVE  key[c] \in Keys /\ body[c] \in Plans
<1>1. PICK r \in sent : r.key = key[c] /\ r.body = body[c]
  BY DEF Sending
<1>2. r \in Requests
  BY <1>1 DEF TypeOK
<1> QED BY <1>1, <1>2 DEF Requests

LEMMA SubmitTypeStep == TypeOK /\ Sending /\ Retrying /\ [Next]_vars => TypeOK'
<1> SUFFICES ASSUME TypeOK, Sending, Retrying, [Next]_vars PROVE TypeOK'
  OBVIOUS
<1>1. ASSUME NEW p \in Plans, Edit(p) PROVE TypeOK'
  <2>1. builder' \in [plan: Plans, closed: BOOLEAN]
    BY <1>1 DEF Edit, TypeOK
  <2> QED BY <1>1, <2>1 DEF Edit, TypeOK, callVars, serverVars
<1>2. CASE Seal \/ CloseBegin
  <2>1. builder' \in [plan: Plans, closed: BOOLEAN]
    BY <1>2 DEF Seal, CloseBegin, TypeOK
  <2> QED BY <1>2, <2>1 DEF Seal, CloseBegin, TypeOK, callVars, serverVars
<1>3. ASSUME NEW c \in Calls, NEW k \in Keys, NEW p \in Plans, Submit(c, k, p)
      PROVE  TypeOK'
  <2>1. 0 \in 0..Retries
    BY SubmitAssumption
  <2>2. Post(c, k, p, 0)
    BY <1>3 DEF Submit
  <2>3. /\ key' \in [Calls -> Keys \cup {NoKey}]
        /\ body' \in [Calls -> Plans \cup {NoPlan}]
    BY <1>3 DEF Submit, TypeOK
  <2> QED BY <1>3, <2>1, <2>2, <2>3, PostType DEF Submit, TypeOK, serverVars
<1>4. ASSUME NEW c \in Calls, NEW m \in replies, Receive(c, m) PROVE TypeOK'
  <2>1. pc' \in [Calls -> {"idle", "accepted"} \cup InProgress \cup Failures]
    BY <1>4, RetryOrFailType DEF Receive, TypeOK, Failures
  <2>2. m.status \in Nat
    BY DEF TypeOK
  <2>3. error' \in [Calls -> Nat]
    BY <1>4, <2>2 DEF Receive, TypeOK
  <2> QED BY <1>4, <2>1, <2>3 DEF Receive, Forget, TypeOK, serverVars
<1>5. ASSUME NEW c \in Calls, PostFails(c) \/ Cancel(c) PROVE TypeOK'
  <2>1. pc' \in [Calls -> {"idle", "accepted"} \cup InProgress \cup Failures]
    BY <1>5, RetryOrFailType DEF PostFails, Cancel, TypeOK, Failures
  <2> QED BY <1>5, <2>1 DEF PostFails, Cancel, Forget, TypeOK, serverVars
<1>6. ASSUME NEW c \in Calls, Retry(c) PROVE TypeOK'
  <2>1. key[c] \in Keys /\ body[c] \in Plans
    BY <1>6, BegunCall DEF Retry
  <2>2. attempt[c] + 1 \in 0..Retries
    BY <1>6, SubmitAssumption DEF Retry, Retrying, TypeOK
  <2>3. CASE http = "open"
    <3>1. Post(c, key[c], body[c], attempt[c] + 1)
      BY <1>6, <2>3 DEF Retry
    <3> QED BY <1>6, <3>1, <2>1, <2>2, PostType DEF Retry, TypeOK, serverVars
  <2>4. CASE http # "open"
    <3>1. pc' \in [Calls -> {"idle", "accepted"} \cup InProgress \cup Failures]
      BY <1>6, <2>4 DEF Retry, TypeOK, Failures
    <3> QED BY <1>6, <2>4, <3>1 DEF Retry, TypeOK, serverVars
  <2> QED BY <2>3, <2>4
<1>7. CASE CloseHttp
  BY <1>7 DEF CloseHttp, TypeOK, callVars, serverVars
<1>8. ASSUME NEW r \in requests, NEW a \in Nat, Reply(r, a)
      PROVE  replies' \subseteq Replies
  <2>1. r \in Requests
    BY DEF TypeOK
  <2>2. [call |-> r.call, attempt |-> r.attempt, status |-> a] \in Replies
    BY <2>1 DEF Requests, Replies
  <2> QED BY <1>8, <2>2 DEF Reply, TypeOK, Replies
<1>9. ASSUME NEW r \in requests, Process(r) PROVE TypeOK'
  <2>1. r \in Requests
    BY DEF TypeOK
  <2>2. r.key \in Keys /\ r.body \in Plans
    BY <2>1 DEF Requests
  <2>3. PICK a \in Answers(r.key) :
          /\ answered' = [answered EXCEPT ![r.key] = a]
          /\ stored' = IF a = 202 /\ answered[r.key] = None THEN r.body ELSE stored
          /\ Reply(r, a)
    BY <1>9 DEF Process
  <2>4. a \in Nat
    BY <2>2, <2>3, SubmitAssumption DEF Answers, TypeOK
  <2>5. replies' \subseteq Replies
    BY <1>8, <2>3, <2>4
  <2>6. answered' \in [Keys -> Nat] /\ stored' \in Plans \cup {NoPlan}
    BY <2>2, <2>3, <2>4 DEF TypeOK
  <2> QED BY <1>9, <2>5, <2>6 DEF Process, TypeOK, Replies, callVars
<1>10. ASSUME NEW r \in requests, GatewayAnswers(r) PROVE TypeOK'
  <2>1. replies' \subseteq Replies
    BY <1>8, <1>10, SubmitAssumption DEF GatewayAnswers
  <2> QED BY <1>10, <2>1 DEF GatewayAnswers, TypeOK, Replies, callVars, serverVars
<1>11. CASE UNCHANGED vars
  BY <1>11 DEF vars, callVars, serverVars, TypeOK
<1>12. ASSUME NEW c \in Calls, NEW k \in {c} \cup CallerKeys, TurnSubmit(c, k) PROVE TypeOK'
  <2>1. k \in Keys /\ builder.plan \in Plans
    BY DEF Keys, TypeOK
  <2> QED BY <1>12, <2>1, <1>3 DEF TurnSubmit
<1> QED
  BY <1>1, <1>2, <1>3, <1>4, <1>5, <1>6, <1>7, <1>9, <1>10, <1>11, <1>12
  DEF Next, CallStep, Keys

-----------------------------------------------------------------------------
(* The other parts of the invariant                                         *)

LEMMA SafetyInitSubmit == Init => SubmitSafe
BY DEF Init, SubmitSafe, Retrying, Sending, OnePlanPerKey, Answered, Answering, Ending, Trying

SameBegun == \A x \in Calls : pc'[x] = "idle" <=> pc[x] = "idle"
NoNewAnswer ==
  \A x \in Calls : pc'[x] \in {"accepted", "api_error"} => pc'[x] = pc[x]

LEMMA CallFields ==
  ASSUME TypeOK
  PROVE  /\ \A r \in sent : r.call \in Calls /\ r.key \in Keys /\ r.body \in Plans
         /\ \A m \in replies : m.call \in Calls
BY DEF TypeOK, Requests

\* Steps that send nothing.
LEMMA KeptSent ==
  ASSUME TypeOK, Sending, OnePlanPerKey, UNCHANGED <<sent, key, body>>, SameBegun
  PROVE  Sending' /\ OnePlanPerKey'
BY CallFields DEF Sending, OnePlanPerKey, SameBegun

\* Steps that neither bring nor take an answer.
LEMMA KeptAnswers ==
  ASSUME TypeOK, Answering, Ending, UNCHANGED <<key, answered, error>>, replies' \subseteq replies,
         SameBegun, NoNewAnswer
  PROVE  Answering' /\ Ending'
<1>1. Answering'
  BY CallFields DEF Answering, SameBegun
<1>2. Ending'
  BY DEF Ending, NoNewAnswer
<1> QED BY <1>1, <1>2

\* Steps that neither send nor give up.
LEMMA KeptTries ==
  ASSUME Trying, UNCHANGED <<sent, attempt>>, SameBegun,
         \A x \in Calls : pc'[x] = "transport_error" => pc[x] = pc'[x]
  PROVE  Trying'
BY DEF Trying, SameBegun

\* A request of the first attempt, or of the next one.
LEMMA TriedOne ==
  ASSUME TypeOK, Trying, NEW c \in Calls, NEW k, NEW p, NEW n \in 0..Retries, Post(c, k, p, n),
         n = 0 \/ (pc[c] # "idle" /\ n = attempt[c] + 1)
  PROVE  Trying'
<1> DEFINE R == [call |-> c, attempt |-> n, key |-> k, body |-> p]
<1>1. sent' = sent \cup {R} /\ R.call = c /\ R.attempt = n
  BY DEF Post, Request
<1> HIDE DEF R
<1>2. /\ pc'[c] = "posting" /\ attempt'[c] = n
      /\ \A x \in Calls : x # c => pc'[x] = pc[x] /\ attempt'[x] = attempt[x]
  BY DEF Post, TypeOK
<1>3. ASSUME NEW m \in 0..n PROVE \E r \in sent' : r.call = c /\ r.attempt = m
  <2>1. CASE m = n
    BY <1>1, <2>1
  <2>2. CASE m # n
    <3>1. pc[c] # "idle" /\ m \in 0..attempt[c]
      BY <2>2, SubmitAssumption DEF TypeOK
    <3> QED BY <1>1, <3>1 DEF Trying
  <2> QED BY <2>1, <2>2
<1>4. ASSUME NEW x \in Calls, x # c, pc[x] # "idle", NEW m \in 0..attempt[x]
      PROVE  \E r \in sent' : r.call = x /\ r.attempt = m
  BY <1>1, <1>4 DEF Trying
<1>5. \A x \in Calls : x # c => (pc'[x] = "transport_error" => attempt'[x] = Retries)
  BY <1>2 DEF Trying
<1> QED BY <1>2, <1>3, <1>4, <1>5 DEF Trying

\* A request of a call that has no other key and plan than the ones it sends.
LEMMA SentOne ==
  ASSUME TypeOK, Sending, OnePlanPerKey, NEW c \in Calls, NEW k \in Keys, NEW p \in Plans,
         NEW n \in Nat, Post(c, k, p, n),
         key' = [key EXCEPT ![c] = k], body' = [body EXCEPT ![c] = p],
         pc[c] = "idle" \/ (key[c] = k /\ body[c] = p),
         \A r \in sent : r.key = k => r.body = p
  PROVE  Sending' /\ OnePlanPerKey'
<1> DEFINE R == [call |-> c, attempt |-> n, key |-> k, body |-> p]
<1>1. sent' = sent \cup {R} /\ pc' = [pc EXCEPT ![c] = "posting"]
  BY DEF Post, Request
<1>2. R.call = c /\ R.key = k /\ R.body = p
  OBVIOUS
<1>3. key'[c] = k /\ body'[c] = p /\ pc'[c] = "posting"
  BY <1>1 DEF TypeOK
<1>4. \A x \in Calls : x # c => key'[x] = key[x] /\ body'[x] = body[x] /\ pc'[x] = pc[x]
  BY <1>1 DEF TypeOK
<1>5. \A r \in sent' : r.key = key'[r.call] /\ r.body = body'[r.call] /\ pc'[r.call] # "idle"
  <2> SUFFICES ASSUME NEW r \in sent'
               PROVE  r.key = key'[r.call] /\ r.body = body'[r.call] /\ pc'[r.call] # "idle"
    OBVIOUS
  <2>1. CASE r = R
    BY <2>1, <1>2, <1>3
  <2>2. CASE r \in sent
    <3>1. r.call \in Calls /\ r.key = key[r.call] /\ r.body = body[r.call]
          /\ pc[r.call] # "idle"
      BY <2>2, CallFields DEF Sending
    <3>2. CASE r.call = c
      BY <3>1, <3>2, <1>3
    <3>3. CASE r.call # c
      BY <3>1, <3>3, <1>4
    <3> QED BY <3>2, <3>3
  <2> QED BY <1>1, <2>1, <2>2
<1>6. \A x \in Calls : pc'[x] # "idle" =>
        \E r \in sent' : r.call = x /\ r.key = key'[x] /\ r.body = body'[x]
  <2> SUFFICES ASSUME NEW x \in Calls, pc'[x] # "idle"
               PROVE  \E r \in sent' : r.call = x /\ r.key = key'[x] /\ r.body = body'[x]
    OBVIOUS
  <2>1. CASE x = c
    <3>1. R \in sent'
      BY <1>1
    <3> QED BY <3>1, <2>1, <1>2, <1>3
  <2>2. CASE x # c
    <3>1. PICK r \in sent : r.call = x /\ r.key = key[x] /\ r.body = body[x]
      BY <2>2, <1>4 DEF Sending
    <3>2. r \in sent'
      BY <1>1
    <3> QED BY <3>1, <3>2, <2>2, <1>4
  <2> QED BY <2>1, <2>2
<1>7. OnePlanPerKey'
  BY <1>1, <1>2 DEF OnePlanPerKey
<1> HIDE DEF R
<1> QED BY <1>5, <1>6, <1>7 DEF Sending

LEMMA SubmitKeeps ==
  ASSUME SInv, NEW c \in Calls, NEW k \in Keys, NEW p \in Plans, Submit(c, k, p)
  PROVE  SubmitSafe'
<1> USE DEF SInv, SubmitSafe
<1>1. /\ Post(c, k, p, 0) /\ pc[c] = "idle"
      /\ key' = [key EXCEPT ![c] = k] /\ body' = [body EXCEPT ![c] = p]
      /\ \A r \in sent : r.key = k => r.body = p
      /\ UNCHANGED <<replies, answered, error>>
  BY DEF Submit, serverVars
<1>2. Sending' /\ OnePlanPerKey'
  BY <1>1, SentOne
<1>3. /\ pc'[c] = "posting"
      /\ \A x \in Calls : x # c => /\ key'[x] = key[x] /\ pc'[x] = pc[x]
                                   /\ attempt'[x] = attempt[x]
  BY <1>1 DEF Post, TypeOK
<1>4. Retrying'
  BY <1>3 DEF Retrying
<1>5. Answering'
  <2> SUFFICES ASSUME NEW m \in replies
               PROVE  /\ m.status \in Verdicts \cup GatewayStatuses /\ pc'[m.call] # "idle"
                      /\ m.status \in Verdicts => answered[key'[m.call]] = m.status
    BY <1>1 DEF Answering
  <2>1. m.call \in Calls /\ m.call # c
    BY <1>1, CallFields DEF Answering
  <2> QED BY <2>1, <1>3 DEF Answering
<1>6. Ending'
  BY <1>1, <1>3 DEF Ending
<1>7. Answered'
  BY <1>1 DEF Answered
<1>8. Trying'
  BY <1>1, SubmitAssumption, TriedOne
<1> QED BY <1>2, <1>4, <1>5, <1>6, <1>7, <1>8

LEMMA RetryOrFailPc ==
  ASSUME TypeOK, Retrying, Trying, NEW c \in Calls, RetryOrFail(c), pc[c] # "idle",
         UNCHANGED <<attempt, sent>>
  PROVE  SameBegun /\ NoNewAnswer /\ Retrying' /\ Trying'
<1>1. pc'[c] = IF attempt[c] < Retries THEN "sleeping" ELSE "transport_error"
  BY DEF RetryOrFail, TypeOK
<1>2. \A x \in Calls : x # c => pc'[x] = pc[x]
  BY DEF RetryOrFail, TypeOK
<1>3. SameBegun /\ NoNewAnswer /\ Retrying'
  BY <1>1, <1>2 DEF SameBegun, NoNewAnswer, Retrying
<1>4. attempt[c] \in 0..Retries /\ Retries \in Nat
  BY SubmitAssumption DEF TypeOK
<1>5. Trying'
  BY <1>1, <1>2, <1>3, <1>4 DEF SameBegun, Trying
<1> QED BY <1>3, <1>5

LEMMA ReceiveKeeps ==
  ASSUME SInv, NEW c \in Calls, NEW m \in replies, Receive(c, m)
  PROVE  SubmitSafe'
<1> USE DEF SInv, SubmitSafe
<1>1. /\ pc[c] = "posting" /\ m.call = c
      /\ UNCHANGED <<key, body, attempt, answered, sent>>
  BY DEF Receive, Waiting, serverVars
<1>2. replies' \subseteq replies /\ Answered'
  BY <1>1 DEF Receive, Forget, Answered
<1>3. CASE RetryOrFail(c) /\ UNCHANGED error
  <2>1. SameBegun /\ NoNewAnswer /\ Retrying' /\ Trying'
    BY <1>1, <1>3, RetryOrFailPc
  <2> QED BY <1>1, <1>2, <1>3, <2>1, KeptSent, KeptAnswers
<1>4. CASE ~(RetryOrFail(c) /\ UNCHANGED error)
  <2>1. PICK end \in {"accepted", "protocol_error", "api_error"} :
          /\ pc' = [pc EXCEPT ![c] = end]
          /\ end = "accepted" => m.status = 202
          /\ end = "api_error" => /\ m.status \notin {202} \cup RetriedStatuses
                                  /\ error' = [error EXCEPT ![c] = m.status]
          /\ end # "api_error" => UNCHANGED error
    BY <1>4 DEF Receive
  <2>2. pc'[c] = end /\ \A x \in Calls : x # c => pc'[x] = pc[x]
    BY <2>1 DEF TypeOK
  <2>3. SameBegun
    BY <1>1, <2>2 DEF SameBegun
  <2>4. Retrying' /\ Trying'
    BY <1>1, <2>2, <2>3, KeptTries DEF Retrying
  <2>5. Answering'
    BY <1>1, <1>2, <2>3, CallFields DEF Answering, SameBegun
  <2>6. m.status \in Verdicts => answered[key[c]] = m.status
    BY <1>1 DEF Answering
  <2>7. /\ end = "accepted" => answered[key[c]] = 202
        /\ end = "api_error" => /\ error'[c] \notin RetriedStatuses
                                /\ error'[c] \in Refusals => answered[key[c]] = error'[c]
    BY <2>1, <2>6 DEF Verdicts, TypeOK
  <2>8. \A x \in Calls : x # c => error'[x] = error[x]
    BY <2>1 DEF TypeOK
  <2>9. Ending'
    BY <1>1, <2>2, <2>7, <2>8 DEF Ending
  <2> QED BY <1>1, <1>2, <2>3, <2>4, <2>5, <2>9, KeptSent
<1> QED BY <1>3, <1>4

LEMMA RetryKeeps ==
  ASSUME SInv, NEW c \in Calls, Retry(c)
  PROVE  SubmitSafe'
<1> USE DEF SInv, SubmitSafe
<1>1. pc[c] = "sleeping" /\ UNCHANGED <<key, body, replies, answered, error>>
  BY DEF Retry, serverVars
<1>2. /\ pc'[c] \in {"posting", "runtime_error"}
      /\ \A x \in Calls : x # c => pc'[x] = pc[x] /\ attempt'[x] = attempt[x]
  BY DEF Retry, Post, TypeOK
<1>3. SameBegun /\ NoNewAnswer /\ Retrying'
  BY <1>1, <1>2 DEF SameBegun, NoNewAnswer, Retrying
<1>4. Answered' /\ Answering' /\ Ending'
  BY <1>1, <1>3, KeptAnswers DEF Answered
<1>5. CASE http = "open"
  <2>1. Post(c, key[c], body[c], attempt[c] + 1)
    BY <1>5 DEF Retry
  <2>2. key[c] \in Keys /\ body[c] \in Plans
    BY <1>1, BegunCall
  <2>3. attempt[c] + 1 \in Nat
    BY SubmitAssumption DEF TypeOK
  <2>4. key' = [key EXCEPT ![c] = key[c]] /\ body' = [body EXCEPT ![c] = body[c]]
    BY <1>1 DEF TypeOK
  <2>5. \A r \in sent : r.key = key[c] => r.body = body[c]
    <3>1. PICK q \in sent : q.key = key[c] /\ q.body = body[c]
      BY <1>1 DEF Sending
    <3> QED BY <3>1 DEF OnePlanPerKey
  <2>6. Sending' /\ OnePlanPerKey'
    BY <2>1, <2>2, <2>3, <2>4, <2>5, SentOne
  <2>7. attempt[c] + 1 \in 0..Retries
    BY <1>1, SubmitAssumption DEF Retrying, TypeOK
  <2>8. Trying'
    BY <1>1, <2>1, <2>7, TriedOne
  <2> QED BY <1>3, <1>4, <2>6, <2>8
<1>6. CASE http # "open"
  <2>1. UNCHANGED <<sent, attempt>>
    BY <1>6 DEF Retry
  <2>2. Trying'
    BY <1>2, <1>3, <2>1, KeptTries
  <2> QED BY <1>1, <1>3, <1>4, <2>1, <2>2, KeptSent
<1> QED BY <1>5, <1>6

LEMMA ReplyFields ==
  ASSUME SInv, NEW r \in requests, NEW a \in Verdicts \cup GatewayStatuses, Reply(r, a),
         NEW m \in replies', m \notin replies
  PROVE  /\ m.status = a /\ m.call = r.call /\ pc[m.call] # "idle"
         /\ r.key = key[m.call] /\ r.call \in Calls
<1>1. m = [call |-> r.call, attempt |-> r.attempt, status |-> a]
  BY DEF Reply
<1>2. r \in sent
  BY DEF SInv, TypeOK
<1> QED BY <1>1, <1>2, CallFields DEF SInv, SubmitSafe, Sending

LEMMA ProcessKeeps ==
  ASSUME SInv, NEW r \in requests, Process(r)
  PROVE  SubmitSafe'
<1> USE DEF SInv, SubmitSafe
<1>1. UNCHANGED <<pc, key, body, attempt, error, sent>>
  BY DEF Process, callVars
<1>2. PICK a \in Answers(r.key) : answered' = [answered EXCEPT ![r.key] = a] /\ Reply(r, a)
  BY DEF Process
<1>3. r.key \in Keys
  BY CallFields DEF TypeOK
<1>4. \A k \in Keys : answered[k] # None => answered'[k] = answered[k]
  BY <1>2, <1>3 DEF Answers, TypeOK
<1>5. answered'[r.key] = a /\ a \in Verdicts
  BY <1>2, <1>3 DEF TypeOK, Answers, Answered, Verdicts, None
<1>6. Sending' /\ OnePlanPerKey' /\ Retrying' /\ Trying'
  BY <1>1, KeptSent DEF SameBegun, Retrying, Trying
<1>7. \A c \in Calls : pc[c] # "idle" => key[c] \in Keys
  BY BegunCall
<1>8. Ending'
  <2>1. 0 \notin Verdicts
    BY SubmitAssumption DEF Verdicts
  <2> QED BY <1>1, <1>4, <1>7, <2>1 DEF Ending, Verdicts, None
<1>9. \A m \in replies : /\ m.status \in Verdicts \cup GatewayStatuses /\ pc[m.call] # "idle"
                         /\ m.status \in Verdicts => answered'[key[m.call]] = m.status
  <2>1. 0 \notin Verdicts
    BY SubmitAssumption DEF Verdicts
  <2> QED BY <1>4, <1>7, <2>1, CallFields DEF Answering, None
<1>10. \A m \in replies' : m \notin replies =>
         /\ m.status \in Verdicts /\ pc[m.call] # "idle"
         /\ answered'[key[m.call]] = m.status
  BY <1>2, <1>5, ReplyFields
<1>11. Answered'
  BY <1>2, <1>3, <1>5 DEF Answered, TypeOK
<1> QED BY <1>1, <1>6, <1>8, <1>9, <1>10, <1>11 DEF Answering

LEMMA GatewayKeeps ==
  ASSUME SInv, NEW r \in requests, GatewayAnswers(r)
  PROVE  SubmitSafe'
<1> USE DEF SInv, SubmitSafe
<1>1. /\ UNCHANGED <<pc, key, body, attempt, error, answered, sent>>
      /\ \E s \in GatewayStatuses : Reply(r, s)
  BY DEF GatewayAnswers, callVars, serverVars
<1>2. Sending' /\ OnePlanPerKey' /\ Retrying' /\ Answered' /\ Ending' /\ Trying'
  BY <1>1, KeptSent DEF SameBegun, Retrying, Answered, Ending, Trying
<1>3. \A m \in replies' : m \notin replies =>
        m.status \in GatewayStatuses \ Verdicts /\ pc[m.call] # "idle"
  <2>1. GatewayStatuses \cap Verdicts = {}
    BY SubmitAssumption DEF Verdicts
  <2> QED BY <1>1, <2>1, ReplyFields
<1>4. Answering'
  BY <1>1, <1>3 DEF Answering
<1> QED BY <1>2, <1>4

LEMMA SubmitStep == SInv /\ [Next]_vars => SInv'
<1> SUFFICES ASSUME SInv, [Next]_vars PROVE SInv'
  OBVIOUS
<1>1. TypeOK'
  BY SubmitTypeStep DEF SInv, SubmitSafe
<1>2. ASSUME UNCHANGED <<callVars, replies, serverVars, sent>> PROVE SubmitSafe'
  BY <1>2 DEF SInv, SubmitSafe, callVars, serverVars,
              Retrying, Sending, OnePlanPerKey, Answered, Answering, Ending, Trying
<1>3. ASSUME NEW p \in Plans, Edit(p) PROVE SubmitSafe'
  BY <1>2, <1>3 DEF Edit
<1>4. Seal \/ CloseBegin \/ CloseHttp \/ UNCHANGED vars => SubmitSafe'
  BY <1>2 DEF Seal, CloseBegin, CloseHttp, vars, callVars, serverVars
<1>5. ASSUME NEW c \in Calls, PostFails(c) \/ Cancel(c) PROVE SubmitSafe'
  <2>1. /\ replies' \subseteq replies /\ pc[c] # "idle"
        /\ UNCHANGED <<key, body, attempt, error, answered, sent>>
    BY <1>5 DEF PostFails, Cancel, Forget, InProgress, serverVars
  <2>2. PostFails(c) => SameBegun /\ NoNewAnswer /\ Retrying' /\ Trying'
    BY <2>1, RetryOrFailPc DEF PostFails, SInv, SubmitSafe
  <2>3. Cancel(c) => SameBegun /\ NoNewAnswer /\ Retrying' /\ Trying'
    <3> SUFFICES ASSUME Cancel(c) PROVE SameBegun /\ NoNewAnswer /\ Retrying' /\ Trying'
      OBVIOUS
    <3>1. pc'[c] = "cancelled" /\ \A x \in Calls : x # c => pc'[x] = pc[x]
      BY DEF Cancel, SInv, TypeOK
    <3>2. SameBegun /\ NoNewAnswer /\ Retrying'
      BY <2>1, <3>1 DEF SameBegun, NoNewAnswer, Retrying, SInv, SubmitSafe
    <3>3. Trying'
      BY <2>1, <3>1, <3>2, KeptTries DEF SInv, SubmitSafe
    <3> QED BY <3>2, <3>3
  <2>4. SameBegun /\ NoNewAnswer /\ Retrying' /\ Trying'
    BY <1>5, <2>2, <2>3
  <2> QED BY <2>1, <2>4, KeptSent, KeptAnswers DEF SInv, SubmitSafe, Answered
<1>6. ASSUME NEW c \in Calls, NEW k \in {c} \cup CallerKeys,
             TurnSubmit(c, k) \/ \E p \in Plans : Submit(c, k, p)
      PROVE  SubmitSafe'
  <2>1. k \in Keys /\ builder.plan \in Plans
    BY DEF Keys, SInv, TypeOK
  <2> QED BY <1>6, <2>1, SubmitKeeps DEF TurnSubmit
<1>7. SubmitSafe'
  BY <1>3, <1>4, <1>5, <1>6, ReceiveKeeps, RetryKeeps, ProcessKeeps, GatewayKeeps
  DEF Next, CallStep
<1> QED BY <1>1, <1>7 DEF SInv

-----------------------------------------------------------------------------
(* Safety                                                                   *)

\* Every reachable state satisfies the inductive invariant.
THEOREM SubmitInductive == Spec => []SInv
<1>1. Init => SInv
  BY SubmitTypeInit, SafetyInitSubmit DEF SInv
<1> QED BY <1>1, SubmitStep, PTL DEF Spec

\* Type correctness of submission, for every number of calls and retries.
THEOREM SubmitTypeCorrect == Spec => []TypeOK
BY SubmitInductive, PTL DEF SInv

\* Every attempt of a call carries the key and the plan of the first one, whatever
\* happens to the Turn, the client and other calls in between (submit).
THEOREM RetriesAreExact == Spec => []ExactRetry
<1>1. SInv => ExactRetry
  BY DEF SInv, SubmitSafe, Sending, ExactRetry
<1> QED BY <1>1, SubmitInductive, PTL

\* No key ever carries two plans (submit, validate_idempotency_key).
THEOREM KeysCarryOnePlan == Spec => []OnePlanPerKey
BY SubmitInductive, PTL DEF SInv, SubmitSafe

\* What the errors of a call tell (submit, api_error): a refusal is final for every request
\* of the call, an outcome left open is retried and never an APIError, and TransportError
\* comes after the last attempt.
THEOREM FailuresAreTold == Spec => []FailuresTell
<1>1. SInv => FailuresTell
  <2> SUFFICES ASSUME SInv, NEW c \in Calls
               PROVE  /\ pc[c] = "api_error" => error[c] \notin {502, 503, 504}
                      /\ pc[c] = "api_error" /\ error[c] \in Refusals =>
                           \A r \in sent : r.call = c => answered[r.key] = error[c]
                      /\ pc[c] = "transport_error" =>
                           \A n \in 0..Retries :
                             \E r \in sent : r.call = c /\ r.attempt = n /\ r.key = key[c]
    BY DEF FailuresTell
  <2>1. \A r \in sent : r.call = c => r.key = key[c]
    BY DEF SInv, SubmitSafe, Sending
  <2>2. pc[c] = "api_error" => error[c] \notin {502, 503, 504}
    BY DEF SInv, SubmitSafe, Ending, RetriedStatuses
  <2>3. pc[c] = "transport_error" =>
          \A n \in 0..Retries : \E r \in sent : r.call = c /\ r.attempt = n
    BY DEF SInv, SubmitSafe, Trying
  <2>4. ASSUME pc[c] = "api_error", error[c] \in Refusals
        PROVE  \A r \in sent : r.call = c => answered[r.key] = error[c]
    <3>1. answered[key[c]] = error[c]
      BY <2>4 DEF SInv, SubmitSafe, Ending
    <3> QED BY <2>1, <3>1, Zenon
  <2>5. ASSUME pc[c] = "transport_error", NEW n \in 0..Retries
        PROVE  \E r \in sent : r.call = c /\ r.attempt = n /\ r.key = key[c]
    <3>1. PICK r \in sent : r.call = c /\ r.attempt = n
      BY <2>3, <2>5
    <3> QED BY <2>1, <3>1
  <2> QED BY <2>2, <2>4, <2>5, Zenon
<1> QED BY <1>1, SubmitInductive, PTL

-----------------------------------------------------------------------------
(* What is accepted, and what is stored                                     *)

\* Where no key carries two plans, what is offered under the key of a request is its plan.
LEMMA OfferedBody ==
  ASSUME NEW rs, NEW r \in rs, \A r1, r2 \in rs : r1.key = r2.key => r1.body = r2.body
  PROVE  OfferedUnder(r.key, rs) = r.body
<1> DEFINE s == CHOOSE s \in rs : s.key = r.key
<1>1. s \in rs /\ s.key = r.key
  OBVIOUS
<1> QED BY <1>1 DEF OfferedUnder

\* The plan the endpoint has for the tick is that of a request it accepted.
StoredFrom ==
  stored # NoPlan => \E r \in sent : r.body = stored /\ answered[r.key] = 202

\* The endpoint takes a request and answers its key.
LEMMA ProcessAnswers ==
  ASSUME NEW r, Process(r)
  PROVE  \E a \in Answers(r.key) :
           /\ answered' = [answered EXCEPT ![r.key] = a]
           /\ stored' = IF a = 202 /\ answered[r.key] = None THEN r.body ELSE stored
BY ZenonT(60) DEF Process

\* An answer is given once, so the key of the stored plan stays accepted.
LEMMA StoredStep == SInv /\ StoredFrom /\ [Next]_vars => StoredFrom'
<1> SUFFICES ASSUME SInv, StoredFrom, [Next]_vars PROVE StoredFrom'
  OBVIOUS
<1>1. sent \subseteq sent'
  BY DEF Next, vars, callVars, serverVars, Edit, Seal, CallStep, Receive, PostFails, Retry, Post,
         Cancel, TurnSubmit, Submit, CloseBegin, CloseHttp, Process, GatewayAnswers
<1>2. CASE UNCHANGED serverVars
  BY <1>1, <1>2 DEF StoredFrom, serverVars
<1>3. ASSUME NEW r \in requests, Process(r) PROVE StoredFrom'
  <2>1. r \in sent /\ r.key \in Keys /\ answered \in [Keys -> Nat]
    BY DEF SInv, TypeOK, Requests
  <2>2. PICK a \in Answers(r.key) :
          /\ answered' = [answered EXCEPT ![r.key] = a]
          /\ stored' = IF a = 202 /\ answered[r.key] = None THEN r.body ELSE stored
    BY <1>3, ProcessAnswers
  <2>3. \A k \in Keys : answered[k] = 202 => answered'[k] = 202
    BY <2>1, <2>2 DEF Answers, None
  <2>4. CASE a = 202 /\ answered[r.key] = None
    <3>1. answered'[r.key] = 202 /\ stored' = r.body
      BY <2>1, <2>2, <2>4
    <3> QED BY <1>1, <2>1, <3>1 DEF StoredFrom
  <2>5. CASE ~(a = 202 /\ answered[r.key] = None)
    <3>1. stored' = stored
      BY <2>2, <2>5
    <3>2. \A q \in sent : q.key \in Keys
      BY DEF SInv, TypeOK, Requests
    <3> QED BY <1>1, <2>3, <3>1, <3>2 DEF StoredFrom
  <2> QED BY <2>4, <2>5
<1>4. (\A r \in requests : ~Process(r)) => UNCHANGED serverVars
  BY DEF Next, vars, serverVars, Edit, Seal, CallStep, Receive, PostFails, Retry, Post,
         Cancel, TurnSubmit, Submit, CloseBegin, CloseHttp, GatewayAnswers
<1> QED BY <1>2, <1>3, <1>4

\* The plan the game has for the tick was sent under a key it accepted: no plan of a
\* refused key, and no mixture of two calls, is ever stored (submit).
THEOREM StoredWasAccepted == Spec => []StoredFrom
<1>1. Init => StoredFrom
  BY DEF Init, StoredFrom
<1> QED BY <1>1, StoredStep, SubmitInductive, PTL DEF Spec

\* A call that returns Accepted did take effect: the endpoint accepted its key, and the
\* plan that key carries is the plan the call was given, as the Turn had it when submit()
\* began (submit, parse_accepted).
THEOREM AcceptedTookEffect ==
  Spec => [](\A c \in Calls :
               pc[c] = "accepted" =>
                 answered[key[c]] = 202 /\ OfferedUnder(key[c], sent) = body[c])
<1>1. SInv => \A c \in Calls :
                pc[c] = "accepted" =>
                  answered[key[c]] = 202 /\ OfferedUnder(key[c], sent) = body[c]
  <2> SUFFICES ASSUME SInv, NEW c \in Calls, pc[c] = "accepted"
               PROVE  answered[key[c]] = 202 /\ OfferedUnder(key[c], sent) = body[c]
    OBVIOUS
  <2>1. PICK r \in sent : r.key = key[c] /\ r.body = body[c]
    BY DEF SInv, SubmitSafe, Sending
  <2>2. \A r1, r2 \in sent : r1.key = r2.key => r1.body = r2.body
    BY DEF SInv, SubmitSafe, OnePlanPerKey
  <2>3. OfferedUnder(key[c], sent) = body[c]
    BY <2>1, <2>2, OfferedBody
  <2>4. answered[key[c]] = 202
    BY DEF SInv, SubmitSafe, Ending
  <2> QED BY <2>3, <2>4
<1> QED BY <1>1, SubmitInductive, PTL

-----------------------------------------------------------------------------
(* Refinement                                                               *)

LEMMA OfferedNone ==
  ASSUME NEW rs, NEW k, \A r \in rs : r.key # k
  PROVE  OfferedUnder(k, rs) = NoPlan
BY DEF OfferedUnder

\* The offers that another request of key k and plan p leaves.
LEMMA OfferedMore ==
  ASSUME NEW rs, NEW q, \A r1, r2 \in rs \cup {q} : r1.key = r2.key => r1.body = r2.body,
         NEW k
  PROVE  OfferedUnder(k, rs \cup {q}) = IF k = q.key THEN q.body ELSE OfferedUnder(k, rs)
<1>1. CASE k = q.key
  BY <1>1, OfferedBody
<1>2. CASE k # q.key /\ \E r \in rs : r.key = k
  <2>1. PICK r \in rs : r.key = k
    BY <1>2
  <2>2. OfferedUnder(k, rs) = r.body
    BY <2>1, OfferedBody
  <2>3. OfferedUnder(k, rs \cup {q}) = r.body
    BY <2>1, OfferedBody
  <2> QED BY <1>2, <2>2, <2>3
<1>3. CASE k # q.key /\ \A r \in rs : r.key # k
  BY <1>3, OfferedNone
<1> QED BY <1>1, <1>2, <1>3

\* The keys that count as applied, as functions to truth values.
LEMMA AppliedAt ==
  ASSUME NEW f
  PROVE  /\ AppliedUnder(f) \in [Keys -> BOOLEAN]
         /\ \A k \in Keys : AppliedUnder(f)[k] <=> f[k] = 202
BY DEF AppliedUnder

LEMMA SameTruths ==
  ASSUME NEW F \in [Keys -> BOOLEAN], NEW G \in [Keys -> BOOLEAN],
         \A k \in Keys : F[k] <=> G[k]
  PROVE  F = G
OBVIOUS

LEMMA StoreInit == Init => Store!Init
<1> SUFFICES ASSUME Init PROVE Store!Init
  OBVIOUS
<1>1. [c \in Calls |-> AbstractState(pc[c])] = [c \in Calls |-> "idle"]
  <2>1. AbstractState("idle") = "idle"
    BY DEF AbstractState, InProgress
  <2>2. \A c \in Calls : AbstractState(pc[c]) = "idle"
    BY <2>1 DEF Init
  <2> QED BY <2>2
<1>2. [k \in Keys |-> OfferedUnder(k, sent)] = [k \in Keys |-> NoPlan]
  BY DEF Init, OfferedUnder
<1>3. AppliedUnder(answered) = [k \in Keys |-> FALSE]
  <2>1. \A k \in Keys : answered[k] = 0
    BY DEF Init, None
  <2> DEFINE N == [k \in Keys |-> FALSE]
  <2>2. N \in [Keys -> BOOLEAN] /\ \A k \in Keys : ~N[k]
    OBVIOUS
  <2>3. \A k \in Keys : ~AppliedUnder(answered)[k]
    BY <2>1, AppliedAt
  <2> HIDE DEF N
  <2>4. AppliedUnder(answered) = N
    BY <2>2, <2>3, AppliedAt, SameTruths
  <2> QED BY <2>4 DEF N
<1> QED BY <1>1, <1>2, <1>3 DEF Init, Store!Init

\* Steps that the abstract specification does not see.
LEMMA StoreStutter ==
  ASSUME UNCHANGED <<key, sent, answered, stored>>,
         \A x \in Calls : AbstractState(pc'[x]) = AbstractState(pc[x])
  PROVE  UNCHANGED Store!vars
BY DEF Store!vars

LEMMA StoreFail ==
  ASSUME TypeOK, NEW c \in Calls, pc[c] \in InProgress, NEW end \in Failures,
         pc' = [pc EXCEPT ![c] = end], UNCHANGED <<key, sent, answered, stored>>
  PROVE  Store!Fail(c)
<1>1. AbstractState(pc[c]) = "pending" /\ AbstractState(end) = "failed"
  BY DEF AbstractState, InProgress, Failures
<1>2. \A x \in Calls : pc'[x] = IF x = c THEN end ELSE pc[x]
  BY DEF TypeOK
<1>3. [x \in Calls |-> AbstractState(pc'[x])] =
        [[x \in Calls |-> AbstractState(pc[x])] EXCEPT ![c] = "failed"]
  <2>1. \A x \in Calls : AbstractState(pc'[x]) = IF x = c THEN "failed" ELSE AbstractState(pc[x])
    BY <1>1, <1>2
  <2> QED BY <2>1
<1> QED BY <1>1, <1>3 DEF Store!Fail

LEMMA StoreRetryOrFail ==
  ASSUME TypeOK, NEW c \in Calls, pc[c] \in InProgress, RetryOrFail(c),
         UNCHANGED <<key, sent, answered, stored>>
  PROVE  Store!Fail(c) \/ UNCHANGED Store!vars
<1>1. CASE pc' = [pc EXCEPT ![c] = "transport_error"]
  <2>1. "transport_error" \in Failures
    BY DEF Failures
  <2> QED BY <1>1, <2>1, StoreFail
<1>2. CASE pc' = [pc EXCEPT ![c] = "sleeping"]
  <2>1. AbstractState(pc[c]) = "pending" /\ AbstractState("sleeping") = "pending"
    BY DEF AbstractState, InProgress
  <2>2. \A x \in Calls : AbstractState(pc'[x]) = AbstractState(pc[x])
    BY <1>2, <2>1 DEF TypeOK
  <2> QED BY <2>2, StoreStutter
<1> QED BY <1>1, <1>2 DEF RetryOrFail

LEMMA StoreBegin ==
  ASSUME SInv, OnePlanPerKey', NEW c \in Calls, NEW k \in Keys, NEW p \in Plans,
         Submit(c, k, p)
  PROVE  Store!Begin(c, k, p)
<1> DEFINE q == [call |-> c, attempt |-> 0, key |-> k, body |-> p]
<1>1. /\ pc[c] = "idle" /\ pc' = [pc EXCEPT ![c] = "posting"]
      /\ key' = [key EXCEPT ![c] = k] /\ sent' = sent \cup {q}
      /\ \A r \in sent : r.key = k => r.body = p
      /\ UNCHANGED <<answered, stored>>
  BY DEF Submit, Post, Request, serverVars
<1>2. q.key = k /\ q.body = p
  OBVIOUS
<1> HIDE DEF q
<1>3. OfferedUnder(k, sent) \in {NoPlan, p}
  <2>1. CASE \E r \in sent : r.key = k
    BY <1>1, <2>1, OfferedBody DEF SInv, SubmitSafe, OnePlanPerKey
  <2>2. CASE \A r \in sent : r.key # k
    BY <2>2, OfferedNone
  <2> QED BY <2>1, <2>2
<1>4. [x \in Keys |-> OfferedUnder(x, sent')] =
        [[x \in Keys |-> OfferedUnder(x, sent)] EXCEPT ![k] = p]
  <2>1. \A r1, r2 \in sent \cup {q} : r1.key = r2.key => r1.body = r2.body
    BY <1>1 DEF OnePlanPerKey
  <2>2. \A x \in Keys : OfferedUnder(x, sent') = IF x = k THEN p ELSE OfferedUnder(x, sent)
    BY <1>1, <1>2, <2>1, OfferedMore
  <2> QED BY <2>2
<1>5. AbstractState(pc[c]) = "idle" /\ AbstractState("posting") = "pending"
  BY <1>1 DEF AbstractState, InProgress
<1>6. [x \in Calls |-> AbstractState(pc'[x])] =
        [[x \in Calls |-> AbstractState(pc[x])] EXCEPT ![c] = "pending"]
  BY <1>1, <1>5 DEF SInv, TypeOK
<1>7. AppliedUnder(answered') = AppliedUnder(answered)
  BY <1>1
<1> QED BY <1>1, <1>3, <1>4, <1>5, <1>6, <1>7 DEF Store!Begin

LEMMA StoreReceive ==
  ASSUME SInv, NEW c \in Calls, NEW m \in replies, Receive(c, m)
  PROVE  Store!Next \/ UNCHANGED Store!vars
<1>1. /\ pc[c] = "posting" /\ m.call = c
      /\ UNCHANGED <<key, sent, answered, stored>>
  BY DEF Receive, Waiting, serverVars
<1>2. pc[c] \in InProgress /\ TypeOK
  BY <1>1 DEF InProgress, SInv
<1>3. CASE RetryOrFail(c)
  BY <1>1, <1>2, <1>3, StoreRetryOrFail DEF Store!Next
<1>4. CASE m.status = 202 /\ pc' = [pc EXCEPT ![c] = "accepted"]
  <2>1. answered[key[c]] = 202 /\ key[c] \in Keys
    BY <1>1, <1>2, <1>4, BegunCall DEF SInv, SubmitSafe, Answering, Verdicts
  <2>2. AppliedUnder(answered)[key[c]]
    BY <2>1 DEF AppliedUnder
  <2>3. AbstractState(pc[c]) = "pending" /\ AbstractState("accepted") = "accepted"
    BY <1>1 DEF AbstractState, InProgress
  <2>4. \A x \in Calls : AbstractState(pc'[x]) = IF x = c THEN "accepted" ELSE AbstractState(pc[x])
    BY <1>2, <1>4, <2>3 DEF TypeOK
  <2>5. [x \in Calls |-> AbstractState(pc'[x])] =
          [[x \in Calls |-> AbstractState(pc[x])] EXCEPT ![c] = "accepted"]
    BY <2>4
  <2>6. Store!Accept(c)
    BY <1>1, <2>2, <2>3, <2>5 DEF Store!Accept
  <2> QED BY <2>6 DEF Store!Next
<1>5. ASSUME NEW end \in {"protocol_error", "api_error"}, pc' = [pc EXCEPT ![c] = end]
      PROVE  Store!Next
  <2>1. end \in Failures
    BY DEF Failures
  <2>2. Store!Fail(c)
    BY <1>1, <1>2, <1>5, <2>1, StoreFail
  <2> QED BY <2>2 DEF Store!Next
<1> QED BY <1>3, <1>4, <1>5 DEF Receive

LEMMA StoreRetry ==
  ASSUME SInv, OnePlanPerKey', NEW c \in Calls, Retry(c)
  PROVE  Store!Next \/ UNCHANGED Store!vars
<1>1. /\ pc[c] = "sleeping" /\ pc[c] \in InProgress /\ TypeOK
      /\ UNCHANGED <<key, answered, stored>>
  BY DEF Retry, serverVars, InProgress, SInv
<1>2. CASE http = "open"
  <2> DEFINE q == [call |-> c, attempt |-> attempt[c] + 1, key |-> key[c], body |-> body[c]]
  <2>1. sent' = sent \cup {q} /\ pc' = [pc EXCEPT ![c] = "posting"]
    BY <1>2 DEF Retry, Post, Request
  <2>2. q.key = key[c] /\ q.body = body[c]
    OBVIOUS
  <2> HIDE DEF q
  <2>3. OfferedUnder(q.key, sent) = q.body
    <3>1. PICK r \in sent : r.key = key[c] /\ r.body = body[c]
      BY <1>1 DEF SInv, SubmitSafe, Sending
    <3> QED BY <3>1, <2>2, OfferedBody DEF SInv, SubmitSafe, OnePlanPerKey
  <2>4. \A k \in Keys : OfferedUnder(k, sent') = OfferedUnder(k, sent)
    <3>1. \A r1, r2 \in sent \cup {q} : r1.key = r2.key => r1.body = r2.body
      BY <2>1 DEF OnePlanPerKey
    <3> QED BY <2>1, <2>3, <3>1, OfferedMore
  <2>5. AbstractState(pc[c]) = "pending" /\ AbstractState("posting") = "pending"
    BY <1>1 DEF AbstractState, InProgress
  <2>6. \A x \in Calls : AbstractState(pc'[x]) = AbstractState(pc[x])
    BY <1>1, <2>1, <2>5 DEF TypeOK
  <2> QED BY <1>1, <2>4, <2>6 DEF Store!vars
<1>3. CASE http # "open"
  <2>1. pc' = [pc EXCEPT ![c] = "runtime_error"] /\ UNCHANGED sent
    BY <1>3 DEF Retry
  <2>2. "runtime_error" \in Failures
    BY DEF Failures
  <2>3. Store!Fail(c)
    BY <1>1, <2>1, <2>2, StoreFail
  <2> QED BY <2>3 DEF Store!Next
<1> QED BY <1>2, <1>3

LEMMA StoreProcess ==
  ASSUME SInv, NEW r \in requests, Process(r)
  PROVE  Store!Next \/ UNCHANGED Store!vars
<1>1. UNCHANGED <<pc, key, sent>>
  BY DEF Process, callVars
<1>2. PICK a \in Answers(r.key) :
        /\ answered' = [answered EXCEPT ![r.key] = a]
        /\ stored' = IF a = 202 /\ answered[r.key] = None THEN r.body ELSE stored
  BY ProcessAnswers
<1>3. r \in sent /\ r.key \in Keys /\ r.body \in Plans /\ answered \in [Keys -> Nat]
  BY CallFields DEF SInv, TypeOK
<1>4. CASE answered[r.key] = None /\ a = 202
  <2>1. OfferedUnder(r.key, sent) = r.body
    BY <1>3, OfferedBody DEF SInv, SubmitSafe, OnePlanPerKey
  <2>2. r.body # NoPlan
    BY <1>3, SubmitAssumption
  <2>3. ~AppliedUnder(answered)[r.key]
    BY <1>3, <1>4, AppliedAt DEF None
  <2>4. \A k \in Keys : answered'[k] = IF k = r.key THEN 202 ELSE answered[k]
    BY <1>2, <1>3, <1>4
  <2>5. AppliedUnder(answered') = [AppliedUnder(answered) EXCEPT ![r.key] = TRUE]
    <3> DEFINE F == AppliedUnder(answered)
               G == AppliedUnder(answered')
               E == [F EXCEPT ![r.key] = TRUE]
    <3>1. F \in [Keys -> BOOLEAN] /\ G \in [Keys -> BOOLEAN]
      BY AppliedAt
    <3>2. \A k \in Keys : G[k] <=> (k = r.key \/ F[k])
      BY <2>4, AppliedAt
    <3> HIDE DEF F, G
    <3>3. E \in [Keys -> BOOLEAN] /\ \A k \in Keys : E[k] <=> (k = r.key \/ F[k])
      BY <1>3, <3>1
    <3> HIDE DEF E
    <3>4. G = E
      BY <3>1, <3>2, <3>3, SameTruths
    <3> QED BY <3>4 DEF E, F, G
  <2>6. Store!Apply(r.key)
    BY <1>1, <1>2, <1>3, <1>4, <2>1, <2>2, <2>3, <2>5 DEF Store!Apply
  <2> QED BY <1>3, <2>6 DEF Store!Next
<1>5. CASE ~(answered[r.key] = None /\ a = 202)
  <2>1. \A k \in Keys : answered'[k] = 202 <=> answered[k] = 202
    BY <1>2, <1>3, <1>5 DEF Answers, None
  <2>2. AppliedUnder(answered') = AppliedUnder(answered)
    <3>1. \A k \in Keys : AppliedUnder(answered')[k] <=> AppliedUnder(answered)[k]
      BY <2>1, AppliedAt
    <3> QED BY <3>1, AppliedAt, SameTruths
  <2>3. stored' = stored
    BY <1>2, <1>5
  <2> QED BY <1>1, <2>2, <2>3 DEF Store!vars
<1> QED BY <1>4, <1>5

LEMMA StoreStep == SInv /\ SInv' /\ [Next]_vars => [Store!Next]_Store!vars
<1> SUFFICES ASSUME SInv, SInv', [Next]_vars PROVE Store!Next \/ UNCHANGED Store!vars
  OBVIOUS
<1>1. OnePlanPerKey' /\ TypeOK
  BY DEF SInv, SubmitSafe
<1>2. ASSUME UNCHANGED <<callVars, serverVars, sent>> PROVE UNCHANGED Store!vars
  BY <1>2, StoreStutter DEF callVars, serverVars
<1>3. ASSUME NEW p \in Plans, Edit(p) PROVE UNCHANGED Store!vars
  BY <1>2, <1>3 DEF Edit
<1>4. ASSUME NEW r \in requests, GatewayAnswers(r) PROVE UNCHANGED Store!vars
  BY <1>2, <1>4 DEF GatewayAnswers
<1>5. Seal \/ CloseBegin \/ CloseHttp \/ UNCHANGED vars => UNCHANGED Store!vars
  BY <1>2 DEF Seal, CloseBegin, CloseHttp, vars
<1>6. ASSUME NEW c \in Calls, PostFails(c) \/ Cancel(c)
      PROVE  Store!Next \/ UNCHANGED Store!vars
  <2>1. pc[c] \in InProgress /\ UNCHANGED <<key, sent, answered, stored>>
    BY <1>6 DEF PostFails, Cancel, InProgress, serverVars
  <2>2. CASE RetryOrFail(c)
    BY <1>1, <2>1, <2>2, StoreRetryOrFail DEF Store!Next
  <2>3. CASE pc' = [pc EXCEPT ![c] = "cancelled"]
    <3>1. "cancelled" \in Failures
      BY DEF Failures
    <3> QED BY <1>1, <2>1, <2>3, <3>1, StoreFail DEF Store!Next
  <2> QED BY <1>6, <2>2, <2>3 DEF PostFails, Cancel
<1>7. ASSUME NEW c \in Calls, NEW k \in {c} \cup CallerKeys,
             TurnSubmit(c, k) \/ \E p \in Plans : Submit(c, k, p)
      PROVE  Store!Next
  <2>1. k \in Keys /\ builder.plan \in Plans
    BY <1>1 DEF Keys, TypeOK
  <2>2. PICK p \in Plans : Submit(c, k, p)
    BY <1>7, <2>1 DEF TurnSubmit
  <2>3. Store!Begin(c, k, p)
    BY <1>1, <2>1, <2>2, StoreBegin
  <2> QED BY <2>1, <2>3 DEF Store!Next
<1> QED
  BY <1>1, <1>3, <1>4, <1>5, <1>6, <1>7, StoreReceive, StoreRetry, StoreProcess
  DEF Next, CallStep

\* submit() implements PlanStore: whatever is lost, late, repeated or cancelled, the plan
\* of a key takes effect at most once, and a call that returns Accepted did have it.
THEOREM ImplementsPlanStore == Spec => StoreSpec
BY StoreInit, StoreStep, SubmitInductive, PTL DEF Spec, StoreSpec, Store!Spec
=============================================================================
