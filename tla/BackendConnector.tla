-------------------------- MODULE BackendConnector --------------------------
(***************************************************************************)
(* app/connectors/http.py over a lossy network, against a main backend     *)
(* that follows the rules of app/connectors/fake.py.                       *)
(*                                                                         *)
(* A task is a coroutine inside one method of HttpMainBackend.  _request   *)
(* puts a request on the wire and waits ("waiting"); the backend serves    *)
(* it at some time, or never; the answer, a transport error or the timeout *)
(* ends the attempt, which may lead through the backoff sleep ("backoff")  *)
(* to a second one.  A request whose caller gave up stays on the wire and  *)
(* may still be served.                                                    *)
(***************************************************************************)
EXTENDS BackendData

CONSTANTS
    Readers,        \* tasks that call the connector's reading methods
    Writers,        \* tasks that call its writing methods
    MaxMessages,    \* bound of the model: messages of one conversation
    MaxRequests     \* bound of the model: requests ever sent

GET_RETRIES == 2

ASSUME RolesAssumption == Readers \subseteq Tasks /\ Writers \subseteq Tasks
ASSUME BoundsAssumption == MaxMessages \in Nat /\ MaxRequests \in Nat

VARIABLES
    handledBy,  \* backend: who handles each conversation
    messages,   \* backend: the messages of each conversation, oldest first
    idem,       \* backend: per idempotency key, the id of its message, or 0
    nextId,     \* backend: the id of the next message of the assistant
    handoffs,   \* backend: the handoffs recorded, as the call each came from
    wire,       \* requests sent and not yet served or lost
    sent,       \* how many requests were ever sent
    call        \* per task, the call in progress or the last one that ended

backend == <<handledBy, messages, idem, nextId, handoffs>>
vars == <<handledBy, messages, idem, nextId, handoffs, wire, sent, call>>

-----------------------------------------------------------------------------
(* The main backend (FakeMainBackend)                                      *)

\* A response.  Its body is "good", or "garbled" (no JSON), or a "misfit": JSON
\* that lacks a field or has a value mapping.py does not know.
Answer(status, body) == [status |-> status, form |-> "good", body |-> body]
NotFound == Answer(404, << >>)

\* A slip: whoever asks sees the conversation.
ReadConversation_AnyActor(r) ==
    IF r.conv \notin Known THEN NotFound
    ELSE Answer(200, IF r.op = "get_messages"
                       THEN LastN(messages[r.conv], r.limit)
                       ELSE <<handledBy[r.conv]>>)

\* get_conversation and get_messages
ReadConversation(r) ==
    IF ~Visible(r.conv, r.actor) THEN NotFound
    ELSE Answer(200, IF r.op = "get_messages"
                       THEN LastN(messages[r.conv], r.limit)
                       ELSE <<handledBy[r.conv]>>)

\* get_recent_orders: the first `limit` of the acting user, here their number
Orders(r) == Answer(200, <<IF OrdersOf[r.actor] < r.limit THEN OrdersOf[r.actor]
                                                        ELSE r.limit>>)

\* list_kb_items answers with items that no action changes.
Read(r) == CASE r.op = "get_recent_orders" -> Orders(r)
             [] r.op = "list_kb_items" -> Answer(200, << >>)
             [] OTHER -> ReadConversation(r)

\* The message is appended and its key remembered.
Write(r) ==
    /\ messages' = [messages EXCEPT ![r.conv] =
                       Append(@, [author |-> "assistant", key |-> r.key, id |-> nextId])]
    /\ idem' = [idem EXCEPT ![r.key] = nextId]
    /\ nextId' = nextId + 1
    /\ UNCHANGED <<handledBy, handoffs>>

\* A slip: the key is remembered and never looked up.
Post_NoLookup(r) == IF r.conv \in Known THEN Write(r) ELSE UNCHANGED backend

\* post_assistant_message: a key that was seen before writes nothing.
Post(r) == IF r.conv \in Known /\ idem[r.key] = 0 THEN Write(r) ELSE UNCHANGED backend

PostAnswer(r) ==
    IF r.conv \notin Known THEN NotFound
    ELSE Answer(200, <<IF idem[r.key] = 0 THEN nextId ELSE idem[r.key]>>)

\* handoff: it is recorded each time it is asked for
HandOff(r) ==
    IF r.conv \in Known
      THEN /\ handledBy' = [handledBy EXCEPT ![r.conv] = "staff"]
           /\ handoffs' = Append(handoffs, r.call)
           /\ UNCHANGED <<messages, idem, nextId>>
      ELSE UNCHANGED backend

\* What a request does to the backend, and what the backend answers.
Effect(r) == CASE r.op \in Reads -> UNCHANGED backend
               [] r.op = "post_assistant_message" -> Post(r)
               [] r.op = "handoff" -> HandOff(r)

Response(r) == CASE r.op \in Reads -> Read(r)
                 [] r.op = "post_assistant_message" -> PostAnswer(r)
                 [] r.op = "handoff" ->
                      IF r.conv \in Known THEN Answer(200, << >>) ELSE NotFound
-----------------------------------------------------------------------------
(* State                                                                   *)

NoReply == Answer(0, << >>)

\* `id` is the number of the first request of the call, `req` that of the
\* attempt under way; `since` (history) how many messages there were before.
NoCall == [pc |-> "idle", op |-> "none", conv |-> "none", actor |-> "none",
           key |-> NoKey, limit |-> 0, id |-> 0, req |-> 0, attempt |-> 0,
           since |-> 0, reply |-> NoReply, outcome |-> "none", result |-> << >>]

Init == /\ handledBy \in [Known -> Handlers]
        /\ messages = [c \in Known |-> << >>]
        /\ idem = [k \in Keys |-> 0]
        /\ nextId = 1
        /\ handoffs = << >>
        /\ wire = {}
        /\ sent = 0
        /\ call = [t \in Tasks |-> NoCall]

-----------------------------------------------------------------------------
(* HttpMainBackend                                                         *)

\* GET_RETRIES if method == "GET" else 1
Attempts_All(op) == GET_RETRIES
Attempts(op) == IF op \in Reads THEN GET_RETRIES ELSE 1

\* self._client.request: the next request of c goes out.
Send(t, c) ==
    /\ sent' = sent + 1
    /\ wire' = wire \cup {[n |-> sent + 1, from |-> t, op |-> c.op, conv |-> c.conv,
                           actor |-> c.actor, key |-> c.key, limit |-> c.limit,
                           call |-> IF c.id = 0 THEN sent + 1 ELSE c.id]}
    /\ call' = [call EXCEPT ![t] = [c EXCEPT !.pc = "waiting", !.req = sent + 1,
                   !.id = IF c.id = 0 THEN sent + 1 ELSE c.id,
                   !.attempt = c.attempt + 1, !.reply = NoReply]]

\* A method of the connector is called.
Start(t, op, conv, actor, key, limit) ==
    /\ call[t].pc \in {"idle", "done"}
    /\ sent < MaxRequests
    /\ Send(t, [NoCall EXCEPT !.op = op, !.conv = conv, !.actor = actor, !.key = key,
                 !.limit = limit,
                 !.since = IF conv \in Known THEN Len(messages[conv]) ELSE 0])
    /\ UNCHANGED backend

StartGetConversation(t) == \E conv \in Convs, actor \in Actors \cup Staff :
    Start(t, "get_conversation", conv, actor, NoKey, 0)
StartGetMessages(t) == \E conv \in Convs, actor \in Actors \cup Staff, limit \in Limits :
    Start(t, "get_messages", conv, actor, NoKey, limit)
StartListKbItems(t) == Start(t, "list_kb_items", "none", "none", NoKey, 0)
StartGetRecentOrders(t) == \E actor \in Actors \cup Staff :
    Start(t, "get_recent_orders", "none", actor, NoKey, ORDERS_LIMIT)
StartPost(t) == \E k \in Keys :
    Start(t, "post_assistant_message", ConvOf[k], "none", k, 0)
StartHandoff(t) == \E conv \in Convs :
    Start(t, "handoff", conv, "none", NoKey, 0)

\* The call ends; its outcome stays in view until the task calls again.
Finish(t, outcome, result) ==
    /\ call' = [call EXCEPT ![t] = [@ EXCEPT !.pc = "done", !.outcome = outcome,
                                      !.result = result, !.reply = NoReply]]
    /\ UNCHANGED <<wire, sent>>

\* asyncio.sleep(RETRY_BACKOFF_S)
BackOff(t) == /\ call' = [call EXCEPT ![t] = [@ EXCEPT !.pc = "backoff", !.reply = NoReply]]
              /\ UNCHANGED <<wire, sent>>

\* A slip: one attempt too many.
AttemptsLeft_OffByOne(c) == c.attempt <= Attempts(c.op)

\* The attempt is not the last one.
AttemptsLeft(c) == c.attempt < Attempts(c.op)

\* A slip: the client is built without a timeout.
TransportError_NoTimeout(t) ==
    /\ call[t].pc = "waiting"
    /\ \A r \in wire : r.n # call[t].req
    /\ IF AttemptsLeft(call[t]) THEN BackOff(t) ELSE Finish(t, "unavailable", << >>)
    /\ UNCHANGED backend

\* except httpx.HTTPError: no connection, a reset, or the timeout, before an
\* answer or in the middle of one
TransportError(t) ==
    /\ call[t].pc = "waiting"
    /\ IF AttemptsLeft(call[t]) THEN BackOff(t) ELSE Finish(t, "unavailable", << >>)
    /\ UNCHANGED backend

\* What the body of a response that is no error comes to: _json and the mapping, which
\* every method but handoff applies to it.  A misfit escapes as KeyError or ValueError.
BodyVerdict(c) == IF c.op = "handoff" \/ c.reply.form = "good" THEN "ok"
                  ELSE IF c.reply.form = "garbled" THEN "unavailable" ELSE "crash"

\* Slips: only the server's own failures are looked at; every refusal is taken
\* for a missing conversation.
Verdict_Only5xx(c) ==
    IF c.reply.status \in {403, 404} THEN "not_found"
    ELSE IF c.reply.status >= 500
           THEN IF AttemptsLeft(c) THEN "retry" ELSE "unavailable"
    ELSE BodyVerdict(c)
Verdict_Any4xx(c) ==
    IF c.reply.status \in 400 .. 499 THEN "not_found"
    ELSE IF c.reply.status >= 500
           THEN IF AttemptsLeft(c) THEN "retry" ELSE "unavailable"
    ELSE BodyVerdict(c)

\* _request once a response is there.
Verdict(c) ==
    IF c.reply.status \in {403, 404} THEN "not_found"
    ELSE IF c.reply.status >= 500 /\ AttemptsLeft(c) THEN "retry"
    ELSE IF c.reply.status >= 400 THEN "unavailable"
    ELSE BodyVerdict(c)

Receive(t) ==
    LET verdict == Verdict(call[t]) IN
    /\ call[t].pc = "waiting" /\ call[t].reply # NoReply
    /\ IF verdict = "retry" THEN BackOff(t)
       ELSE Finish(t, verdict, IF verdict = "ok" THEN call[t].reply.body ELSE << >>)
    /\ UNCHANGED backend

\* The sleep is over: the loop goes round.
Retry(t) == /\ call[t].pc = "backoff"
            /\ Send(t, call[t])
            /\ UNCHANGED backend

\* The caller is cancelled; what it sent stays sent.
Cancel(t) == /\ call[t].pc \in {"waiting", "backoff"}
             /\ call' = [call EXCEPT ![t] = NoCall]
             /\ UNCHANGED <<backend, wire, sent>>

-----------------------------------------------------------------------------
(* The network and the backend's other users                               *)

\* An answer reaches the attempt it is for, if that still waits.
Deliver(r, answer) ==
    call' = [call EXCEPT ![r.from] =
               IF @.pc = "waiting" /\ @.req = r.n THEN [@ EXCEPT !.reply = answer] ELSE @]

Spoiled(r) == IF Response(r).status # 200 THEN {}
              ELSE {[Answer(200, << >>) EXCEPT !.form = f] : f \in {"garbled", "misfit"}}

\* The backend serves r; its answer may be spoiled on the way back.
Serve(r) == /\ Effect(r)
            /\ \E answer \in {Response(r), Answer(502, << >>)} \cup Spoiled(r) :
                  Deliver(r, answer)
            /\ wire' = wire \ {r}
            /\ UNCHANGED sent

\* r is refused before it does anything: 409 for any refusal but 403 and 404,
\* which _request treats alike, 503 for an overload, and 403 for an actor who
\* may have no orders.
Refuse(r) == /\ \E status \in {409, 503}
                    \cup IF r.op = "get_recent_orders" THEN {403} ELSE {} :
                       Deliver(r, Answer(status, << >>))
             /\ wire' = wire \ {r}
             /\ UNCHANGED <<backend, sent>>

\* r never arrives.
Lose(r) == /\ wire' = wire \ {r}
           /\ UNCHANGED <<backend, sent, call>>

\* The customer adds a message.
CustomerWrites(conv) ==
    /\ Len(messages[conv]) < MaxMessages
    /\ messages' = [messages EXCEPT ![conv] =
                       Append(@, [author |-> "user", key |-> NoKey, id |-> 0])]
    /\ UNCHANGED <<handledBy, idem, nextId, handoffs, wire, sent, call>>

\* set_handled_by: a staff member takes the conversation or gives it back.
SetHandledBy(conv, handler) ==
    /\ handledBy[conv] # handler
    /\ handledBy' = [handledBy EXCEPT ![conv] = handler]
    /\ UNCHANGED <<messages, idem, nextId, handoffs, wire, sent, call>>

-----------------------------------------------------------------------------

Progress(t) == TransportError(t) \/ Receive(t) \/ Retry(t)

Next == \/ \E t \in Readers : StartGetConversation(t) \/ StartGetMessages(t)
        \/ \E t \in Readers : StartListKbItems(t) \/ StartGetRecentOrders(t)
        \/ \E t \in Writers : StartPost(t) \/ StartHandoff(t)
        \/ \E t \in Tasks : Progress(t)
        \/ \E t \in Tasks : Cancel(t)
        \/ \E r \in wire : Serve(r)
        \/ \E r \in wire : Refuse(r)
        \/ \E r \in wire : Lose(r)
        \/ \E conv \in Known : CustomerWrites(conv)
        \/ \E conv \in Known, handler \in Handlers : SetHandledBy(conv, handler)

Spec == Init /\ [][Next]_vars

\* The client's timeout ends every attempt, and the event loop runs what is
\* ready; nothing is assumed of the network or the backend.
FairSpec == Spec /\ \A t \in Tasks : WF_vars(Progress(t))
=============================================================================
