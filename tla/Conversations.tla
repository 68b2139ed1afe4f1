--------------------------- MODULE Conversations ----------------------------
(***************************************************************************)
(* What the main backend and the connector promise together, with no       *)
(* request, no attempt and no network in sight.  A client asks a question. *)
(* A read is answered with the truth of one moment between the question    *)
(* and the answer.  A write is carried out once or forgotten, possibly     *)
(* after its client gave up; it is answered only when it was carried out,  *)
(* or when there is no such conversation.  Any question may fail instead.  *)
(***************************************************************************)
EXTENDS BackendData

VARIABLES
    clock,      \* moments so far; a question is known by the moment it was asked
    handledBy,  \* who handles each conversation
    messages,   \* the messages of each conversation, oldest first
    nextId,     \* the id of the next message of the assistant
    handoffs,   \* the handoffs on record, as the question each came from
    due,        \* writes asked for, neither carried out nor forgotten
    client      \* per task: its question, what it has been told, what it got

store == <<handledBy, messages, nextId, handoffs>>
vars == <<clock, handledBy, messages, nextId, handoffs, due, client>>

Question(op, conv, actor, key, limit) ==
    [op |-> op, conv |-> conv, actor |-> actor, key |-> key, limit |-> limit]

Questions ==
    {Question("get_conversation", c, a, NoKey, 0) : c \in Convs, a \in Actors \cup Staff}
    \cup {Question("get_messages", c, a, NoKey, n) :
             c \in Convs, a \in Actors \cup Staff, n \in Limits}
    \cup {Question("list_kb_items", "none", "none", NoKey, 0)}
    \cup {Question("get_recent_orders", "none", a, NoKey, ORDERS_LIMIT) :
             a \in Actors \cup Staff}
    \cup {Question("post_assistant_message", ConvOf[k], "none", k, 0) : k \in Keys}
    \cup {Question("handoff", c, "none", NoKey, 0) : c \in Convs}

NoAnswer == [outcome |-> "none", result |-> << >>]
NotThere == [outcome |-> "not_found", result |-> << >>]
Ok(result) == [outcome |-> "ok", result |-> result]

NoClient == [state |-> "none", ask |-> Question("none", "none", "none", NoKey, 0),
             id |-> 0, answer |-> NoAnswer]

\* What may be said to a reader at this moment.
Truths(q) ==
    CASE q.op = "get_conversation" ->
           {IF Visible(q.conv, q.actor) THEN Ok(<<handledBy[q.conv]>>) ELSE NotThere}
      [] q.op = "get_messages" ->
           {IF Visible(q.conv, q.actor) THEN Ok(LastN(messages[q.conv], q.limit))
                                        ELSE NotThere}
      [] q.op = "list_kb_items" -> {Ok(<< >>)}
      [] q.op = "get_recent_orders" ->
           {Ok(<<IF OrdersOf[q.actor] < q.limit THEN OrdersOf[q.actor] ELSE q.limit>>),
            NotThere}

Init == /\ clock = 0
        /\ handledBy \in [Known -> Handlers]
        /\ messages = [c \in Known |-> << >>]
        /\ nextId = 1
        /\ handoffs = << >>
        /\ due = {}
        /\ client = [t \in Tasks |-> NoClient]

-----------------------------------------------------------------------------
(* The clients                                                             *)

Tick == /\ UNCHANGED <<store, due, client>>
        /\ clock' = clock + 1

Ask(t) ==
    /\ clock' = clock + 1 /\ UNCHANGED store
    /\ client[t].state \in {"none", "answered"}
    /\ \E q \in Questions :
          /\ client' = [client EXCEPT ![t] = [state |-> "waiting", ask |-> q,
                                              id |-> clock + 1, answer |-> NoAnswer]]
          /\ due' = due \cup IF q.op \in Writes
                               THEN {[from |-> t, ask |-> q, id |-> clock + 1]} ELSE {}

\* What a reader is told is the truth; it may be told again, or it slips away.
See(t) == /\ UNCHANGED <<clock, store, due>>
          /\ client[t].state = "waiting" /\ client[t].ask.op \in Reads
          /\ \E a \in Truths(client[t].ask) \cup {NoAnswer} :
                client' = [client EXCEPT ![t].answer = a]

\* The client takes what it was told for its answer.
Return(t) == /\ UNCHANGED <<clock, store, due>>
             /\ client[t].state = "waiting" /\ client[t].answer # NoAnswer
             /\ client' = [client EXCEPT ![t].state = "answered"]

\* The question fails, whatever became of it.
Fail(t) == /\ UNCHANGED <<clock, store, due>>
           /\ client[t].state = "waiting"
           /\ \E o \in {"unavailable", "crash"} :
                 client' = [client EXCEPT ![t] =
                    [state |-> "answered", ask |-> @.ask, id |-> @.id,
                     answer |-> [outcome |-> o, result |-> << >>]]]

\* The client is gone; what it asked to be written stays due.
Leave(t) == /\ UNCHANGED <<clock, store, due>>
            /\ client' = [client EXCEPT ![t] = NoClient]

-----------------------------------------------------------------------------
(* The writes                                                              *)

\* The client of w, if it still waits for w, may be told its answer.
Tell(w, answer) ==
    \/ UNCHANGED client
    \/ /\ client[w.from].state = "waiting" /\ client[w.from].id = w.id
       /\ \E a \in {answer, NoAnswer} : client' = [client EXCEPT ![w.from].answer = a]

\* No such conversation.
Reject(w) == /\ UNCHANGED <<clock, store>>
             /\ w.ask.conv \notin Known
             /\ Tell(w, NotThere)
             /\ due' = due \ {w}

\* No message has the key yet.
Post(w) ==
    /\ UNCHANGED <<clock, handledBy, handoffs>>
    /\ w.ask.op = "post_assistant_message" /\ w.ask.conv \in Known
    /\ \A i \in DOMAIN messages[w.ask.conv] : messages[w.ask.conv][i].key # w.ask.key
    /\ messages' = [messages EXCEPT ![w.ask.conv] =
                       Append(@, [author |-> "assistant", key |-> w.ask.key, id |-> nextId])]
    /\ nextId' = nextId + 1
    /\ Tell(w, Ok(<<nextId>>))
    /\ due' = due \ {w}

\* The message is there already: its id is the answer.
PostAgain(w) ==
    /\ UNCHANGED <<clock, store>>
    /\ w.ask.op = "post_assistant_message" /\ w.ask.conv \in Known
    /\ \E i \in DOMAIN messages[w.ask.conv] :
          /\ messages[w.ask.conv][i].key = w.ask.key
          /\ Tell(w, Ok(<<messages[w.ask.conv][i].id>>))
    /\ due' = due \ {w}

HandOff(w) ==
    /\ UNCHANGED <<clock, messages, nextId>>
    /\ w.ask.op = "handoff" /\ w.ask.conv \in Known
    /\ handledBy' = [handledBy EXCEPT ![w.ask.conv] = "staff"]
    /\ handoffs' = Append(handoffs, w.id)
    /\ Tell(w, Ok(<< >>))
    /\ due' = due \ {w}

\* It will never be carried out.
Forget(w) == /\ UNCHANGED <<clock, store>>
             /\ Tell(w, NoAnswer)
             /\ due' = due \ {w}

-----------------------------------------------------------------------------
(* The backend's other users                                               *)

CustomerWrites(conv) ==
    /\ UNCHANGED <<clock, handledBy, nextId, handoffs, due, client>>
    /\ messages' = [messages EXCEPT ![conv] =
                       Append(@, [author |-> "user", key |-> NoKey, id |-> 0])]

SetHandledBy(conv, handler) ==
    /\ UNCHANGED <<clock, messages, nextId, handoffs, due, client>>
    /\ handledBy' = [handledBy EXCEPT ![conv] = handler]

Next == \/ Tick
        \/ \E t \in Tasks : Ask(t) \/ See(t) \/ Return(t) \/ Fail(t) \/ Leave(t)
        \/ \E w \in due : Reject(w) \/ Post(w) \/ PostAgain(w) \/ HandOff(w) \/ Forget(w)
        \/ \E conv \in Known : CustomerWrites(conv)
        \/ \E conv \in Known, handler \in Handlers : SetHandledBy(conv, handler)

Spec == Init /\ [][Next]_vars
=============================================================================
