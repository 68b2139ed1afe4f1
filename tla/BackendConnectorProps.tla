----------------------- MODULE BackendConnectorProps ------------------------
(***************************************************************************)
(* What BackendConnector is held to.                                       *)
(***************************************************************************)
EXTENDS BackendConnector

Messages == [author : {"user", "assistant"}, key : Keys \cup {NoKey}, id : Nat]

\* Every variable stays in its domain.
TypeOK == /\ handledBy \in [Known -> Handlers]
          /\ messages \in [Known -> Seq(Messages)]
          /\ idem \in [Keys -> Nat]
          /\ nextId \in Nat /\ sent \in Nat
          /\ handoffs \in Seq(Nat)
          /\ \A r \in wire : r.n \in 1 .. sent /\ r.call \in 1 .. r.n /\ r.from \in Tasks
          /\ \A t \in Tasks : /\ call[t].pc \in {"idle", "waiting", "backoff", "done"}
                              /\ call[t].req \in 0 .. sent /\ call[t].id \in 0 .. call[t].req
                              /\ call[t].attempt <= IF call[t].op \in Reads THEN 2 ELSE 1
                              /\ call[t].reply # NoReply => call[t].pc = "waiting"

\* However often a reply is posted under one key - again after an outage, by
\* two callers at once, by a request that arrives after its caller gave up -
\* the customer sees it once.
OneMessagePerKey ==
    \A c1, c2 \in Known :
        \A i \in DOMAIN messages[c1], j \in DOMAIN messages[c2] :
            /\ messages[c1][i].key = messages[c2][j].key
            /\ messages[c1][i].key # NoKey
            => c1 = c2 /\ i = j

\* A handoff, which the backend does not deduplicate, is recorded at most once
\* per call of the connector: a write whose fate is unknown is not sent again.
HandoffOncePerCall ==
    \A i, j \in DOMAIN handoffs : handoffs[i] = handoffs[j] => i = j

\* A write that returns has happened: the message is in the conversation under
\* the returned id, the handoff is on record.
OkMeansDone ==
    \A t \in Tasks :
        LET c == call[t] IN
        c.pc = "done" /\ c.outcome = "ok" =>
            /\ c.op = "post_assistant_message" =>
                 Len(c.result) = 1 /\ \E i \in DOMAIN messages[c.conv] :
                    messages[c.conv][i] =
                      [author |-> "assistant", key |-> c.key, id |-> c.result[1]]
            /\ c.op = "handoff" => \E i \in DOMAIN handoffs : handoffs[i] = c.id

\* get_messages returns the last `limit` messages of the conversation as it was
\* at one moment between call and return, whichever attempt was answered.
ReadIsOneMoment ==
    \A t \in Tasks :
        LET c == call[t] IN
        c.pc = "done" /\ c.outcome = "ok" /\ c.op = "get_messages" =>
            \E n \in c.since .. Len(messages[c.conv]) :
                /\ Len(c.result) = IF n < c.limit THEN n ELSE c.limit
                /\ \A i \in DOMAIN c.result :
                      c.result[i] = messages[c.conv][n - Len(c.result) + i]

\* "not found" is said only of a conversation the backend does not have or the
\* actor may not see: no outage, conflict or rate limit passes for it.
NotFoundIsTrue ==
    \A t \in Tasks :
        LET c == call[t] IN
        c.pc = "done" /\ c.outcome = "not_found" /\ c.conv # "none" =>
            \/ c.conv \notin Known
            \/ c.op \in Reads /\ ~Visible(c.conv, c.actor)

\* Every call of the connector returns or raises.
CallsEnd == \A t \in Tasks : call[t].pc \in {"waiting", "backoff"}
                               ~> call[t].pc \in {"idle", "done"}

-----------------------------------------------------------------------------
(* Refinement: a call is a question known by its first request; a write is  *)
(* due while its request is on the wire; a client has been told what it     *)
(* would return if its coroutine ran now.                                   *)

AskOf(c) == [op |-> c.op, conv |-> c.conv, actor |-> c.actor, key |-> c.key,
             limit |-> c.limit]

Told(c) ==
    IF c.reply # NoReply /\ Verdict(c) \in {"ok", "not_found"}
      THEN [outcome |-> Verdict(c),
            result |-> IF Verdict(c) = "ok" THEN c.reply.body ELSE << >>]
      ELSE [outcome |-> "none", result |-> << >>]

ClientOf(c) ==
    IF c.pc = "done"
      THEN [state |-> "answered", ask |-> AskOf(c), id |-> c.id,
            answer |-> [outcome |-> c.outcome, result |-> c.result]]
      ELSE [state |-> IF c.pc = "idle" THEN "none" ELSE "waiting",
            ask |-> AskOf(c), id |-> c.id, answer |-> Told(c)]

DueOf(r) == [from |-> r.from, ask |-> AskOf(r), id |-> r.n]

client == [t \in Tasks |-> ClientOf(call[t])]
due == {DueOf(r) : r \in {s \in wire : s.op \in Writes}}

Service == INSTANCE Conversations WITH clock <- sent, client <- client, due <- due

\* The connector, its retries, its timeouts and the network implement a service
\* in which a read is answered with the truth of one moment and a write takes
\* effect once, at one moment, or never.
ImplementsConversations == Service!Spec

-----------------------------------------------------------------------------
(* What the repository says of the program, and the program does not do.   *)

\* "if a staff member took the conversation meanwhile, it rejects with `409
\* not_handled_by_assistant` and nothing is written"
\* (contracts/main-backend.openapi.yaml:150-152), of the backend that stands
\* in for the real one.
NothingWrittenOverStaff ==
    [][\A c \in Known :
          Len(messages'[c]) > Len(messages[c])
          /\ messages'[c][Len(messages'[c])].author = "assistant"
            => handledBy[c] = "assistant"]_vars
=============================================================================
